--------------------------- MODULE PageTreeProofs ---------------------------
(***************************************************************************)
(* Theorems about PageTree: whatever the tokens of a page, its open        *)
(* elements are a path of a tree, an element holds what is between its     *)
(* tags, and find_all and text() yield what is in a node, once each.       *)
(***************************************************************************)
EXTENDS PageTree, FiniteSetTheorems, SequenceTheorems, WellFoundedInduction, TLAPS

(* A sequence of nodes that begins with the root, each the parent of the   *)
(* next.                                                                   *)
Path(s, parent) ==
    /\ s \in Seq(Nat)
    /\ Len(s) >= 1
    /\ s[1] = 0
    /\ \A n \in 2 .. Len(s) : s[n] \in DOMAIN parent /\ parent[s[n]] = s[n - 1]

(* Every parent is earlier than its child, and on the page.                *)
Tree(parent, length) ==
    \A k \in DOMAIN parent : k \in 1 .. length /\ parent[k] \in Nat /\ parent[k] < k

(* Nothing open is beyond the end of the page.                             *)
OnPage(s, length) == \A n \in 1 .. Len(s) : s[n] <= length

Tokens == [kind : {"start", "empty", "end", "data"}, tag : Tags \cup Void \cup {"#text"}]

Inv ==
    /\ page \in Seq(Tokens)
    /\ Tree(up, Len(page))
    /\ Path(stack, up)
    /\ OnPage(stack, Len(page))

(* An end tag leaves a prefix of the stack, and never an empty one.        *)
LEMMA ClosedPrefix ==
    ASSUME NEW s \in Seq(Nat), Len(s) >= 1, NEW tagOf, NEW tag
    PROVE  \E m \in 1 .. Len(s) : Closed(s, tagOf, tag) = SubSeq(s, 1, m)
<1> DEFINE open == {n \in 2 .. Len(s) : tagOf[s[n]] = tag}
           kept == {n \in DOMAIN s : \E m \in open : n < m}
<1>1. Len(s) \in Nat /\ DOMAIN s = 1 .. Len(s)
  OBVIOUS
<1>2. CASE open = {}
  <2>1. Closed(s, tagOf, tag) = s
    BY <1>2 DEF Closed
  <2>2. s = SubSeq(s, 1, Len(s)) /\ Len(s) \in 1 .. Len(s)
    BY <1>1
  <2>3. Closed(s, tagOf, tag) = SubSeq(s, 1, Len(s))
    BY <2>1, <2>2
  <2> QED
    BY <2>2, <2>3
<1>3. CASE open # {}
  <2>1. Closed(s, tagOf, tag) = SubSeq(s, 1, Cardinality(kept))
    BY <1>3 DEF Closed, Below
  <2>2. IsFiniteSet(1 .. Len(s)) /\ Cardinality(1 .. Len(s)) = Len(s)
    BY <1>1, FS_Interval
  <2>3. kept \in SUBSET (1 .. Len(s))
    BY <1>1
  <2>4. IsFiniteSet(kept) /\ Cardinality(kept) <= Len(s)
    BY <2>2, <2>3, FS_Subset
  <2>5. Cardinality(kept) \in Nat
    BY <2>4, FS_CardinalityType
  <2>6. 1 \in kept
    BY <1>1, <1>3
  <2>7. Cardinality(kept) # 0
    BY <2>4, <2>6, FS_EmptySet
  <2>8. Cardinality(kept) \in 1 .. Len(s)
    BY <1>1, <2>2, <2>4, <2>5, <2>7
  <2> HIDE DEF kept
  <2> QED
    BY <2>1, <2>8
<1> QED
  BY <1>2, <1>3

LEMMA PathPrefix ==
    ASSUME NEW s, NEW parent, Path(s, parent), NEW length, OnPage(s, length),
           NEW m \in 1 .. Len(s)
    PROVE  Path(SubSeq(s, 1, m), parent) /\ OnPage(SubSeq(s, 1, m), length)
<1>1. s \in Seq(Nat) /\ Len(s) \in Nat
  BY DEF Path
<1>2. /\ SubSeq(s, 1, m) \in Seq(Nat)
      /\ Len(SubSeq(s, 1, m)) = m
      /\ \A n \in 1 .. m : SubSeq(s, 1, m)[n] = s[n]
  BY <1>1
<1> QED
  BY <1>1, <1>2 DEF Path, OnPage

(* An end tag keeps the stack a path.                                      *)
LEMMA ClosedPath ==
    ASSUME NEW s, NEW parent, Path(s, parent), NEW length, OnPage(s, length),
           NEW tagOf, NEW tag
    PROVE  Path(Closed(s, tagOf, tag), parent) /\ OnPage(Closed(s, tagOf, tag), length)
<1>1. PICK m \in 1 .. Len(s) : Closed(s, tagOf, tag) = SubSeq(s, 1, m)
  BY ClosedPrefix DEF Path
<1> QED
  BY <1>1, PathPrefix

(* A node is added below the innermost element, which stays the end of a   *)
(* path; the node itself may become the new one.                           *)
LEMMA AddInv ==
    ASSUME Inv, NEW kind \in {"start", "empty", "data"},
           NEW tag \in Tags \cup Void \cup {"#text"}, Add(kind, tag)
    PROVE  /\ page' \in Seq(Tokens) /\ Len(page') = Here
           /\ Tree(up', Here)
           /\ Path(stack, up') /\ OnPage(stack, Here)
           /\ Path(Append(stack, Here), up') /\ OnPage(Append(stack, Here), Here)
<1>0. Len(page) \in Nat /\ Here = Len(page) + 1
  BY DEF Inv, Here
<1>1. stack \in Seq(Nat) /\ Len(stack) \in Nat /\ Len(stack) >= 1
  BY DEF Inv, Path
<1>2. page' \in Seq(Tokens) /\ Len(page') = Here
  BY <1>0, <1>1 DEF Add, Inv, Tokens
<1>3. stack[Len(stack)] \in Nat /\ stack[Len(stack)] < Here
  BY <1>0, <1>1 DEF Inv, OnPage
<1>4. /\ DOMAIN up' = DOMAIN up \cup {Here}
      /\ up'[Here] = stack[Len(stack)]
      /\ \A k \in DOMAIN up \ {Here} : up'[k] = up[k]
  BY DEF Add
<1>5. \A k \in DOMAIN up : k \in 1 .. Len(page) /\ k # Here
  BY <1>0, <1>1 DEF Inv, Tree
<1>6. Tree(up', Here)
  BY <1>0, <1>1, <1>3, <1>4, <1>5 DEF Inv, Tree
<1>7. Path(stack, up') /\ OnPage(stack, Here)
  BY <1>0, <1>1, <1>4, <1>5 DEF Inv, Path, OnPage
<1>8. /\ Append(stack, Here) \in Seq(Nat)
      /\ Len(Append(stack, Here)) = Len(stack) + 1
      /\ \A n \in 1 .. Len(stack) : Append(stack, Here)[n] = stack[n]
      /\ Append(stack, Here)[Len(stack) + 1] = Here
  BY <1>0, <1>1
<1>9. Path(Append(stack, Here), up')
  BY <1>0, <1>1, <1>4, <1>7, <1>8 DEF Path
<1>10. OnPage(Append(stack, Here), Here)
  BY <1>0, <1>1, <1>7, <1>8 DEF OnPage
<1> QED
  BY <1>2, <1>6, <1>7, <1>9, <1>10

LEMMA Invariance == TreeSpec => []Inv
<1>1. TreeInit => Inv
  BY DEF TreeInit, Inv, Tree, Path, OnPage
<1>2. Inv /\ [TreeNext]_treevars => Inv'
  <2>1. SUFFICES ASSUME Inv, [TreeNext]_treevars PROVE Inv'
    OBVIOUS
  <2>2. ASSUME NEW tag \in Tags \cup Void, StartTag(tag) PROVE Inv'
    BY <2>1, <2>2, AddInv DEF StartTag, Inv
  <2>3. ASSUME NEW tag \in Tags \cup Void, StartEndTag(tag) PROVE Inv'
    <3>1. /\ page' \in Seq(Tokens) /\ Len(page') = Here /\ Tree(up', Here)
          /\ Path(Append(stack, Here), up') /\ OnPage(Append(stack, Here), Here)
      BY <2>1, <2>3, AddInv DEF StartEndTag
    <3>2. /\ Path(Closed(Append(stack, Here), TagOf', tag), up')
          /\ OnPage(Closed(Append(stack, Here), TagOf', tag), Here)
      BY <3>1, ClosedPath
    <3> QED
      BY <2>3, <3>1, <3>2 DEF StartEndTag, Inv
  <2>4. ASSUME NEW tag \in Tags, EndTag(tag) PROVE Inv'
    <3>1. page' \in Seq(Tokens) /\ Len(page') = Len(page) + 1 /\ Len(page) \in Nat
      BY <2>1, <2>4 DEF EndTag, Inv, Tokens
    <3>2. Tree(up', Len(page'))
      BY <2>1, <2>4, <3>1 DEF EndTag, Inv, Tree
    <3>3. Path(stack', up')
      BY <2>1, <2>4, ClosedPath DEF EndTag, Inv
    <3>4. OnPage(stack', Len(page))
      BY <2>1, <2>4, ClosedPath DEF EndTag, Inv
    <3>5. OnPage(stack', Len(page'))
      BY <3>1, <3>3, <3>4 DEF OnPage, Path
    <3> QED
      BY <3>1, <3>2, <3>3, <3>5 DEF Inv
  <2>5. CASE Data
    BY <2>1, <2>5, AddInv DEF Data, Inv
  <2>6. CASE UNCHANGED treevars
    BY <2>1, <2>6 DEF treevars, Inv
  <2> QED
    BY <2>1, <2>2, <2>3, <2>4, <2>5, <2>6 DEF TreeNext
<1> QED
  BY <1>1, <1>2, PTL DEF TreeSpec

(* For every page, however its tags are nested, left open or unmatched:    *)
(* the stack starts with the root, each open element is a child of the one *)
(* below it, and parents come before their children.                       *)
THEOREM StackStaysPath == TreeSpec => []StackIsPath
<1>1. Inv => StackIsPath
  BY DEF Inv, Path, Tree, StackIsPath
<1> QED
  BY <1>1, Invariance, PTL
-----------------------------------------------------------------------------
(* What is between two tags                                                *)

Spans(length) == (1 .. length + 1) \X (0 .. length)

(* W as in WellFormed: what makes the tokens from i to j well formed.      *)
Rule(p, W, i, j) ==
    \/ i > j
    \/ /\ \/ p[j].kind \in {"data", "empty"}
          \/ p[j].kind = "start" /\ p[j].tag \in Void
       /\ <<i, j - 1>> \in W
    \/ /\ p[j].kind = "end"
       /\ \E m \in i .. j - 1 :
             /\ p[m] = [kind |-> "start", tag |-> p[j].tag]
             /\ <<i, m - 1>> \in W
             /\ <<m + 1, j - 1>> \in W

Balance(p, W) ==
    /\ W \subseteq Spans(Len(p))
    /\ \A i \in 1 .. Len(p) + 1, j \in 0 .. Len(p) : <<i, j>> \in W <=> Rule(p, W, i, j)

(* The first tokens of a page are judged as if they were all.              *)
LEMMA BalanceBefore ==
    ASSUME NEW p \in Seq(Tokens), NEW t \in Tokens, NEW W, Balance(Append(p, t), W)
    PROVE  Balance(p, W \cap Spans(Len(p)))
<1> DEFINE V == W \cap Spans(Len(p))
<1>1. /\ Len(p) \in Nat /\ Len(Append(p, t)) = Len(p) + 1
      /\ \A k \in 1 .. Len(p) : Append(p, t)[k] = p[k]
  OBVIOUS
<1>2. \A i, j \in Nat : i \in 1 .. Len(p) + 1 /\ j \in 0 .. Len(p)
          => (<<i, j>> \in V <=> <<i, j>> \in W)
  BY <1>1 DEF Spans
<1> HIDE DEF V
<1>3. ASSUME NEW i \in 1 .. Len(p) + 1, NEW j \in 0 .. Len(p)
      PROVE  Rule(p, V, i, j) <=> Rule(Append(p, t), W, i, j)
  <2>1. CASE i > j
    BY <2>1 DEF Rule
  <2>2. CASE i <= j
    <3>1. /\ j \in 1 .. Len(p) /\ j - 1 \in 0 .. Len(p) /\ i \in Nat /\ j - 1 \in Nat
          /\ Append(p, t)[j] = p[j]
      BY <1>1, <2>2
    <3>2. <<i, j - 1>> \in V <=> <<i, j - 1>> \in W
      BY <1>2, <3>1
    <3>3. \A m \in i .. j - 1 :
              /\ Append(p, t)[m] = p[m]
              /\ <<i, m - 1>> \in V <=> <<i, m - 1>> \in W
              /\ <<m + 1, j - 1>> \in V <=> <<m + 1, j - 1>> \in W
      <4>1. ASSUME NEW m \in i .. j - 1
            PROVE  /\ m \in 1 .. Len(p) /\ m - 1 \in 0 .. Len(p) /\ m + 1 \in 1 .. Len(p) + 1
                   /\ m - 1 \in Nat /\ m + 1 \in Nat
        BY <1>1, <3>1
      <4> QED
        BY <1>1, <1>2, <3>1, <4>1
    <3> QED
      BY <3>1, <3>2, <3>3 DEF Rule
  <2> QED
    BY <1>1, <2>1, <2>2
<1>4. ASSUME NEW i \in 1 .. Len(p) + 1, NEW j \in 0 .. Len(p)
      PROVE  <<i, j>> \in V <=> Rule(p, V, i, j)
  <2>1. i \in 1 .. Len(Append(p, t)) + 1 /\ j \in 0 .. Len(Append(p, t))
    BY <1>1
  <2>2. <<i, j>> \in W <=> Rule(Append(p, t), W, i, j)
    BY <2>1 DEF Balance
  <2>3. <<i, j>> \in V <=> <<i, j>> \in W
    BY <1>1, <1>2
  <2> QED
    BY <1>3, <2>2, <2>3
<1>5. \A i \in 1 .. Len(p) + 1, j \in 0 .. Len(p) : <<i, j>> \in V <=> Rule(p, V, i, j)
  BY <1>4
<1>6. V \subseteq Spans(Len(p))
  BY DEF V
<1> QED
  BY <1>5, <1>6 DEF Balance, V

(* One more token only adds spans that end with it.                        *)
LEMMA BalanceAfter ==
    ASSUME NEW p \in Seq(Tokens), NEW t \in Tokens, NEW V, Balance(p, V)
    PROVE  \E W : Balance(Append(p, t), W)
<1> DEFINE last == Len(p) + 1
           W == {ij \in Spans(last) : IF ij[2] = last \/ ij[1] = last + 1
                                      THEN Rule(Append(p, t), V, ij[1], ij[2])
                                      ELSE ij \in V}
<1>1. /\ Len(p) \in Nat /\ Len(Append(p, t)) = last /\ last \in Nat /\ last = Len(p) + 1
      /\ \A k \in 1 .. Len(p) : Append(p, t)[k] = p[k]
  OBVIOUS
<1>2. \A i \in 1 .. last + 1, j \in 0 .. last :
          <<i, j>> \in W <=> IF j = last \/ i = last + 1 THEN Rule(Append(p, t), V, i, j)
                             ELSE <<i, j>> \in V
  BY <1>1 DEF Spans
<1>3. W \subseteq Spans(last)
  OBVIOUS
<1> HIDE DEF W
<1>4. \A i \in 1 .. last, j \in 0 .. Len(p) : <<i, j>> \in W <=> <<i, j>> \in V
  <2>1. ASSUME NEW i \in 1 .. last, NEW j \in 0 .. Len(p)
        PROVE  i \in 1 .. last + 1 /\ j \in 0 .. last /\ ~(j = last \/ i = last + 1)
    BY <1>1
  <2> HIDE DEF last
  <2> QED
    BY <1>2, <2>1
<1>5. \A i \in 1 .. last, j \in 0 .. Len(p) : <<i, j>> \in V <=> Rule(p, V, i, j)
  BY <1>1 DEF Balance
<1> HIDE DEF last
<1>6. ASSUME NEW i \in 1 .. last + 1, NEW j \in 0 .. last
      PROVE  /\ Rule(Append(p, t), W, i, j) <=> Rule(Append(p, t), V, i, j)
             /\ j < last /\ i <= last => (Rule(Append(p, t), V, i, j) <=> Rule(p, V, i, j))
  <2>1. CASE i > j
    BY <2>1 DEF Rule
  <2>2. CASE i <= j
    <3>1. j \in 1 .. last /\ j - 1 \in 0 .. Len(p) /\ i \in 1 .. last
      BY <1>1, <2>2
    <3>2. <<i, j - 1>> \in V <=> <<i, j - 1>> \in W
      BY <1>4, <3>1
    <3>3. \A m \in i .. j - 1 :
              /\ Append(p, t)[m] = p[m]
              /\ <<i, m - 1>> \in V <=> <<i, m - 1>> \in W
              /\ <<m + 1, j - 1>> \in V <=> <<m + 1, j - 1>> \in W
      <4>1. ASSUME NEW m \in i .. j - 1
            PROVE  m \in 1 .. Len(p) /\ m - 1 \in 0 .. Len(p) /\ m + 1 \in 1 .. last
        BY <1>1, <3>1
      <4> QED
        BY <1>1, <1>4, <3>1, <4>1
    <3>4. j < last => Append(p, t)[j] = p[j]
      BY <1>1, <3>1
    <3> QED
      BY <3>1, <3>2, <3>3, <3>4 DEF Rule
  <2> QED
    BY <1>1, <2>1, <2>2
<1>7. ASSUME NEW i \in 1 .. last + 1, NEW j \in 0 .. last
      PROVE  <<i, j>> \in W <=> Rule(Append(p, t), W, i, j)
  <2>1. CASE j = last \/ i = last + 1
    BY <1>2, <1>6, <2>1
  <2>2. CASE ~(j = last \/ i = last + 1)
    <3>1. i \in 1 .. last /\ j \in 0 .. Len(p) /\ j < last /\ i <= last
      BY <1>1, <2>2
    <3> QED
      BY <1>4, <1>5, <1>6, <3>1
  <2> QED
    BY <2>1, <2>2
<1> QED
  BY <1>1, <1>3, <1>7 DEF Balance
-----------------------------------------------------------------------------
(* Nesting                                                                 *)

NodesOK(p, parent) ==
    /\ DOMAIN parent = {k \in 1 .. Len(p) : p[k].kind # "end"}
    /\ \A k \in DOMAIN parent : parent[k] \in {0} \cup DOMAIN parent

Ascending(s) == \A m, n \in 1 .. Len(s) : m < n => s[m] < s[n]

(* What comes after an open element is in it.                              *)
OpenHold(s, parent) ==
    \A n \in 2 .. Len(s) : \A k \in DOMAIN parent : s[n] < k => s[n] <= parent[k]

(* If all is well formed from an element to e, the element is among the    *)
(* first n that are open then, and in it only elements that need no end.   *)
OpenBefore(p, s, W, n, e) ==
    \A i \in 1 .. Len(p) :
        i <= e /\ p[i].kind = "start" /\ <<i + 1, e>> \in W =>
            \E r \in 2 .. n : s[r] = i /\ \A q \in r + 1 .. n : p[s[q]].tag \in Void

OpenOK(p, s, W) ==
    /\ \A n \in 2 .. Len(s) : OpenBefore(p, s, W, n - 1, s[n] - 1)
    /\ OpenBefore(p, s, W, Len(s), Len(p))

Closes(p, W, i, j) ==
    /\ i < j
    /\ p[i].kind = "start" /\ p[i].tag \in Tags
    /\ p[j] = [kind |-> "end", tag |-> p[i].tag]
    /\ <<i + 1, j - 1>> \in W

(* What is between the tags i and j is in i, and nothing after them.       *)
ClosedAt(parent, s, i, j) ==
    /\ \A k \in DOMAIN parent :
          /\ i < k /\ k < j => i <= parent[k]
          /\ j < k => parent[k] < i \/ j <= parent[k]
    /\ \A n \in 1 .. Len(s) : s[n] < i \/ j <= s[n]

ClosedOK(p, parent, s, W) ==
    \A i, j \in 1 .. Len(p) : Closes(p, W, i, j) => ClosedAt(parent, s, i, j)

Shaped(p, parent, s) ==
    /\ p \in Seq(Tokens)
    /\ Tree(parent, Len(p))
    /\ Path(s, parent)
    /\ OnPage(s, Len(p))

Nested(p, parent, s) ==
    /\ NodesOK(p, parent)
    /\ Ascending(s)
    /\ OpenHold(s, parent)
    /\ \E W : Balance(p, W)
    /\ \A W : Balance(p, W) => OpenOK(p, s, W) /\ ClosedOK(p, parent, s, W)

(* The facts about a stack and a page that each step needs.                *)
LEMMA Shape ==
    ASSUME NEW p, NEW parent, NEW s, Shaped(p, parent, s)
    PROVE  /\ p \in Seq(Tokens) /\ Len(p) \in Nat /\ DOMAIN p = 1 .. Len(p)
           /\ s \in Seq(Nat) /\ Len(s) \in Nat /\ Len(s) >= 1 /\ s[1] = 0
           /\ \A n \in 1 .. Len(s) : s[n] \in Nat /\ s[n] <= Len(p)
           /\ \A n \in 2 .. Len(s) : s[n] \in DOMAIN parent /\ s[n] \in 1 .. Len(p)
           /\ \A k \in DOMAIN parent : k \in 1 .. Len(p) /\ parent[k] \in Nat
<1>1. p \in Seq(Tokens) /\ Len(p) \in Nat /\ DOMAIN p = 1 .. Len(p)
  BY DEF Shaped
<1>2. s \in Seq(Nat) /\ Len(s) \in Nat /\ Len(s) >= 1 /\ s[1] = 0
  BY DEF Shaped, Path
<1>3. \A n \in 1 .. Len(s) : s[n] \in Nat /\ s[n] <= Len(p)
  BY <1>2 DEF Shaped, OnPage
<1>4. \A k \in DOMAIN parent : k \in 1 .. Len(p) /\ parent[k] \in Nat
  BY DEF Shaped, Tree
<1>5. \A n \in 2 .. Len(s) : s[n] \in DOMAIN parent /\ s[n] \in 1 .. Len(p)
  BY <1>4 DEF Shaped, Path
<1> QED
  BY <1>1, <1>2, <1>3, <1>4, <1>5

(* A token more, and another stack with the same elements up to n.         *)
LEMMA OpenFrame ==
    ASSUME NEW p \in Seq(Tokens), NEW t \in Tokens, NEW s, NEW u, NEW W, NEW n \in Nat,
           NEW e \in 0 .. Len(p),
           \A q \in 2 .. n : u[q] = s[q] /\ s[q] \in 1 .. Len(p),
           OpenBefore(p, s, W \cap Spans(Len(p)), n, e)
    PROVE  OpenBefore(Append(p, t), u, W, n, e)
<1>1. /\ Len(p) \in Nat /\ Len(Append(p, t)) = Len(p) + 1
      /\ \A k \in 1 .. Len(p) : Append(p, t)[k] = p[k]
  OBVIOUS
<1> SUFFICES ASSUME NEW i \in 1 .. Len(p) + 1,
                    i <= e, Append(p, t)[i].kind = "start", <<i + 1, e>> \in W
             PROVE  \E r \in 2 .. n :
                        /\ u[r] = i
                        /\ \A q \in r + 1 .. n : Append(p, t)[u[q]].tag \in Void
  BY <1>1 DEF OpenBefore
<1>2. i \in 1 .. Len(p) /\ i + 1 \in 1 .. Len(p) + 1
  BY <1>1
<1>3. <<i + 1, e>> \in W \cap Spans(Len(p))
  BY <1>2 DEF Spans
<1>4. PICK r \in 2 .. n : s[r] = i /\ \A q \in r + 1 .. n : p[s[q]].tag \in Void
  BY <1>1, <1>2, <1>3 DEF OpenBefore
<1>5. u[r] = i
  BY <1>4
<1>6. ASSUME NEW q \in r + 1 .. n PROVE Append(p, t)[u[q]].tag \in Void
  <2>1. q \in 2 .. n
    OBVIOUS
  <2>2. u[q] = s[q] /\ s[q] \in 1 .. Len(p)
    BY <2>1
  <2>3. p[s[q]].tag \in Void
    BY <1>4
  <2> QED
    BY <1>1, <2>2, <2>3
<1> QED
  BY <1>5, <1>6

(* What was closed stays closed.                                           *)
LEMMA ClosedFrame ==
    ASSUME NEW p \in Seq(Tokens), NEW t \in Tokens, NEW W,
           NEW i \in 1 .. Len(p) + 1, NEW j \in 1 .. Len(p),
           Closes(Append(p, t), W, i, j)
    PROVE  i \in 1 .. Len(p) /\ Closes(p, W \cap Spans(Len(p)), i, j)
<1>1. /\ Len(p) \in Nat /\ Len(Append(p, t)) = Len(p) + 1
      /\ \A k \in 1 .. Len(p) : Append(p, t)[k] = p[k]
  OBVIOUS
<1>2. i < j /\ <<i + 1, j - 1>> \in W
  BY DEF Closes
<1>3. i \in 1 .. Len(p) /\ i + 1 \in 1 .. Len(p) + 1 /\ j - 1 \in 0 .. Len(p)
  BY <1>1, <1>2
<1>4. <<i + 1, j - 1>> \in W \cap Spans(Len(p))
  BY <1>2, <1>3 DEF Spans
<1> QED
  BY <1>1, <1>2, <1>3, <1>4 DEF Closes

LEMMA RuleIs ==
    ASSUME NEW p, NEW W, NEW i, NEW j, Rule(p, W, i, j), ~(i > j)
    PROVE  \/ /\ \/ p[j].kind \in {"data", "empty"}
                 \/ p[j].kind = "start" /\ p[j].tag \in Void
              /\ <<i, j - 1>> \in W
           \/ /\ p[j].kind = "end"
              /\ \E m \in i .. j - 1 :
                    /\ p[m] = [kind |-> "start", tag |-> p[j].tag]
                    /\ <<i, m - 1>> \in W
                    /\ <<m + 1, j - 1>> \in W
  BY Zenon DEF Rule

(* The spans that end with the last token.                                 *)
LEMMA LastRule ==
    ASSUME NEW p \in Seq(Tokens), NEW t \in Tokens, NEW W, Balance(Append(p, t), W),
           NEW i \in 1 .. Len(p), <<i + 1, Len(p) + 1>> \in W
    PROVE  \/ /\ \/ t.kind \in {"data", "empty"}
                 \/ t.kind = "start" /\ t.tag \in Void
              /\ <<i + 1, Len(p)>> \in W
           \/ /\ t.kind = "end"
              /\ \E m \in i + 1 .. Len(p) :
                    /\ p[m] = [kind |-> "start", tag |-> t.tag]
                    /\ <<i + 1, m - 1>> \in W
                    /\ <<m + 1, Len(p)>> \in W
<1> DEFINE page2 == Append(p, t)
           last == Len(p) + 1
<1>1. /\ Len(p) \in Nat /\ Len(page2) = Len(p) + 1
      /\ \A k \in 1 .. Len(p) : page2[k] = p[k]
      /\ page2[last] = t
  OBVIOUS
<1>2. i + 1 \in 1 .. Len(page2) + 1 /\ last \in 0 .. Len(page2) /\ ~(i + 1 > last)
  BY <1>1
<1>3. Rule(page2, W, i + 1, last)
  <2>1. <<i + 1, last>> \in W
    OBVIOUS
  <2>2. Balance(page2, W)
    OBVIOUS
  <2> HIDE DEF last, page2
  <2> QED
    BY <1>2, <2>1, <2>2 DEF Balance
<1>4. last - 1 = Len(p)
  BY <1>1
<1> HIDE DEF last, page2
<1>5. CASE /\ \/ page2[last].kind \in {"data", "empty"}
              \/ page2[last].kind = "start" /\ page2[last].tag \in Void
           /\ <<i + 1, last - 1>> \in W
  BY <1>1, <1>4, <1>5
<1>6. CASE /\ page2[last].kind = "end"
           /\ \E m \in i + 1 .. last - 1 :
                 /\ page2[m] = [kind |-> "start", tag |-> page2[last].tag]
                 /\ <<i + 1, m - 1>> \in W
                 /\ <<m + 1, last - 1>> \in W
  <2>1. PICK m \in i + 1 .. Len(p) :
                 /\ page2[m] = [kind |-> "start", tag |-> t.tag]
                 /\ <<i + 1, m - 1>> \in W
                 /\ <<m + 1, Len(p)>> \in W
    BY <1>1, <1>4, <1>6
  <2>2. m \in 1 .. Len(p)
    BY <1>1
  <2>3. p[m] = [kind |-> "start", tag |-> t.tag]
    BY <1>1, <2>1, <2>2
  <2> QED
    BY <1>1, <1>6, <2>1, <2>3
<1> QED
  <2>1. \/ /\ \/ page2[last].kind \in {"data", "empty"}
              \/ page2[last].kind = "start" /\ page2[last].tag \in Void
           /\ <<i + 1, last - 1>> \in W
        \/ /\ page2[last].kind = "end"
           /\ \E m \in i + 1 .. last - 1 :
                 /\ page2[m] = [kind |-> "start", tag |-> page2[last].tag]
                 /\ <<i + 1, m - 1>> \in W
                 /\ <<m + 1, last - 1>> \in W
    BY <1>2, <1>3, RuleIs, Zenon
  <2> QED
    BY <1>5, <1>6, <2>1

(* A node is added in the innermost open element.                          *)
Grown(p, parent, s) ==
    [k \in DOMAIN parent \cup {Len(p) + 1} |-> IF k = Len(p) + 1 THEN s[Len(s)] ELSE parent[k]]

LEMMA GrownIs ==
    ASSUME NEW p, NEW parent, NEW s, Shaped(p, parent, s)
    PROVE  /\ \A k : k \in DOMAIN Grown(p, parent, s) <=> k \in DOMAIN parent \/ k = Len(p) + 1
           /\ Grown(p, parent, s)[Len(p) + 1] = s[Len(s)]
           /\ \A k \in DOMAIN parent : k # Len(p) + 1 /\ Grown(p, parent, s)[k] = parent[k]
<1>1. /\ p \in Seq(Tokens) /\ Len(p) \in Nat
      /\ \A k \in DOMAIN parent : k \in 1 .. Len(p)
  BY Shape
<1>2. \A k \in DOMAIN parent : k # Len(p) + 1
  BY <1>1
<1>3. \A k \in DOMAIN parent : Grown(p, parent, s)[k] = parent[k]
  BY <1>2 DEF Grown
<1> QED
  BY <1>2, <1>3 DEF Grown

LEMMA GrownNodes ==
    ASSUME NEW p, NEW parent, NEW s, Shaped(p, parent, s), Nested(p, parent, s),
           NEW t \in Tokens, t.kind # "end"
    PROVE  NodesOK(Append(p, t), Grown(p, parent, s))
<1> DEFINE next == Grown(p, parent, s)
<1>1. /\ p \in Seq(Tokens) /\ Len(p) \in Nat
      /\ Len(s) \in Nat /\ Len(s) >= 1 /\ s[1] = 0
      /\ \A n \in 2 .. Len(s) : s[n] \in DOMAIN parent
      /\ \A k \in DOMAIN parent : k \in 1 .. Len(p)
  BY Shape
<1>2. /\ \A k : k \in DOMAIN next <=> k \in DOMAIN parent \/ k = Len(p) + 1
      /\ next[Len(p) + 1] = s[Len(s)]
      /\ \A k \in DOMAIN parent : next[k] = parent[k]
  BY GrownIs
<1> HIDE DEF next
<1>3. s[Len(s)] \in {0} \cup DOMAIN parent
  BY <1>1
<1>4. /\ Len(Append(p, t)) = Len(p) + 1
      /\ \A k \in 1 .. Len(p) : Append(p, t)[k] = p[k]
      /\ Append(p, t)[Len(p) + 1] = t
  BY <1>1
<1>5. /\ DOMAIN parent = {k \in 1 .. Len(p) : p[k].kind # "end"}
      /\ \A k \in DOMAIN parent : parent[k] \in {0} \cup DOMAIN parent
  BY DEF Nested, NodesOK
<1>6. DOMAIN next = {k \in 1 .. Len(p) + 1 : Append(p, t)[k].kind # "end"}
  <2>1. ASSUME NEW k \in 1 .. Len(p)
        PROVE  k \in DOMAIN next <=> Append(p, t)[k].kind # "end"
    BY <1>1, <1>2, <1>4, <1>5, <2>1
  <2>2. Len(p) + 1 \in DOMAIN next /\ Append(p, t)[Len(p) + 1].kind # "end"
    BY <1>2, <1>4
  <2>3. \A k \in DOMAIN next : k \in 1 .. Len(p) + 1
    BY <1>1, <1>2
  <2>4. \A k \in 1 .. Len(p) + 1 : k \in 1 .. Len(p) \/ k = Len(p) + 1
    BY <1>1
  <2> QED
    BY <2>1, <2>2, <2>3, <2>4
<1>7. \A k \in DOMAIN next : next[k] \in {0} \cup DOMAIN next
  BY <1>2, <1>3, <1>5
<1> QED
  BY <1>4, <1>6, <1>7 DEF NodesOK, next

(* With it, everything that was open or closed is as it was.               *)
LEMMA GrownHolds ==
    ASSUME NEW p, NEW parent, NEW s, Shaped(p, parent, s), Nested(p, parent, s),
           NEW t \in Tokens, t.kind # "end"
    PROVE  /\ OpenHold(s, Grown(p, parent, s))
           /\ \A W : Balance(Append(p, t), W) =>
                 \A i, j \in 1 .. Len(p) + 1 :
                     Closes(Append(p, t), W, i, j) => ClosedAt(Grown(p, parent, s), s, i, j) /\ j <= Len(p)
<1> DEFINE next == Grown(p, parent, s)
<1>1. /\ p \in Seq(Tokens) /\ Len(p) \in Nat
      /\ Len(s) \in Nat /\ Len(s) >= 1 /\ s[1] = 0
      /\ \A n \in 1 .. Len(s) : s[n] \in Nat /\ s[n] <= Len(p)
      /\ \A k \in DOMAIN parent : k \in 1 .. Len(p) /\ parent[k] \in Nat
  BY Shape
<1>2. /\ \A k : k \in DOMAIN next <=> k \in DOMAIN parent \/ k = Len(p) + 1
      /\ next[Len(p) + 1] = s[Len(s)]
      /\ \A k \in DOMAIN parent : k # Len(p) + 1 /\ next[k] = parent[k]
  BY GrownIs
<1> HIDE DEF next
<1>3. Ascending(s) /\ OpenHold(s, parent)
  BY DEF Nested
<1>4. OpenHold(s, next)
  <2> SUFFICES ASSUME NEW n \in 2 .. Len(s), NEW k \in DOMAIN next, s[n] < k
               PROVE  s[n] <= next[k]
    BY DEF OpenHold
  <2>1. CASE k \in DOMAIN parent
    BY <1>2, <1>3, <2>1 DEF OpenHold
  <2>2. CASE k = Len(p) + 1
    <3>1. n \in 1 .. Len(s) /\ Len(s) \in 1 .. Len(s) /\ (n < Len(s) \/ n = Len(s))
      BY <1>1
    <3>2. s[n] < s[Len(s)] \/ s[n] = s[Len(s)]
      BY <1>3, <3>1 DEF Ascending
    <3> QED
      BY <1>1, <1>2, <2>2, <3>1, <3>2
  <2> QED
    BY <1>2, <2>1, <2>2
<1>5. ASSUME NEW W, Balance(Append(p, t), W),
             NEW i \in 1 .. Len(p) + 1, NEW j \in 1 .. Len(p) + 1,
             Closes(Append(p, t), W, i, j)
      PROVE  ClosedAt(next, s, i, j) /\ j <= Len(p)
  <2>1. j \in 1 .. Len(p)
    <3>1. Append(p, t)[j].kind = "end"
      BY <1>5 DEF Closes
    <3>2. Append(p, t)[Len(p) + 1] = t
      BY <1>1
    <3> QED
      BY <1>1, <3>1, <3>2
  <2>2. i \in 1 .. Len(p) /\ Closes(p, W \cap Spans(Len(p)), i, j)
    BY <1>1, <1>5, <2>1, ClosedFrame
  <2>3. Balance(p, W \cap Spans(Len(p)))
    BY <1>1, <1>5, BalanceBefore
  <2>4. ClosedAt(parent, s, i, j)
    BY <2>1, <2>2, <2>3 DEF Nested, ClosedOK
  <2>5. Len(s) \in 1 .. Len(s)
    BY <1>1
  <2>6. s[Len(s)] < i \/ j <= s[Len(s)]
    BY <2>4, <2>5 DEF ClosedAt
  <2>7. ASSUME NEW k \in DOMAIN next
        PROVE  /\ i < k /\ k < j => i <= next[k]
               /\ j < k => next[k] < i \/ j <= next[k]
    <3>1. CASE k \in DOMAIN parent
      BY <1>2, <2>4, <3>1 DEF ClosedAt
    <3>2. CASE k = Len(p) + 1
      BY <1>1, <1>2, <2>1, <2>6, <3>2
    <3> QED
      BY <1>2, <3>1, <3>2
  <2> QED
    BY <1>1, <2>1, <2>4, <2>7 DEF ClosedAt
<1> QED
  BY <1>4, <1>5 DEF next

LEMMA StillBalanced ==
    ASSUME NEW p, NEW parent, NEW s, Shaped(p, parent, s), Nested(p, parent, s),
           NEW t \in Tokens
    PROVE  \E W : Balance(Append(p, t), W)
  BY Shape, BalanceAfter DEF Nested

(* What an element open until now looks like stays so on any stack that    *)
(* begins in the same way.                                                 *)
LEMMA StillOpen ==
    ASSUME NEW p, NEW parent, NEW s, Shaped(p, parent, s), Nested(p, parent, s),
           NEW t \in Tokens, NEW W, Balance(Append(p, t), W), NEW u,
           NEW m \in 1 .. Len(s), \A q \in 1 .. m : u[q] = s[q]
    PROVE  \A n \in 2 .. m : OpenBefore(Append(p, t), u, W, n - 1, u[n] - 1)
<1>1. /\ p \in Seq(Tokens) /\ Len(p) \in Nat /\ Len(s) \in Nat
      /\ \A n \in 2 .. Len(s) : s[n] \in 1 .. Len(p)
  BY Shape
<1>2. Balance(p, W \cap Spans(Len(p)))
  BY <1>1, BalanceBefore
<1> SUFFICES ASSUME NEW n \in 2 .. m PROVE OpenBefore(Append(p, t), u, W, n - 1, u[n] - 1)
  OBVIOUS
<1>3. n - 1 \in Nat /\ n \in 2 .. Len(s) /\ u[n] = s[n]
  BY <1>1
<1>4. s[n] - 1 \in 0 .. Len(p)
  BY <1>1, <1>3
<1>5. \A q \in 2 .. n - 1 : u[q] = s[q] /\ s[q] \in 1 .. Len(p)
  BY <1>1, <1>3
<1>6. OpenBefore(p, s, W \cap Spans(Len(p)), n - 1, s[n] - 1)
  BY <1>2, <1>3 DEF Nested, OpenOK
<1>7. OpenBefore(Append(p, t), u, W, n - 1, s[n] - 1)
  BY <1>1, <1>3, <1>4, <1>5, <1>6, OpenFrame
<1> QED
  BY <1>3, <1>7

(* An element whose content so far is well formed is open, and in it only  *)
(* elements that need no end.                                              *)
Open(p, s, i) ==
    \E r \in 2 .. Len(s) : s[r] = i /\ \A q \in r + 1 .. Len(s) : p[s[q]].tag \in Void

LEMMA OpenAtEnd ==
    ASSUME NEW p, NEW parent, NEW s, Shaped(p, parent, s), Nested(p, parent, s),
           NEW t \in Tokens, NEW W, Balance(Append(p, t), W),
           NEW i \in 1 .. Len(p), p[i].kind = "start", <<i + 1, Len(p)>> \in W
    PROVE  Open(p, s, i)
<1>1. p \in Seq(Tokens) /\ Len(p) \in Nat /\ Len(s) \in Nat
  BY Shape
<1>2. Balance(p, W \cap Spans(Len(p)))
  BY <1>1, BalanceBefore
<1>3. OpenBefore(p, s, W \cap Spans(Len(p)), Len(s), Len(p))
  BY <1>2 DEF Nested, OpenOK
<1>4. <<i + 1, Len(p)>> \in W \cap Spans(Len(p)) /\ i <= Len(p)
  BY <1>1 DEF Spans
<1> QED
  BY <1>3, <1>4 DEF OpenBefore, Open

(* The token at the end is a text or needs no end: nothing opens or closes.*)
LEMMA NestKeep ==
    ASSUME NEW p, NEW parent, NEW s, Shaped(p, parent, s), Nested(p, parent, s),
           NEW t \in Tokens, t.kind \in {"data", "empty"}
    PROVE  Nested(Append(p, t), Grown(p, parent, s), s)
<1> DEFINE last == Len(p) + 1
<1>1. /\ p \in Seq(Tokens) /\ Len(p) \in Nat /\ Len(s) \in Nat /\ Len(s) \in 1 .. Len(s)
      /\ Len(Append(p, t)) = last /\ last \in Nat /\ last - 1 = Len(p)
      /\ \A k \in 1 .. Len(p) : Append(p, t)[k] = p[k]
      /\ Append(p, t)[last] = t
      /\ \A n \in 2 .. Len(s) : s[n] \in 1 .. Len(p)
  BY Shape
<1>2. NodesOK(Append(p, t), Grown(p, parent, s)) /\ OpenHold(s, Grown(p, parent, s))
  BY GrownNodes, GrownHolds
<1>3. ASSUME NEW W, Balance(Append(p, t), W)
      PROVE  OpenOK(Append(p, t), s, W)
  <2>1. \A n \in 2 .. Len(s) : OpenBefore(Append(p, t), s, W, n - 1, s[n] - 1)
    BY <1>1, <1>3, StillOpen
  <2>2. ASSUME NEW i \in 1 .. last, Append(p, t)[i].kind = "start", <<i + 1, last>> \in W
        PROVE  \E r \in 2 .. Len(s) :
                   s[r] = i /\ \A q \in r + 1 .. Len(s) : Append(p, t)[s[q]].tag \in Void
    <3>1. i # last /\ i \in 1 .. Len(p) /\ p[i].kind = "start"
      BY <1>1, <2>2
    <3>2. <<i + 1, Len(p)>> \in W
      BY <1>1, <1>3, <2>2, <3>1, LastRule
    <3>3. PICK r \in 2 .. Len(s) :
               s[r] = i /\ \A q \in r + 1 .. Len(s) : p[s[q]].tag \in Void
      <4>1. Open(p, s, i)
        BY <1>3, <3>1, <3>2, OpenAtEnd
      <4> QED
        BY <4>1 DEF Open
    <3>4. \A q \in r + 1 .. Len(s) : q \in 2 .. Len(s) /\ s[q] \in 1 .. Len(p)
      BY <1>1
    <3> QED
      BY <1>1, <3>3, <3>4
  <2>3. OpenBefore(Append(p, t), s, W, Len(s), last)
    <3> HIDE DEF last
    <3> QED
      BY <1>1, <2>2 DEF OpenBefore
  <2> QED
    BY <1>1, <2>1, <2>3 DEF OpenOK
<1>4. ASSUME NEW W, Balance(Append(p, t), W)
      PROVE  ClosedOK(Append(p, t), Grown(p, parent, s), s, W)
  BY <1>1, <1>4, GrownHolds DEF ClosedOK
<1>5. \E W : Balance(Append(p, t), W)
  BY StillBalanced
<1> QED
  BY <1>2, <1>3, <1>4, <1>5 DEF Nested

(* An element opens.                                                       *)
LEMMA NestOpen ==
    ASSUME NEW p, NEW parent, NEW s, Shaped(p, parent, s), Nested(p, parent, s),
           NEW t \in Tokens, t.kind = "start"
    PROVE  Nested(Append(p, t), Grown(p, parent, s), Append(s, Len(p) + 1))
<1> DEFINE last == Len(p) + 1
           u == Append(s, last)
<1>1. /\ p \in Seq(Tokens) /\ Len(p) \in Nat /\ Len(s) \in Nat /\ Len(s) \in 1 .. Len(s)
      /\ Len(Append(p, t)) = last /\ last \in Nat /\ last - 1 = Len(p) /\ last > Len(p)
      /\ \A k \in 1 .. Len(p) : Append(p, t)[k] = p[k]
      /\ Append(p, t)[last] = t
      /\ \A n \in 1 .. Len(s) : s[n] \in Nat /\ s[n] <= Len(p)
      /\ \A n \in 2 .. Len(s) : s[n] \in 1 .. Len(p)
      /\ s \in Seq(Nat)
  BY Shape
<1>2. /\ Len(u) = Len(s) + 1
      /\ \A n \in 1 .. Len(s) : u[n] = s[n]
      /\ u[Len(s) + 1] = last
  BY <1>1
<1>3. \A k \in DOMAIN Grown(p, parent, s) : k <= last
  <2>1. \A k \in DOMAIN parent : k \in 1 .. Len(p)
    BY Shape
  <2> QED
    BY <1>1, <2>1, GrownIs
<1> HIDE DEF last, u
<1>4. NodesOK(Append(p, t), Grown(p, parent, s)) /\ OpenHold(s, Grown(p, parent, s))
  BY GrownNodes, GrownHolds
<1>5. Ascending(u)
  <2>1. ASSUME NEW m \in 1 .. Len(u), NEW n \in 1 .. Len(u), m < n
        PROVE  u[m] < u[n]
    <3>1. CASE n \in 1 .. Len(s)
      <4>1. m \in 1 .. Len(s)
        BY <1>1, <1>2, <2>1, <3>1
      <4>2. s[m] < s[n]
        BY <2>1, <3>1, <4>1 DEF Nested, Ascending
      <4> QED
        BY <1>2, <3>1, <4>1, <4>2
    <3>2. CASE n = Len(s) + 1
      <4>1. Len(s) \in Nat /\ Len(u) = Len(s) + 1
        BY <1>1, <1>2
      <4>2. m \in 1 .. Len(s)
        BY <2>1, <3>2, <4>1
      <4>3. u[m] = s[m] /\ u[n] = last
        BY <1>2, <3>2, <4>2
      <4>4. s[m] \in Nat /\ s[m] <= Len(p) /\ Len(p) \in Nat /\ last \in Nat /\ last > Len(p)
        BY <1>1, <4>2
      <4> QED
        BY <4>3, <4>4
    <3>3. n \in 1 .. Len(s) \/ n = Len(s) + 1
      BY <1>1, <1>2
    <3> QED
      BY <3>1, <3>2, <3>3
  <2> QED
    BY <2>1 DEF Ascending
<1>6. OpenHold(u, Grown(p, parent, s))
  <2>1. ASSUME NEW n \in 2 .. Len(u), NEW k \in DOMAIN Grown(p, parent, s), u[n] < k
        PROVE  u[n] <= Grown(p, parent, s)[k]
    <3>1. CASE n \in 2 .. Len(s)
      BY <1>1, <1>2, <1>4, <2>1, <3>1 DEF OpenHold
    <3>2. CASE n = Len(s) + 1
      <4>1. k = last \/ k \in 1 .. Len(p)
        <5>1. \A l \in DOMAIN parent : l \in 1 .. Len(p)
          BY Shape
        <5>2. k \in DOMAIN parent \/ k = Len(p) + 1
          BY GrownIs
        <5> QED
          BY <5>1, <5>2 DEF last
      <4> QED
        BY <1>1, <1>2, <2>1, <3>2, <4>1
    <3> QED
      BY <1>1, <1>2, <3>1, <3>2
  <2> QED
    BY <2>1 DEF OpenHold
<1>7. ASSUME NEW W, Balance(Append(p, t), W)
      PROVE  OpenOK(Append(p, t), u, W)
  <2>1. \A n \in 2 .. Len(s) : OpenBefore(Append(p, t), u, W, n - 1, u[n] - 1)
    <3>1. Len(s) \in 1 .. Len(s) /\ \A q \in 1 .. Len(s) : u[q] = s[q]
      BY <1>1, <1>2
    <3> QED
      BY <1>7, <3>1, StillOpen
  <2>2. ASSUME NEW i \in 1 .. Len(p), Append(p, t)[i].kind = "start", <<i + 1, Len(p)>> \in W
        PROVE  \E r \in 2 .. Len(s) :
                   u[r] = i /\ \A q \in r + 1 .. Len(s) : Append(p, t)[u[q]].tag \in Void
    <3>1. p[i].kind = "start"
      BY <1>1, <2>2
    <3>2. PICK r \in 2 .. Len(s) :
               s[r] = i /\ \A q \in r + 1 .. Len(s) : p[s[q]].tag \in Void
      <4>1. Open(p, s, i)
        BY <1>7, <2>2, <3>1, OpenAtEnd
      <4> QED
        BY <4>1 DEF Open
    <3>3. ASSUME NEW q \in r + 1 .. Len(s) PROVE Append(p, t)[u[q]].tag \in Void
      <4>1. q \in 2 .. Len(s) /\ q \in 1 .. Len(s)
        BY <1>1
      <4>2. u[q] = s[q] /\ s[q] \in 1 .. Len(p) /\ p[s[q]].tag \in Void
        BY <1>1, <1>2, <3>2, <4>1
      <4> QED
        BY <1>1, <4>2
    <3>4. u[r] = i
      BY <1>1, <1>2, <3>2
    <3> QED
      BY <3>3, <3>4
  <2>3. OpenBefore(Append(p, t), u, W, Len(s), Len(p))
    <3>1. \A i \in 1 .. last : i <= Len(p) => i \in 1 .. Len(p)
      BY <1>1
    <3> QED
      BY <1>1, <2>2, <3>1 DEF OpenBefore
  <2>4. ASSUME NEW i \in 1 .. last, Append(p, t)[i].kind = "start", <<i + 1, last>> \in W
        PROVE  \E r \in 2 .. Len(s) + 1 :
                   u[r] = i /\ \A q \in r + 1 .. Len(s) + 1 : Append(p, t)[u[q]].tag \in Void
    <3>1. CASE i = last
      <4>1. Len(s) + 1 \in 2 .. Len(s) + 1
            /\ \A q \in Len(s) + 1 + 1 .. Len(s) + 1 : FALSE
        BY <1>1
      <4> QED
        BY <1>2, <3>1, <4>1
    <3>2. CASE i # last
      <4>1. i \in 1 .. Len(p)
        BY <1>1, <3>2
      <4>2. t.tag \in Void /\ <<i + 1, Len(p)>> \in W
        BY <1>1, <1>7, <2>4, <4>1, LastRule DEF last
      <4>3. PICK r \in 2 .. Len(s) :
                 u[r] = i /\ \A q \in r + 1 .. Len(s) : Append(p, t)[u[q]].tag \in Void
        BY <2>2, <2>4, <4>1, <4>2
      <4>4. ASSUME NEW q \in r + 1 .. Len(s) + 1 PROVE Append(p, t)[u[q]].tag \in Void
        <5>1. CASE q = Len(s) + 1
          BY <1>1, <1>2, <4>2, <5>1
        <5>2. CASE q # Len(s) + 1
          <6>1. Len(s) \in Nat
            BY <1>1
          <6>2. q \in r + 1 .. Len(s)
            BY <5>2, <6>1
          <6> QED
            BY <4>3, <6>2
        <5> QED
          BY <5>1, <5>2
      <4>5. r \in 2 .. Len(s) + 1
        BY <1>1
      <4> QED
        BY <4>3, <4>4, <4>5
    <3> QED
      BY <3>1, <3>2
  <2>5. OpenBefore(Append(p, t), u, W, Len(s) + 1, last)
    BY <1>1, <2>4 DEF OpenBefore
  <2>6. \A n \in 2 .. Len(u) : OpenBefore(Append(p, t), u, W, n - 1, u[n] - 1)
    <3>1. ASSUME NEW n \in 2 .. Len(u)
          PROVE  n \in 2 .. Len(s) \/ (n = Len(s) + 1 /\ n - 1 = Len(s) /\ u[n] - 1 = Len(p))
      BY <1>1, <1>2
    <3> QED
      BY <2>1, <2>3, <3>1
  <2> QED
    BY <1>1, <1>2, <2>5, <2>6 DEF OpenOK
<1>8. ASSUME NEW W, Balance(Append(p, t), W)
      PROVE  ClosedOK(Append(p, t), Grown(p, parent, s), u, W)
  <2>1. ASSUME NEW i \in 1 .. last, NEW j \in 1 .. last, Closes(Append(p, t), W, i, j)
        PROVE  ClosedAt(Grown(p, parent, s), u, i, j)
    <3>1. ClosedAt(Grown(p, parent, s), s, i, j) /\ j <= Len(p)
      BY <1>8, <2>1, GrownHolds DEF last
    <3>2. \A n \in 1 .. Len(u) : n \in 1 .. Len(s) \/ n = Len(s) + 1
      BY <1>1, <1>2
    <3>3. j <= last
      BY <1>1
    <3> QED
      BY <1>2, <3>1, <3>2, <3>3 DEF ClosedAt
  <2> QED
    BY <1>1, <2>1 DEF ClosedOK
<1>9. \E W : Balance(Append(p, t), W)
  BY StillBalanced
<1> QED
  BY <1>4, <1>5, <1>6, <1>7, <1>8, <1>9 DEF Nested, u, last

(* What an end tag leaves are the elements before the innermost open one   *)
(* of its tag.                                                             *)
Innermost(s, tagOf, tag, r) ==
    /\ tagOf[s[r]] = tag
    /\ \A q \in r + 1 .. Len(s) : tagOf[s[q]] # tag

LEMMA ClosedIs ==
    ASSUME NEW s \in Seq(Nat), NEW tagOf, NEW tag, NEW r \in 2 .. Len(s),
           Innermost(s, tagOf, tag, r)
    PROVE  Len(Closed(s, tagOf, tag)) = r - 1
<1> DEFINE open == {n \in 2 .. Len(s) : tagOf[s[n]] = tag}
           kept == {n \in DOMAIN s : \E m \in open : n < m}
<1>1. Len(s) \in Nat /\ DOMAIN s = 1 .. Len(s)
  OBVIOUS
<1>2. r \in open
  BY DEF Innermost
<1>3. \A m \in open : m <= r
  <2>1. ASSUME NEW m \in 2 .. Len(s), tagOf[s[m]] = tag, m > r PROVE FALSE
    <3>1. m \in r + 1 .. Len(s)
      BY <1>1, <2>1
    <3> QED
      BY <2>1, <3>1 DEF Innermost
  <2> QED
    BY <1>1, <2>1
<1>4. kept = 1 .. r - 1
  <2>1. \A n \in kept : n \in 1 .. r - 1
    BY <1>1, <1>3
  <2>2. \A n \in 1 .. r - 1 : n \in kept
    BY <1>1, <1>2
  <2> HIDE DEF kept
  <2> QED
    BY <2>1, <2>2
<1>5. Cardinality(1 .. r - 1) = r - 1
  <2>1. 1 \in Int /\ r - 1 \in Int /\ ~(1 > r - 1) /\ r - 1 - 1 + 1 = r - 1
    BY <1>1
  <2> HIDE DEF kept, open
  <2> QED
    BY <2>1, FS_Interval
<1>6. Closed(s, tagOf, tag) = SubSeq(s, 1, Cardinality(kept))
  BY <1>2 DEF Closed, Below
<1>7. Closed(s, tagOf, tag) = SubSeq(s, 1, r - 1)
  BY <1>4, <1>5, <1>6
<1>8. Len(SubSeq(s, 1, r - 1)) = r - 1
  BY <1>1
<1> QED
  BY <1>7, <1>8

IsEnd(t) == t.kind = "end" /\ t.tag \in Tags

(* The tags of the page                                                    *)
Names(tagOf, p) == \A k \in 1 .. Len(p) : tagOf[k] = p[k].tag

(* An element closes, or an end tag finds none to close.                   *)
LEMMA NestClose ==
    ASSUME NEW p, NEW parent, NEW s, Shaped(p, parent, s), Nested(p, parent, s),
           NEW t \in Tokens, IsEnd(t),
           NEW tagOf, Names(tagOf, p)
    PROVE  Nested(Append(p, t), parent, Closed(s, tagOf, t.tag))
<1> DEFINE last == Len(p) + 1
           u == Closed(s, tagOf, t.tag)
<1>1. /\ p \in Seq(Tokens) /\ Len(p) \in Nat
      /\ s \in Seq(Nat) /\ Len(s) \in Nat /\ Len(s) >= 1
      /\ Len(Append(p, t)) = last /\ last \in Nat /\ last - 1 = Len(p) /\ last > Len(p)
      /\ \A k \in 1 .. Len(p) : Append(p, t)[k] = p[k]
      /\ Append(p, t)[last] = t
      /\ \A n \in 1 .. Len(s) : s[n] \in Nat /\ s[n] <= Len(p)
      /\ \A n \in 2 .. Len(s) : s[n] \in 1 .. Len(p)
      /\ \A k \in DOMAIN parent : k \in 1 .. Len(p)
  BY Shape
<1>2. PICK m \in 1 .. Len(s) : u = SubSeq(s, 1, m)
  BY <1>1, ClosedPrefix
<1>3. Len(u) = m /\ \A n \in 1 .. m : u[n] = s[n]
  BY <1>1, <1>2
<1> HIDE DEF last, u
<1>4. NodesOK(Append(p, t), parent)
  <2>1. /\ DOMAIN parent = {k \in 1 .. Len(p) : p[k].kind # "end"}
        /\ \A k \in DOMAIN parent : parent[k] \in {0} \cup DOMAIN parent
    BY DEF Nested, NodesOK
  <2>2. \A k \in 1 .. last : k \in 1 .. Len(p) \/ k = last
    BY <1>1
  <2>3. \A k \in 1 .. Len(p) : k \in 1 .. last
    BY <1>1
  <2>4. DOMAIN parent = {k \in 1 .. last : Append(p, t)[k].kind # "end"}
    BY <1>1, <2>1, <2>2, <2>3 DEF IsEnd
  <2> QED
    BY <1>1, <2>1, <2>4 DEF NodesOK
<1>5. Ascending(u) /\ OpenHold(u, parent)
  <2>1. \A n \in 1 .. m : n \in 1 .. Len(s)
    BY <1>1
  <2>2. \A n \in 2 .. m : n \in 2 .. Len(s) /\ n \in 1 .. m
    BY <1>1
  <2> QED
    BY <1>3, <2>1, <2>2 DEF Nested, Ascending, OpenHold
<1>6. ASSUME NEW W, Balance(Append(p, t), W),
             NEW i \in 1 .. Len(p), p[i].kind = "start", p[i].tag = t.tag, <<i + 1, Len(p)>> \in W
      PROVE  \E r \in 2 .. Len(s) : s[r] = i /\ Len(u) = r - 1
  <2>1. PICK r \in 2 .. Len(s) :
             s[r] = i /\ \A q \in r + 1 .. Len(s) : p[s[q]].tag \in Void
    <3>1. Open(p, s, i)
      BY <1>6, OpenAtEnd
    <3> QED
      BY <3>1 DEF Open
  <2>2. tagOf[s[r]] = t.tag
    BY <1>6, <2>1 DEF Names
  <2>3. ASSUME NEW q \in r + 1 .. Len(s) PROVE tagOf[s[q]] # t.tag
    <3>1. q \in 2 .. Len(s)
      BY <1>1
    <3>2. tagOf[s[q]] \in Void
      BY <1>1, <2>1, <3>1 DEF Names
    <3> QED
      BY <3>2, TagsAssumption DEF IsEnd
  <2>4. Len(u) = r - 1
    <3>1. Len(Closed(s, tagOf, t.tag)) = r - 1
      <4>1. s \in Seq(Nat)
        BY <1>1
      <4>2. Innermost(s, tagOf, t.tag, r)
        BY <2>2, <2>3, Zenon DEF Innermost
      <4> QED
        BY <4>1, <4>2, ClosedIs
    <3> QED
      BY <3>1 DEF u
  <2> QED
    BY <2>1, <2>4
<1>7. ASSUME NEW W, Balance(Append(p, t), W)
      PROVE  OpenOK(Append(p, t), u, W)
  <2>1. \A n \in 2 .. m : OpenBefore(Append(p, t), u, W, n - 1, u[n] - 1)
    <3>1. \A q \in 1 .. m : u[q] = s[q]
      BY <1>3
    <3> QED
      BY <1>7, <3>1, StillOpen
  <2>2. ASSUME NEW i \in 1 .. last, Append(p, t)[i].kind = "start", <<i + 1, last>> \in W
        PROVE  \E r \in 2 .. Len(u) :
                   u[r] = i /\ \A q \in r + 1 .. Len(u) : Append(p, t)[u[q]].tag \in Void
    <3>1. i \in 1 .. Len(p)
      BY <1>1, <2>2 DEF IsEnd
    <3>2. PICK l \in i + 1 .. Len(p) :
              /\ p[l] = [kind |-> "start", tag |-> t.tag]
              /\ <<i + 1, l - 1>> \in W
              /\ <<l + 1, Len(p)>> \in W
      <4>1. <<i + 1, Len(p) + 1>> \in W
        BY <2>2 DEF last
      <4>2. p \in Seq(Tokens)
        BY <1>1
      <4>3. \/ /\ \/ t.kind \in {"data", "empty"}
                  \/ t.kind = "start" /\ t.tag \in Void
               /\ <<i + 1, Len(p)>> \in W
            \/ /\ t.kind = "end"
               /\ \E l \in i + 1 .. Len(p) :
                     /\ p[l] = [kind |-> "start", tag |-> t.tag]
                     /\ <<i + 1, l - 1>> \in W
                     /\ <<l + 1, Len(p)>> \in W
        BY <1>7, <3>1, <4>1, <4>2, LastRule DEF IsEnd
      <4> QED
        BY <4>3 DEF IsEnd
    <3>3. l \in 1 .. Len(p) /\ p[l].kind = "start" /\ p[l].tag = t.tag /\ i <= l - 1
      BY <1>1, <3>1, <3>2
    <3>4. PICK k \in 2 .. Len(s) : s[k] = l /\ Len(u) = k - 1
      BY <1>6, <1>7, <3>2, <3>3
    <3>5. OpenBefore(p, s, W \cap Spans(Len(p)), k - 1, s[k] - 1)
      <4>1. Balance(p, W \cap Spans(Len(p)))
        BY <1>1, <1>7, BalanceBefore
      <4> QED
        BY <4>1 DEF Nested, OpenOK
    <3>6. <<i + 1, l - 1>> \in W \cap Spans(Len(p))
      BY <1>1, <3>1, <3>2, <3>3 DEF Spans
    <3>7. OpenBefore(p, s, W \cap Spans(Len(p)), Len(u), l - 1)
      BY <3>4, <3>5
    <3>8. p[i].kind = "start"
      BY <1>1, <2>2, <3>1
    <3>9. PICK r \in 2 .. Len(u) : s[r] = i /\ \A q \in r + 1 .. Len(u) : p[s[q]].tag \in Void
      BY <3>1, <3>3, <3>6, <3>7, <3>8 DEF OpenBefore
    <3>10. ASSUME NEW q \in r + 1 .. Len(u) PROVE Append(p, t)[u[q]].tag \in Void
      <4>1. q \in 1 .. m /\ q \in 2 .. Len(s)
        BY <1>1, <1>3
      <4>2. u[q] = s[q] /\ s[q] \in 1 .. Len(p) /\ p[s[q]].tag \in Void
        BY <1>1, <1>3, <3>9, <4>1
      <4> QED
        BY <1>1, <4>2
    <3>11. u[r] = i
      BY <1>3, <3>9
    <3> QED
      BY <3>10, <3>11
  <2>3. OpenBefore(Append(p, t), u, W, Len(u), last)
    BY <1>1, <2>2 DEF OpenBefore
  <2> QED
    BY <1>1, <1>3, <2>1, <2>3 DEF OpenOK
<1>8. ASSUME NEW W, Balance(Append(p, t), W)
      PROVE  ClosedOK(Append(p, t), parent, u, W)
  <2>1. ASSUME NEW i \in 1 .. last, NEW j \in 1 .. last, Closes(Append(p, t), W, i, j)
        PROVE  ClosedAt(parent, u, i, j)
    <3>1. CASE j \in 1 .. Len(p)
      <4>1. i \in 1 .. Len(p) /\ Closes(p, W \cap Spans(Len(p)), i, j)
        BY <1>1, <2>1, <3>1, ClosedFrame DEF last
      <4>2. Balance(p, W \cap Spans(Len(p)))
        BY <1>1, <1>8, BalanceBefore
      <4>3. ClosedAt(parent, s, i, j)
        BY <3>1, <4>1, <4>2 DEF Nested, ClosedOK
      <4>4. \A n \in 1 .. m : n \in 1 .. Len(s)
        BY <1>1
      <4> QED
        BY <1>3, <4>3, <4>4 DEF ClosedAt
    <3>2. CASE j = last
      <4>1. /\ i \in 1 .. Len(p) /\ p[i].kind = "start" /\ p[i].tag = t.tag
            /\ <<i + 1, Len(p)>> \in W
        <5>1. i < last /\ <<i + 1, last - 1>> \in W
          BY <2>1, <3>2 DEF Closes
        <5>2. i \in 1 .. Len(p)
          BY <1>1, <5>1
        <5>3. /\ Append(p, t)[i].kind = "start"
              /\ Append(p, t)[last] = [kind |-> "end", tag |-> Append(p, t)[i].tag]
          BY <2>1, <3>2 DEF Closes
        <5> QED
          BY <1>1, <5>1, <5>2, <5>3
      <4>2. PICK r \in 2 .. Len(s) : s[r] = i /\ Len(u) = r - 1
        BY <1>6, <1>8, <4>1
      <4>3. ASSUME NEW k \in DOMAIN parent
            PROVE  /\ i < k /\ k < j => i <= parent[k]
                   /\ j < k => parent[k] < i \/ j <= parent[k]
        <5>1. ~(j < k)
          BY <1>1, <3>2
        <5>2. i < k => i <= parent[k]
          BY <4>2 DEF Nested, OpenHold
        <5> QED
          BY <5>1, <5>2
      <4>4. ASSUME NEW n \in 1 .. Len(u) PROVE u[n] < i \/ j <= u[n]
        <5>0. n \in 1 .. m /\ m = r - 1 /\ Len(s) \in Nat
          BY <1>1, <1>3, <4>2
        <5>1. n \in 1 .. Len(s) /\ r \in 1 .. Len(s) /\ n < r /\ u[n] = s[n]
          BY <1>3, <5>0
        <5>2. s[n] < s[r]
          BY <5>1 DEF Nested, Ascending
        <5> QED
          BY <4>2, <5>1, <5>2
      <4> QED
        BY <4>3, <4>4 DEF ClosedAt
    <3> QED
      BY <1>1, <3>1, <3>2
  <2> QED
    BY <1>1, <2>1 DEF ClosedOK
<1>9. \E W : Balance(Append(p, t), W)
  BY StillBalanced
<1> QED
  BY <1>4, <1>5, <1>7, <1>8, <1>9 DEF Nested, u

(* An element that is opened and closed at once leaves the stack as it was.*)
LEMMA ClosedAtOnce ==
    ASSUME NEW s \in Seq(Nat), Len(s) >= 1, NEW k \in Nat, NEW tagOf, NEW tag, tagOf[k] = tag
    PROVE  Closed(Append(s, k), tagOf, tag) = s
<1> DEFINE u == Append(s, k)
<1>1. /\ u \in Seq(Nat) /\ Len(s) \in Nat /\ Len(u) = Len(s) + 1 /\ Len(u) >= 1
      /\ u[Len(s) + 1] = k
      /\ SubSeq(u, 1, Len(s)) = s
  OBVIOUS
<1> HIDE DEF u
<1>2. Len(s) + 1 \in 2 .. Len(u)
  BY <1>1
<1>3. Innermost(u, tagOf, tag, Len(s) + 1)
  BY <1>1 DEF Innermost
<1>4. Len(Closed(u, tagOf, tag)) = Len(s) + 1 - 1
  BY <1>1, <1>2, <1>3, ClosedIs
<1>5. PICK m \in 1 .. Len(u) : Closed(u, tagOf, tag) = SubSeq(u, 1, m)
  BY <1>1, ClosedPrefix
<1>6. Len(SubSeq(u, 1, m)) = m
  BY <1>1
<1>7. m = Len(s)
  <2>1. Len(Closed(u, tagOf, tag)) = m
    BY <1>5, <1>6
  <2>2. m = Len(s) + 1 - 1
    BY <1>4, <2>1
  <2> QED
    BY <1>1, <2>2
<1> QED
  BY <1>1, <1>5, <1>7 DEF u

(* What Around is, and that there is such a function.                      *)
IsAround(parent, f) ==
    f = [k \in {0} \cup DOMAIN parent |-> {k} \cup (IF k = 0 THEN {} ELSE f[parent[k]])]

LEMMA GrownAround ==
    ASSUME NEW p, NEW parent, NEW s, Shaped(p, parent, s), NodesOK(p, parent),
           NEW f, IsAround(parent, f)
    PROVE  \E g : /\ IsAround(Grown(p, parent, s), g)
                  /\ \A k \in {0} \cup DOMAIN parent : g[k] = f[k]
<1> DEFINE next == Grown(p, parent, s)
           last == Len(p) + 1
           g == [k \in {0} \cup DOMAIN next |->
                    IF k = last THEN {k} \cup f[s[Len(s)]] ELSE f[k]]
<1>1. /\ p \in Seq(Tokens) /\ Len(p) \in Nat
      /\ Len(s) \in Nat /\ Len(s) >= 1 /\ s[1] = 0
      /\ \A n \in 2 .. Len(s) : s[n] \in DOMAIN parent
      /\ \A k \in DOMAIN parent : k \in 1 .. Len(p)
  BY Shape
<1>2. /\ \A k : k \in DOMAIN next <=> k \in DOMAIN parent \/ k = last
      /\ next[last] = s[Len(s)]
      /\ \A k \in DOMAIN parent : k # last /\ next[k] = parent[k]
  BY GrownIs
<1>3. last # 0 /\ s[Len(s)] # last /\ s[Len(s)] \in {0} \cup DOMAIN next
      /\ s[Len(s)] \in {0} \cup DOMAIN parent
  BY <1>1, <1>2
<1>4. \A k \in DOMAIN parent : k # 0 /\ parent[k] \in {0} \cup DOMAIN parent
  BY <1>1 DEF NodesOK
<1> HIDE DEF next, last
<1>5. \A k \in {0} \cup DOMAIN parent : f[k] = {k} \cup (IF k = 0 THEN {} ELSE f[parent[k]])
  BY DEF IsAround
<1>6. ASSUME NEW k \in {0} \cup DOMAIN next
      PROVE  (IF k = last THEN {k} \cup f[s[Len(s)]] ELSE f[k])
                 = {k} \cup (IF k = 0 THEN {} ELSE g[next[k]])
  <2>1. \A l \in {0} \cup DOMAIN parent : g[l] = f[l]
    BY <1>2, <1>3
  <2> HIDE DEF g
  <2>2. CASE k = last
    BY <1>2, <1>3, <2>1, <2>2
  <2>3. CASE k = 0
    BY <1>3, <1>5, <2>3
  <2>4. CASE k \in DOMAIN parent
    <3>1. k # 0 /\ k # last /\ next[k] = parent[k] /\ parent[k] \in {0} \cup DOMAIN parent
      BY <1>2, <1>4, <2>4
    <3>2. g[next[k]] = f[parent[k]]
      <4>1. g[parent[k]] = f[parent[k]]
        BY <2>1, <3>1
      <4> QED
        BY <3>1, <4>1, Zenon
    <3>3. f[k] = {k} \cup f[parent[k]]
      BY <1>5, <2>4, <3>1
    <3> QED
      BY <3>1, <3>2, <3>3
  <2> QED
    BY <1>2, <2>2, <2>3, <2>4
<1>7. g = [k \in {0} \cup DOMAIN next |-> {k} \cup (IF k = 0 THEN {} ELSE g[next[k]])]
  BY <1>6
<1>8. \A k \in {0} \cup DOMAIN parent : g[k] = f[k]
  BY <1>2, <1>3
<1> HIDE DEF g
<1>9. IsAround(next, g)
  BY <1>7 DEF IsAround
<1> QED
  BY <1>8, <1>9 DEF next

(* What WellFormed is, and that there is such a function: W and f say the  *)
(* same of each span.                                                      *)
RuleOf(p, f, i, j) ==
    \/ i > j
    \/ /\ \/ p[j].kind \in {"data", "empty"}
          \/ p[j].kind = "start" /\ p[j].tag \in Void
       /\ i \in f[j - 1]
    \/ /\ p[j].kind = "end"
       /\ \E m \in i .. j - 1 :
             /\ p[m] = [kind |-> "start", tag |-> p[j].tag]
             /\ i \in f[m - 1]
             /\ m + 1 \in f[j - 1]

IsWellFormed(p, f) == f = [j \in 0 .. Len(p) |-> {i \in 1 .. Len(p) + 1 : RuleOf(p, f, i, j)}]

Agree(p, W, f) ==
    \A i \in 1 .. Len(p) + 1, j \in 0 .. Len(p) : <<i, j>> \in W <=> i \in f[j]

LEMMA SameRule ==
    ASSUME NEW p, Len(p) \in Nat, NEW W, NEW f, Agree(p, W, f),
           NEW i \in 1 .. Len(p) + 1, NEW j \in 0 .. Len(p)
    PROVE  Rule(p, W, i, j) <=> RuleOf(p, f, i, j)
<1>1. CASE i > j
  BY <1>1 DEF Rule, RuleOf
<1>2. CASE i <= j
  <2>1. j - 1 \in 0 .. Len(p)
    BY <1>2
  <2>2. <<i, j - 1>> \in W <=> i \in f[j - 1]
    BY <2>1 DEF Agree
  <2>3. \A m \in i .. j - 1 :
            /\ <<i, m - 1>> \in W <=> i \in f[m - 1]
            /\ <<m + 1, j - 1>> \in W <=> m + 1 \in f[j - 1]
    <3>1. ASSUME NEW m \in i .. j - 1
          PROVE  m - 1 \in 0 .. Len(p) /\ m + 1 \in 1 .. Len(p) + 1
      BY <1>2
    <3> QED
      BY <2>1, <3>1 DEF Agree
  <2> QED
    BY <2>2, <2>3 DEF Rule, RuleOf
<1> QED
  BY <1>1, <1>2

LEMMA WellFormedExists ==
    ASSUME NEW p, Len(p) \in Nat, NEW W, Balance(p, W)
    PROVE  \E f : IsWellFormed(p, f)
<1> DEFINE f == [j \in 0 .. Len(p) |-> {i \in 1 .. Len(p) + 1 : <<i, j>> \in W}]
<1>1. Agree(p, W, f)
  BY DEF Agree
<1>2. \A i \in 1 .. Len(p) + 1, j \in 0 .. Len(p) : <<i, j>> \in W <=> RuleOf(p, f, i, j)
  <2> HIDE DEF f
  <2> QED
    BY <1>1, SameRule DEF Balance
<1>3. \A j \in 0 .. Len(p) : {i \in 1 .. Len(p) + 1 : <<i, j>> \in W}
                                 = {i \in 1 .. Len(p) + 1 : RuleOf(p, f, i, j)}
  <2> HIDE DEF f
  <2> QED
    BY <1>2
<1>4. f = [j \in 0 .. Len(p) |-> {i \in 1 .. Len(p) + 1 : RuleOf(p, f, i, j)}]
  BY <1>3, Zenon
<1> HIDE DEF f
<1> QED
  BY <1>4 DEF IsWellFormed

LEMMA WellFormedBalances ==
    ASSUME NEW p, Len(p) \in Nat, NEW f, IsWellFormed(p, f)
    PROVE  \E W : Balance(p, W) /\ Agree(p, W, f)
<1> DEFINE W == {ij \in Spans(Len(p)) : ij[1] \in f[ij[2]]}
<1>1. Agree(p, W, f)
  BY DEF Agree, Spans
<1>2. W \subseteq Spans(Len(p))
  OBVIOUS
<1> HIDE DEF W
<1>3. \A j \in 0 .. Len(p) : f[j] = {i \in 1 .. Len(p) + 1 : RuleOf(p, f, i, j)}
  BY DEF IsWellFormed
<1>4. ASSUME NEW i \in 1 .. Len(p) + 1, NEW j \in 0 .. Len(p)
      PROVE  <<i, j>> \in W <=> Rule(p, W, i, j)
  <2>1. Rule(p, W, i, j) <=> RuleOf(p, f, i, j)
    BY <1>1, SameRule
  <2>2. <<i, j>> \in W <=> i \in f[j]
    BY <1>1 DEF Agree
  <2> QED
    BY <1>3, <2>1, <2>2
<1> QED
  BY <1>1, <1>2, <1>4 DEF Balance

(* A set of numbers has a least one.                                       *)
LEMMA LeastElement ==
    ASSUME NEW T \in SUBSET Nat, T # {}
    PROVE  \E x \in T : \A y \in T : x <= y
<1> DEFINE R == {ss \in Nat \X Nat : ss[1] < ss[2]}
<1>1. IsWellFoundedOn(R, Nat)
  BY NatLessThanWellFounded DEF OpToRel
<1>2. \A x, y \in Nat : <<y, x>> \in R <=> y < x
  OBVIOUS
<1> HIDE DEF R
<1>3. PICK x \in T : \A y \in T : ~ (<<y, x>> \in R)
  BY <1>1, WFMin
<1>4. \A y \in T : ~ (y < x)
  BY <1>2, <1>3, Zenon
<1> QED
  BY <1>3, <1>4

(* A closed element holds what is between its tags: the first node of      *)
(* which that is wrong would be so because of an earlier one, its parent.  *)
LEMMA HoldsBetween ==
    ASSUME NEW p, NEW parent, NEW s, Shaped(p, parent, s), Nested(p, parent, s),
           NEW f, IsAround(parent, f), NEW W, Balance(p, W),
           NEW i \in 1 .. Len(p), NEW j \in 1 .. Len(p), Closes(p, W, i, j)
    PROVE  \A k \in DOMAIN parent : i \in f[k] <=> i <= k /\ k < j
<1> DEFINE wrong == {k \in DOMAIN parent : ~(i \in f[k] <=> i <= k /\ k < j)}
<1>1. /\ \A k \in DOMAIN parent : k \in 1 .. Len(p) /\ parent[k] \in Nat
      /\ \A k \in DOMAIN parent : parent[k] < k
      /\ Len(p) \in Nat
  BY Shape DEF Shaped, Tree
<1>2. ClosedAt(parent, s, i, j)
  BY DEF Nested, ClosedOK
<1>3. /\ DOMAIN parent = {k \in 1 .. Len(p) : p[k].kind # "end"}
      /\ \A k \in DOMAIN parent : parent[k] \in {0} \cup DOMAIN parent
  BY DEF Nested, NodesOK
<1>4. i < j /\ p[j].kind = "end"
  BY DEF Closes
<1>5. \A k \in {0} \cup DOMAIN parent : f[k] = {k} \cup (IF k = 0 THEN {} ELSE f[parent[k]])
  BY DEF IsAround
<1> SUFFICES ASSUME wrong # {} PROVE FALSE
  OBVIOUS
<1>6. PICK k \in wrong : \A l \in wrong : k <= l
  <2>1. wrong \in SUBSET Nat
    BY <1>1
  <2> HIDE DEF wrong
  <2> QED
    BY <2>1, LeastElement
<1>7. k \in DOMAIN parent /\ k \in Nat /\ k # 0 /\ k # j
  BY <1>1, <1>3, <1>4
<1>8. parent[k] \in Nat /\ parent[k] < k
  BY <1>1, <1>7
<1>9. i \in f[parent[k]] <=> i <= parent[k] /\ parent[k] < j
  <2>1. CASE parent[k] = 0
    <3>1. f[0] = {0}
      BY <1>5
    <3> QED
      BY <2>1, <3>1
  <2>2. CASE parent[k] \in DOMAIN parent
    <3>1. parent[k] \notin wrong
      BY <1>6, <1>7, <1>8
    <3> QED
      BY <2>2, <3>1
  <2> QED
    BY <1>3, <1>7, <2>1, <2>2
<1>10. i \in f[k] <=> i = k \/ i \in f[parent[k]]
  <2>1. f[k] = {k} \cup f[parent[k]]
    BY <1>5, <1>7
  <2> QED
    BY <2>1
<1>11. /\ i < k /\ k < j => i <= parent[k]
       /\ j < k => parent[k] < i \/ j <= parent[k]
  BY <1>2, <1>7 DEF ClosedAt
<1>12. i \in f[k] <=> i <= k /\ k < j
  BY <1>4, <1>7, <1>8, <1>9, <1>10, <1>11
<1> QED
  BY <1>6, <1>12

NestInv ==
    /\ Inv
    /\ Nested(page, up, stack)
    /\ \E f : IsAround(up, f)

LEMMA NestInit == TreeInit => NestInv
<1> SUFFICES ASSUME TreeInit PROVE NestInv
  OBVIOUS
<1>1. page = <<>> /\ Len(page) = 0 /\ DOMAIN up = {} /\ stack = <<0>> /\ Len(stack) = 1
  BY DEF TreeInit
<1>2. Inv
  BY DEF TreeInit, Inv, Tree, Path, OnPage
<1>3. Balance(page, {<<1, 0>>})
  <2>1. {<<1, 0>>} \subseteq Spans(0)
    BY DEF Spans
  <2>2. \A i \in 1 .. 0 + 1, j \in 0 .. 0 : i = 1 /\ j = 0
    OBVIOUS
  <2>3. Rule(page, {<<1, 0>>}, 1, 0)
    BY DEF Rule
  <2> QED
    BY <1>1, <2>1, <2>2, <2>3 DEF Balance
<1>4. NodesOK(page, up) /\ Ascending(stack) /\ OpenHold(stack, up)
  BY <1>1 DEF NodesOK, Ascending, OpenHold
<1>5. \A W : OpenOK(page, stack, W) /\ ClosedOK(page, up, stack, W)
  BY <1>1 DEF OpenOK, OpenBefore, ClosedOK
<1>6. \E f : IsAround(up, f)
  <2> DEFINE f == [k \in {0} \cup DOMAIN up |-> {0}]
  <2>1. \A k \in {0} \cup DOMAIN up : {0} = {k} \cup (IF k = 0 THEN {} ELSE f[up[k]])
    BY <1>1
  <2>2. f = [k \in {0} \cup DOMAIN up |-> {k} \cup (IF k = 0 THEN {} ELSE f[up[k]])]
    BY <2>1, Zenon
  <2> HIDE DEF f
  <2> QED
    BY <2>2 DEF IsAround
<1> QED
  BY <1>2, <1>3, <1>4, <1>5, <1>6 DEF NestInv, Nested

(* A node more                                                             *)
LEMMA AddIs ==
    ASSUME NestInv, NEW kind \in {"start", "empty", "data"},
           NEW tag \in Tags \cup Void \cup {"#text"}, Add(kind, tag)
    PROVE  /\ Shaped(page, up, stack)
           /\ page' = Append(page, [kind |-> kind, tag |-> tag])
           /\ [kind |-> kind, tag |-> tag] \in Tokens
           /\ up' = Grown(page, up, stack)
           /\ \E f : IsAround(up', f)
<1>1. Shaped(page, up, stack)
  BY DEF NestInv, Inv, Shaped
<1>2. up' = Grown(page, up, stack)
  BY DEF Add, Grown, Here
<1>3. \E f : IsAround(Grown(page, up, stack), f)
  BY <1>1, GrownAround DEF NestInv, Nested
<1> QED
  BY <1>1, <1>2, <1>3 DEF Add, Tokens

LEMMA StartEndKeeps ==
    ASSUME NestInv, NEW tag \in Tags \cup Void, StartEndTag(tag)
    PROVE  stack' = stack
<1> DEFINE t == [kind |-> "empty", tag |-> tag]
<1>1. Shaped(page, up, stack) /\ page' = Append(page, t) /\ t.tag = tag
  BY AddIs DEF StartEndTag
<1> HIDE DEF t
<1>2. /\ stack \in Seq(Nat) /\ Len(stack) >= 1 /\ Here \in Nat
      /\ Here # 0 /\ page'[Here] = t /\ Here \in 0 .. Len(page')
  BY <1>1, Shape DEF Here
<1>3. TagOf'[Here] = tag
  BY <1>1, <1>2 DEF TagOf
<1> QED
  BY <1>2, <1>3, ClosedAtOnce DEF StartEndTag

LEMMA NestingInvariance == TreeSpec => []NestInv
<1>1. Inv /\ NestInv /\ Inv' /\ [TreeNext]_treevars => NestInv'
  <2> SUFFICES ASSUME Inv, NestInv, Inv', [TreeNext]_treevars PROVE NestInv'
    OBVIOUS
  <2>1. ASSUME NEW tag \in Tags \cup Void, StartTag(tag) PROVE NestInv'
    <3> DEFINE t == [kind |-> "start", tag |-> tag]
    <3>1. /\ Shaped(page, up, stack) /\ page' = Append(page, t) /\ t \in Tokens
          /\ up' = Grown(page, up, stack) /\ \E f : IsAround(up', f)
          /\ stack' = Append(stack, Len(page) + 1)
      BY <2>1, AddIs DEF StartTag, Here
    <3>2. t.kind = "start" /\ Nested(page, up, stack)
      BY DEF NestInv
    <3> HIDE DEF t
    <3>3. Nested(page', up', stack')
      BY <3>1, <3>2, NestOpen
    <3> QED
      BY <3>1, <3>3 DEF NestInv
  <2>2. ASSUME NEW tag \in Tags \cup Void, StartEndTag(tag) PROVE NestInv'
    <3> DEFINE t == [kind |-> "empty", tag |-> tag]
    <3>1. /\ Shaped(page, up, stack) /\ page' = Append(page, t) /\ t \in Tokens
          /\ up' = Grown(page, up, stack) /\ \E f : IsAround(up', f)
      BY <2>2, AddIs DEF StartEndTag
    <3>2. t.kind \in {"data", "empty"} /\ t.tag = tag /\ Nested(page, up, stack)
      BY DEF NestInv
    <3> HIDE DEF t
    <3>3. stack' = stack
      BY <2>2, StartEndKeeps
    <3>4. Nested(page', up', stack)
      BY <3>1, <3>2, NestKeep
    <3> QED
      BY <3>1, <3>3, <3>4 DEF NestInv
  <2>3. ASSUME NEW tag \in Tags, EndTag(tag) PROVE NestInv'
    <3> DEFINE t == [kind |-> "end", tag |-> tag]
    <3>1. /\ Shaped(page, up, stack) /\ page' = Append(page, t) /\ t \in Tokens
          /\ up' = up /\ stack' = Closed(stack, TagOf, t.tag)
      BY <2>3 DEF EndTag, NestInv, Inv, Shaped, Tokens
    <3>2. IsEnd(t) /\ Nested(page, up, stack)
      BY DEF NestInv, IsEnd
    <3> HIDE DEF t
    <3>3. Names(TagOf, page)
      BY <3>1, Shape DEF Names, TagOf
    <3>4. Nested(page', up, stack')
      BY <3>1, <3>2, <3>3, NestClose
    <3> QED
      BY <3>1, <3>4 DEF NestInv
  <2>4. CASE Data
    <3> DEFINE t == [kind |-> "data", tag |-> "#text"]
    <3>1. /\ Shaped(page, up, stack) /\ page' = Append(page, t) /\ t \in Tokens
          /\ up' = Grown(page, up, stack) /\ \E f : IsAround(up', f)
          /\ stack' = stack
      BY <2>4, AddIs DEF Data
    <3>2. t.kind \in {"data", "empty"} /\ Nested(page, up, stack)
      BY DEF NestInv
    <3> HIDE DEF t
    <3>3. Nested(page', up', stack)
      BY <3>1, <3>2, NestKeep
    <3> QED
      BY <3>1, <3>3 DEF NestInv
  <2>5. CASE UNCHANGED treevars
    BY <2>5 DEF treevars, NestInv
  <2> QED
    BY <2>1, <2>2, <2>3, <2>4, <2>5 DEF TreeNext
<1> QED
  BY <1>1, NestInit, Invariance, PTL DEF TreeSpec

(* On every page, whatever is left open or closed out of order on it: an   *)
(* element with well-formed content holds just what handle_starttag,       *)
(* handle_data and handle_endtag met between its two tags.                 *)
THEOREM NestingHolds == TreeSpec => []NestingIsRespected
<1>1. NestInv => NestingIsRespected
  <2> SUFFICES ASSUME NestInv PROVE NestingIsRespected
    OBVIOUS
  <2>1. Shaped(page, up, stack) /\ Nested(page, up, stack)
    BY DEF NestInv, Inv, Shaped
  <2>2. Len(page) \in Nat /\ DOMAIN page = 1 .. Len(page) /\ Here = Len(page) + 1
    BY <2>1, Shape DEF Here
  <2>3. IsAround(up, Around)
    BY DEF NestInv, Around, IsAround
  <2>4. \E f : IsWellFormed(page, f)
    BY <2>1, <2>2, WellFormedExists DEF Nested
  <2>5. IsWellFormed(page, WellFormed)
    BY <2>4, Zenon DEF IsWellFormed, RuleOf, WellFormed, Here
  <2>6. PICK W : Balance(page, W) /\ Agree(page, W, WellFormed)
    BY <2>2, <2>5, WellFormedBalances
  <2>7. ASSUME NEW i \in 1 .. Len(page), NEW j \in 1 .. Len(page), i < j,
               page[i].kind = "start", page[i].tag \in Tags,
               page[j] = [kind |-> "end", tag |-> page[i].tag],
               i + 1 \in WellFormed[j - 1]
        PROVE  \A k \in DOMAIN up : i \in Around[k] <=> i <= k /\ k < j
    <3>1. i + 1 \in 1 .. Len(page) + 1 /\ j - 1 \in 0 .. Len(page)
      BY <2>2
    <3>2. <<i + 1, j - 1>> \in W
      BY <2>6, <2>7, <3>1 DEF Agree
    <3>3. Closes(page, W, i, j)
      BY <2>7, <3>2 DEF Closes
    <3> QED
      BY <2>1, <2>3, <2>6, <3>3, HoldsBetween
  <2> QED
    BY <2>2, <2>7 DEF NestingIsRespected
<1> QED
  BY <1>1, NestingInvariance, PTL
-----------------------------------------------------------------------------
(* Sequences that list a set                                               *)

(* q has each member of S once, and in order if sorted holds.              *)
Listing(q, S, sorted) ==
    /\ q \in Seq(Nat)
    /\ \A n \in 1 .. Len(q) : q[n] \in S
    /\ \A k \in S : \E n \in 1 .. Len(q) : q[n] = k
    /\ \A m, n \in 1 .. Len(q) : m < n => q[m] # q[n]
    /\ sorted => Ascending(q)

(* In order or not, as one likes, if it is in order.                       *)
LEMMA ListingOf ==
    ASSUME NEW q, NEW S, NEW sorted, Listing(q, S, sorted), NEW weaker, weaker => sorted
    PROVE  Listing(q, S, weaker)
  BY DEF Listing

(* The empty list.                                                         *)
LEMMA ListingEmpty == \A sorted : Listing(<<>>, {}, sorted)
  BY DEF Listing, Ascending

(* A list of one.                                                          *)
LEMMA ListingOne == \A sorted : \A k \in Nat : Listing(<<k>>, {k}, sorted)
<1> SUFFICES ASSUME NEW sorted, NEW k \in Nat PROVE Listing(<<k>>, {k}, sorted)
  OBVIOUS
<1>1. <<k>> \in Seq(Nat) /\ Len(<<k>>) = 1 /\ <<k>>[1] = k
  OBVIOUS
<1> QED
  BY <1>1 DEF Listing, Ascending

(* One list after another                                                  *)
LEMMA ListingJoin ==
    ASSUME NEW q, NEW r, NEW A, NEW B, NEW sorted,
           Listing(q, A, sorted), Listing(r, B, sorted),
           A \cap B = {}, sorted => \A a \in A, b \in B : a < b
    PROVE  Listing(q \o r, A \cup B, sorted)
<1>1. /\ q \in Seq(Nat) /\ r \in Seq(Nat) /\ Len(q) \in Nat /\ Len(r) \in Nat
      /\ q \o r \in Seq(Nat) /\ Len(q \o r) = Len(q) + Len(r)
  BY DEF Listing
<1>2. \A n \in 1 .. Len(q) : (q \o r)[n] = q[n] /\ n \in 1 .. Len(q \o r)
  BY <1>1
<1>3. \A n \in 1 .. Len(r) : (q \o r)[Len(q) + n] = r[n] /\ Len(q) + n \in 1 .. Len(q \o r)
  BY <1>1
<1>4. \A n \in 1 .. Len(q \o r) : n \in 1 .. Len(q) \/ \E m \in 1 .. Len(r) : n = Len(q) + m
  <2> SUFFICES ASSUME NEW n \in 1 .. Len(q \o r), n \notin 1 .. Len(q)
               PROVE  \E m \in 1 .. Len(r) : n = Len(q) + m
    OBVIOUS
  <2>1. n - Len(q) \in 1 .. Len(r) /\ n = Len(q) + (n - Len(q))
    BY <1>1
  <2> QED
    BY <2>1
<1> DEFINE u == q \o r
<1> HIDE DEF u
<1>5. ASSUME NEW n \in 1 .. Len(u) PROVE u[n] \in A \cup B
  <2>1. CASE n \in 1 .. Len(q)
    BY <1>2, <2>1 DEF Listing, u
  <2>2. ASSUME NEW m \in 1 .. Len(r), n = Len(q) + m PROVE u[n] \in A \cup B
    BY <1>3, <2>2 DEF Listing, u
  <2> QED
    BY <1>4, <2>1, <2>2 DEF u
<1>6. \A k \in A \cup B : \E n \in 1 .. Len(u) : u[n] = k
  BY <1>2, <1>3 DEF Listing, u
<1>7. ASSUME NEW m \in 1 .. Len(u), NEW n \in 1 .. Len(u), m < n
      PROVE  u[m] # u[n] /\ (sorted => u[m] < u[n])
  <2>1. CASE n \in 1 .. Len(q)
    <3>1. m \in 1 .. Len(q)
      BY <1>1, <1>7, <2>1
    <3>2. u[m] = q[m] /\ u[n] = q[n]
      BY <1>2, <2>1, <3>1 DEF u
    <3> QED
      BY <1>7, <2>1, <3>1, <3>2 DEF Listing, Ascending
  <2>2. CASE n \notin 1 .. Len(q) /\ m \in 1 .. Len(q)
    <3>1. u[m] \in A /\ u[n] \in B
      BY <1>2, <1>3, <1>4, <2>2 DEF Listing, u
    <3> QED
      BY <3>1
  <2>3. CASE n \notin 1 .. Len(q) /\ m \notin 1 .. Len(q)
    <3>1. PICK x \in 1 .. Len(r), y \in 1 .. Len(r) : m = Len(q) + x /\ n = Len(q) + y
      BY <1>4, <2>3 DEF u
    <3>2. u[m] = r[x] /\ u[n] = r[y]
      BY <1>3, <3>1 DEF u
    <3>3. x < y
      BY <1>1, <1>7, <3>1
    <3> QED
      BY <3>2, <3>3 DEF Listing, Ascending
  <2> QED
    BY <2>1, <2>2, <2>3
<1>8. u \in Seq(Nat)
  BY <1>1 DEF u
<1> QED
  <2>1. Listing(u, A \cup B, sorted)
    BY <1>5, <1>6, <1>7, <1>8 DEF Listing, Ascending
  <2> QED
    BY <2>1 DEF u

(* There is only one list in order.                                        *)
LEMMA ListingUnique ==
    ASSUME NEW q, NEW r, NEW S, Listing(q, S, TRUE), Listing(r, S, TRUE)
    PROVE  q = r
<1>1. /\ q \in Seq(Nat) /\ r \in Seq(Nat) /\ Len(q) \in Nat /\ Len(r) \in Nat
      /\ \A n \in 1 .. Len(q) : q[n] \in Nat
      /\ \A n \in 1 .. Len(r) : r[n] \in Nat
  BY DEF Listing
<1>2. ASSUME NEW a, NEW b, Listing(a, S, TRUE), Listing(b, S, TRUE),
             a \in Seq(Nat), b \in Seq(Nat), Len(a) \in Nat, Len(b) \in Nat
      PROVE  \A n \in 1 .. Len(a) : n <= Len(b) /\ a[n] = b[n]
  <2> DEFINE T == {n \in 1 .. Len(a) : ~(n <= Len(b) /\ a[n] = b[n])}
  <2> SUFFICES ASSUME T # {} PROVE FALSE
    OBVIOUS
  <2>1. PICK n \in T : \A m \in T : n <= m
    <3>1. T \in SUBSET Nat
      OBVIOUS
    <3> HIDE DEF T
    <3> QED
      BY <3>1, LeastElement
  <2>2. n \in 1 .. Len(a) /\ n \in Nat
    OBVIOUS
  <2>3. \A m \in 1 .. Len(a) : m < n => m <= Len(b) /\ a[m] = b[m] /\ m \in 1 .. Len(b)
    <3> SUFFICES ASSUME NEW m \in 1 .. Len(a), m < n
                 PROVE  m <= Len(b) /\ a[m] = b[m] /\ m \in 1 .. Len(b)
      OBVIOUS
    <3>1. m \notin T
      BY <2>1, <2>2
    <3> QED
      BY <1>2, <3>1
  <2>4. PICK x \in 1 .. Len(b) : b[x] = a[n]
    BY <1>2, <2>2 DEF Listing
  <2>5. ~(x < n)
    <3> SUFFICES ASSUME x < n PROVE FALSE
      OBVIOUS
    <3>1. x \in 1 .. Len(a)
      BY <1>2, <2>2
    <3>2. a[x] = b[x] /\ a[x] # a[n]
      BY <1>2, <2>2, <2>3, <3>1 DEF Listing
    <3> QED
      BY <2>4, <3>2
  <2>6. n \in 1 .. Len(b)
    BY <1>2, <2>2, <2>5
  <2>7. PICK y \in 1 .. Len(a) : a[y] = b[n]
    BY <1>2, <2>6 DEF Listing
  <2>8. ~(y < n)
    <3> SUFFICES ASSUME y < n PROVE FALSE
      OBVIOUS
    <3>1. a[y] = b[y] /\ y \in 1 .. Len(b)
      BY <2>3
    <3>2. b[y] # b[n]
      BY <1>2, <2>6, <3>1 DEF Listing
    <3> QED
      BY <2>7, <3>1, <3>2
  <2>9. n # x /\ n # y
    <3>1. n <= Len(b)
      BY <2>2, <2>6
    <3>2. a[n] # b[n]
      BY <2>1, <2>2, <3>1
    <3> HIDE DEF T
    <3>3. n # x
      BY <2>4, <3>2
    <3>4. n # y
      BY <2>7, <3>2
    <3> QED
      BY <3>3, <3>4
  <2>10. n < x /\ n < y
    BY <2>2, <2>5, <2>8, <2>9
  <2>11. b[n] < b[x] /\ a[n] < a[y]
    BY <1>2, <2>2, <2>6, <2>10 DEF Listing, Ascending
  <2>12. a[n] \in Nat /\ b[n] \in Nat
    <3>1. a \in Seq(Nat) /\ b \in Seq(Nat)
      BY <1>2
    <3> QED
      BY <2>2, <2>6, <3>1, ElementOfSeq
  <2> QED
    BY <2>4, <2>7, <2>11, <2>12
<1>3. \A n \in 1 .. Len(q) : n <= Len(r) /\ q[n] = r[n]
  BY <1>1, <1>2
<1>4. \A n \in 1 .. Len(r) : n <= Len(q)
  BY <1>1, <1>2
<1>5. Len(q) = Len(r)
  <2>1. Len(q) <= Len(r)
    BY <1>1, <1>3
  <2>2. Len(r) <= Len(q)
    BY <1>1, <1>4
  <2> QED
    BY <1>1, <2>1, <2>2
<1> QED
  BY <1>1, <1>3, <1>5

(* A list is as long as its set is large.                                  *)
LEMMA ListingLength ==
    ASSUME NEW q, NEW S, NEW sorted, Listing(q, S, sorted)
    PROVE  Len(q) = Cardinality(S) /\ {q[n] : n \in DOMAIN q} = S
<1>1. /\ q \in Seq(Nat) /\ Len(q) \in Nat /\ DOMAIN q = 1 .. Len(q)
      /\ \A n \in 1 .. Len(q) : q[n] \in S
      /\ \A k \in S : \E n \in 1 .. Len(q) : q[n] = k
      /\ \A m, n \in 1 .. Len(q) : m < n => q[m] # q[n]
  BY DEF Listing
<1>2. q \in [1 .. Len(q) -> S]
  BY <1>1
<1>3. \A m, n \in 1 .. Len(q) : q[m] = q[n] => m = n
  BY <1>1
<1>4. q \in Bijection(1 .. Len(q), S)
  BY <1>1, <1>2, <1>3 DEF Bijection, Injection, Surjection, IsInjective
<1>5. IsFiniteSet(1 .. Len(q)) /\ Cardinality(1 .. Len(q)) = Len(q)
  <2>1. CASE Len(q) = 0
    <3>1. 1 .. Len(q) = {}
      BY <2>1
    <3> QED
      BY <2>1, <3>1, FS_EmptySet
  <2>2. CASE Len(q) # 0
    <3>1. 1 \in Int /\ Len(q) \in Int /\ ~(1 > Len(q)) /\ Len(q) - 1 + 1 = Len(q)
      BY <1>1, <2>2
    <3> QED
      BY <3>1, FS_Interval
  <2> QED
    BY <2>1, <2>2
<1>6. ExistsBijection(1 .. Len(q), S)
  BY <1>4 DEF ExistsBijection
<1> QED
  BY <1>1, <1>5, <1>6, FS_Bijection
-----------------------------------------------------------------------------
(* What FlattenSeq joins, piece by piece                                   *)
IsFlatten(seqs, n, f) ==
    f = [i \in 1 .. n |-> IF i = 1 THEN seqs[i] ELSE f[i - 1] \o seqs[i]]

(* By induction on n: FlattenSeq is what its recursion says.               *)
LEMMA FlattenExists ==
    ASSUME NEW seqs, NEW n \in Nat
    PROVE  \E f : IsFlatten(seqs, n, f)
<1> DEFINE T == {m \in Nat : ~ \E f : IsFlatten(seqs, m, f)}
<1> SUFFICES ASSUME T # {} PROVE FALSE
  OBVIOUS
<1>1. PICK m \in T : \A l \in T : m <= l
  <2>1. T \in SUBSET Nat
    OBVIOUS
  <2> HIDE DEF T
  <2> QED
    BY <2>1, LeastElement
<1>2. m \in Nat /\ ~ \E f : IsFlatten(seqs, m, f)
  OBVIOUS
<1>3. CASE m = 0
  <2> DEFINE f == [i \in 1 .. m |-> <<>>]
  <2>1. \A i \in 1 .. m : FALSE
    BY <1>3
  <2>2. f = [i \in 1 .. m |-> IF i = 1 THEN seqs[i] ELSE f[i - 1] \o seqs[i]]
    BY <2>1, Zenon
  <2> HIDE DEF f
  <2> QED
    BY <1>2, <2>2 DEF IsFlatten
<1>4. CASE m # 0
  <2>1. m - 1 \in Nat /\ m - 1 \notin T
    BY <1>1, <1>2, <1>4
  <2>2. PICK f : IsFlatten(seqs, m - 1, f)
    BY <2>1
  <2> DEFINE g == [i \in 1 .. m |->
                     IF i = m THEN IF m = 1 THEN seqs[m] ELSE f[m - 1] \o seqs[m] ELSE f[i]]
  <2>3. \A i \in 1 .. m : i # m => i \in 1 .. m - 1
    BY <1>2
  <2>4. \A i \in 1 .. m : i # 1 => i - 1 \in 1 .. m /\ i - 1 # m /\ i - 1 \in 1 .. m - 1
    BY <1>2
  <2>5. \A i \in 1 .. m - 1 : f[i] = IF i = 1 THEN seqs[i] ELSE f[i - 1] \o seqs[i]
    BY <2>2 DEF IsFlatten
  <2>6. \A i \in 1 .. m : g[i] = IF i = m THEN IF m = 1 THEN seqs[m] ELSE f[m - 1] \o seqs[m]
                                 ELSE f[i]
    OBVIOUS
  <2>7. \A i \in 1 .. m : i # 1 => g[i - 1] = f[i - 1]
    <3> HIDE DEF g
    <3> QED
      BY <2>4, <2>6
  <2>8. ASSUME NEW i \in 1 .. m
        PROVE  (IF i = m THEN IF m = 1 THEN seqs[m] ELSE f[m - 1] \o seqs[m] ELSE f[i])
                   = IF i = 1 THEN seqs[i] ELSE g[i - 1] \o seqs[i]
    <3> HIDE DEF g
    <3>1. CASE i = m
      BY <2>7, <3>1
    <3>2. CASE i # m
      <4>1. f[i] = IF i = 1 THEN seqs[i] ELSE f[i - 1] \o seqs[i]
        BY <2>3, <2>5, <3>2
      <4> QED
        BY <2>7, <3>2, <4>1
    <3> QED
      BY <3>1, <3>2
  <2>9. g = [i \in 1 .. m |-> IF i = 1 THEN seqs[i] ELSE g[i - 1] \o seqs[i]]
    BY <2>8, Zenon
  <2> HIDE DEF g
  <2> QED
    BY <1>2, <2>9 DEF IsFlatten
<1> QED
  BY <1>3, <1>4

(* The members of the sets 1 to n of a sequence of sets                    *)
Joined(sets, n) == UNION {sets[i] : i \in 1 .. n}

(* Lists of sets that follow each other, put together                      *)
LEMMA FlattenLists ==
    ASSUME NEW n \in Nat, NEW seqs, seqs \in Seq(Seq(Nat)), Len(seqs) = n, NEW sets, NEW sorted,
           \A i \in 1 .. n : Listing(seqs[i], sets[i], sorted),
           \A i, j \in 1 .. n : i < j => /\ sets[i] \cap sets[j] = {}
                                         /\ sorted => \A a \in sets[i], b \in sets[j] : a < b
    PROVE  Listing(FlattenSeq(seqs), Joined(sets, n), sorted)
<1>1. CASE n = 0
  <2>1. FlattenSeq(seqs) = seqs /\ seqs = <<>>
    BY <1>1 DEF FlattenSeq
  <2>2. Joined(sets, n) = {}
    BY <1>1 DEF Joined
  <2> QED
    BY <2>1, <2>2, ListingEmpty
<1>2. CASE n # 0
  <2>1. PICK f : IsFlatten(seqs, n, f) /\ FlattenSeq(seqs) = f[n]
    <3>1. \E f : f = [i \in 1 .. Len(seqs) |-> IF i = 1 THEN seqs[i] ELSE f[i - 1] \o seqs[i]]
      BY FlattenExists DEF IsFlatten
    <3>2. Len(seqs) # 0
      BY <1>2
    <3>3. \E f : /\ f = [i \in 1 .. Len(seqs) |-> IF i = 1 THEN seqs[i] ELSE f[i - 1] \o seqs[i]]
                 /\ FlattenSeq(seqs) = f[Len(seqs)]
      BY <3>1, <3>2, Zenon DEF FlattenSeq
    <3> QED
      BY <3>3 DEF IsFlatten
  <2>2. \A i \in 1 .. n : f[i] = IF i = 1 THEN seqs[i] ELSE f[i - 1] \o seqs[i]
    BY <2>1 DEF IsFlatten
  <2> DEFINE T == {i \in 1 .. n : ~ Listing(f[i], Joined(sets, i), sorted)}
  <2>3. T = {}
    <3> SUFFICES ASSUME T # {} PROVE FALSE
      OBVIOUS
    <3>1. PICK i \in T : \A l \in T : i <= l
      <4>1. T \in SUBSET Nat
        OBVIOUS
      <4> HIDE DEF T
      <4> QED
        BY <4>1, LeastElement
    <3>2. i \in 1 .. n /\ ~ Listing(f[i], Joined(sets, i), sorted)
      OBVIOUS
    <3>3. CASE i = 1
      <4>1. Joined(sets, 1) = sets[1]
        BY DEF Joined
      <4>2. f[1] = seqs[1]
        BY <2>2, <3>2, <3>3
      <4> QED
        BY <3>2, <3>3, <4>1, <4>2
    <3>4. CASE i # 1
      <4>1. i - 1 \in 1 .. n /\ i - 1 \notin T
        BY <3>1, <3>2, <3>4
      <4>2. Listing(f[i - 1], Joined(sets, i - 1), sorted)
        BY <4>1
      <4>3. Listing(seqs[i], sets[i], sorted)
        BY <3>2
      <4>4. \A j \in 1 .. i - 1 : j \in 1 .. n /\ j < i
        BY <3>2
      <4>5. Joined(sets, i - 1) \cap sets[i] = {}
            /\ (sorted => \A a \in Joined(sets, i - 1), b \in sets[i] : a < b)
        <5>1. ASSUME NEW a \in Joined(sets, i - 1)
              PROVE  a \notin sets[i] /\ (sorted => \A b \in sets[i] : a < b)
          <6>1. PICK j \in 1 .. i - 1 : a \in sets[j]
            BY DEF Joined
          <6>2. j \in 1 .. n /\ j < i
            BY <4>4
          <6>3. sets[j] \cap sets[i] = {} /\ (sorted => \A x \in sets[j], b \in sets[i] : x < b)
            BY <3>2, <6>2
          <6> QED
            BY <6>1, <6>3
        <5> QED
          BY <5>1
      <4>6. Joined(sets, i) = Joined(sets, i - 1) \cup sets[i]
        <5>1. 1 .. i = (1 .. i - 1) \cup {i}
          BY <3>2
        <5> QED
          BY <5>1 DEF Joined
      <4>7. f[i] = f[i - 1] \o seqs[i]
        BY <2>2, <3>2, <3>4
      <4>8. Listing(f[i - 1] \o seqs[i], Joined(sets, i - 1) \cup sets[i], sorted)
        BY <4>2, <4>3, <4>5, ListingJoin
      <4> QED
        BY <3>2, <4>6, <4>7, <4>8
    <3> QED
      BY <3>3, <3>4
  <2>4. n \in 1 .. n
    BY <1>2
  <2> QED
    BY <2>1, <2>3, <2>4
<1> QED
  BY <1>1, <1>2

(* InOrder does what its name says.                                        *)
LEMMA InOrderLists ==
    ASSUME Len(page) \in Nat, NEW S, S \subseteq 0 .. Len(page)
    PROVE  Listing(InOrder(S), S, TRUE)
<1> DEFINE seqs == [n \in 1 .. Here |-> IF n - 1 \in S THEN <<n - 1>> ELSE <<>>]
           sets == [n \in 1 .. Here |-> S \cap {n - 1}]
<1>1. Here \in Nat /\ Here = Len(page) + 1
  BY DEF Here
<1>2. ASSUME NEW n \in 1 .. Here
      PROVE  Listing(seqs[n], sets[n], TRUE) /\ seqs[n] \in Seq(Nat)
  <2>1. n - 1 \in Nat
    OBVIOUS
  <2>2. CASE n - 1 \in S
    <3>1. seqs[n] = <<n - 1>> /\ sets[n] = {n - 1}
      BY <2>2
    <3> HIDE DEF seqs, sets
    <3>2. Listing(seqs[n], sets[n], TRUE)
      BY <2>1, <3>1, ListingOne
    <3> QED
      BY <3>2 DEF Listing
  <2>3. CASE n - 1 \notin S
    <3>1. seqs[n] = <<>> /\ sets[n] = {}
      BY <2>3
    <3> HIDE DEF seqs, sets
    <3>2. Listing(seqs[n], sets[n], TRUE)
      BY <3>1, ListingEmpty
    <3> QED
      BY <3>2 DEF Listing
  <2> QED
    BY <2>2, <2>3
<1>3. \A i, j \in 1 .. Here : i < j => /\ sets[i] \cap sets[j] = {}
                                       /\ \A a \in sets[i], b \in sets[j] : a < b
  OBVIOUS
<1>4. Joined(sets, Here) = S
  <2>1. \A k \in S : k + 1 \in 1 .. Here /\ k \in sets[k + 1]
    BY <1>1
  <2>2. \A n \in 1 .. Here : sets[n] \subseteq S
    OBVIOUS
  <2> HIDE DEF sets
  <2> QED
    BY <2>1, <2>2 DEF Joined
<1>5. seqs \in Seq(Seq(Nat)) /\ Len(seqs) = Here
  <2>1. seqs \in [1 .. Here -> Seq(Nat)]
    BY <1>2
  <2> HIDE DEF seqs
  <2> QED
    BY <1>1, <2>1
<1>6. InOrder(S) = FlattenSeq(seqs)
  BY DEF InOrder
<1> HIDE DEF seqs, sets
<1>7. Listing(FlattenSeq(seqs), Joined(sets, Here), TRUE)
  BY <1>1, <1>2, <1>3, <1>5, FlattenLists
<1> QED
  BY <1>4, <1>6, <1>7
-----------------------------------------------------------------------------
(* The order of the nodes                                                  *)

(* A parent is the last node or later, or around it.                       *)
PreOrder(parent, f) ==
    \A k, l \in DOMAIN parent : k < l => k <= parent[l] \/ parent[l] \in f[k]

(* So is every open element, and texts have no nodes in them.              *)
Planted(p, parent, s, f) ==
    /\ PreOrder(parent, f)
    /\ \A n \in 1 .. Len(s) : \A k \in DOMAIN parent : k <= s[n] \/ s[n] \in f[k]
    /\ \A k \in DOMAIN parent : parent[k] # 0 => p[parent[k]].kind # "data"
    /\ \A n \in 2 .. Len(s) : p[s[n]].kind # "data"

(* A tree and what is around its nodes                                     *)
Rooted(parent, f) ==
    /\ \A k \in DOMAIN parent :
          k \in Nat /\ k # 0 /\ parent[k] \in Nat /\ parent[k] < k
          /\ parent[k] \in {0} \cup DOMAIN parent
          /\ f[k] = {k} \cup f[parent[k]]
    /\ f[0] = {0}

(* A tree of the parser is one, with any function that solves Around.      *)
LEMMA RootedIs ==
    ASSUME NEW p, NEW parent, NEW s, Shaped(p, parent, s), NodesOK(p, parent),
           NEW f, IsAround(parent, f)
    PROVE  Rooted(parent, f)
<1>1. /\ \A k \in DOMAIN parent : k \in 1 .. Len(p) /\ parent[k] \in Nat
      /\ \A k \in DOMAIN parent : parent[k] < k
  BY Shape DEF Shaped, Tree
<1>2. \A k \in {0} \cup DOMAIN parent : f[k] = {k} \cup (IF k = 0 THEN {} ELSE f[parent[k]])
  BY DEF IsAround
<1>3. f[0] = {0}
  BY <1>2
<1>4. ASSUME NEW k \in DOMAIN parent
      PROVE  /\ k \in Nat /\ k # 0 /\ parent[k] \in Nat /\ parent[k] < k
             /\ parent[k] \in {0} \cup DOMAIN parent
             /\ f[k] = {k} \cup f[parent[k]]
  <2>1. k # 0
    BY <1>1
  <2>2. f[k] = {k} \cup f[parent[k]]
    BY <1>2, <2>1
  <2> QED
    BY <1>1, <2>1, <2>2 DEF NodesOK
<1> QED
  BY <1>3, <1>4 DEF Rooted

(* What is around a node is earlier.                                       *)
LEMMA AroundEarlier ==
    ASSUME NEW parent, NEW f, Rooted(parent, f)
    PROVE  \A l \in {0} \cup DOMAIN parent :
               /\ l \in f[l]
               /\ \A k \in f[l] : k \in {0} \cup DOMAIN parent /\ k <= l
<1> DEFINE wrong == {l \in {0} \cup DOMAIN parent :
                        ~(\A k \in f[l] : k \in {0} \cup DOMAIN parent /\ k <= l)}
<1>1. wrong = {}
  <2> SUFFICES ASSUME wrong # {} PROVE FALSE
    OBVIOUS
  <2>1. PICK l \in wrong : \A x \in wrong : l <= x
    <3>1. wrong \in SUBSET Nat
      BY DEF Rooted
    <3> HIDE DEF wrong
    <3> QED
      BY <3>1, LeastElement
  <2>2. CASE l = 0
    <3>1. f[0] = {0}
      BY DEF Rooted
    <3> QED
      BY <2>2, <3>1
  <2>3. CASE l # 0
    <3>1. /\ l \in DOMAIN parent /\ l \in Nat /\ parent[l] \in Nat /\ parent[l] < l
          /\ parent[l] \in {0} \cup DOMAIN parent
          /\ f[l] = {l} \cup f[parent[l]]
      BY <2>3 DEF Rooted
    <3>2. parent[l] \notin wrong
      BY <2>1, <3>1
    <3>3. \A k \in f[parent[l]] : k \in {0} \cup DOMAIN parent /\ k <= parent[l]
      BY <3>1, <3>2
    <3>4. \A k \in {0} \cup DOMAIN parent : k \in Nat
      BY DEF Rooted
    <3>5. \A k \in f[l] : k \in {0} \cup DOMAIN parent /\ k <= l
      <4>1. ASSUME NEW k \in f[parent[l]] PROVE k \in {0} \cup DOMAIN parent /\ k <= l
        <5>1. k \in {0} \cup DOMAIN parent /\ k <= parent[l]
          BY <3>3
        <5>2. k \in Nat /\ l \in Nat /\ parent[l] \in Nat /\ parent[l] < l
          BY <3>1, <3>4, <5>1
        <5> HIDE DEF wrong
        <5>3. k <= l
          BY <5>1, <5>2
        <5> QED
          BY <5>1, <5>3
      <4>2. l <= l
        BY <3>1
      <4> QED
        BY <3>1, <4>1, <4>2
    <3> QED
      BY <3>5
  <2> QED
    BY <2>2, <2>3
<1>2. \A l \in {0} \cup DOMAIN parent : l \in f[l]
  BY DEF Rooted
<1> QED
  BY <1>1, <1>2

(* What is around a node is around what it is around.                      *)
LEMMA AroundTransitive ==
    ASSUME NEW parent, NEW f, Rooted(parent, f), NEW c \in {0} \cup DOMAIN parent
    PROVE  \A l \in {0} \cup DOMAIN parent : c \in f[l] => f[c] \subseteq f[l]
<1> DEFINE wrong == {l \in {0} \cup DOMAIN parent : ~(c \in f[l] => f[c] \subseteq f[l])}
<1> SUFFICES ASSUME wrong # {} PROVE FALSE
  OBVIOUS
<1>1. PICK l \in wrong : \A x \in wrong : l <= x
  <2>1. wrong \in SUBSET Nat
    BY DEF Rooted
  <2> HIDE DEF wrong
  <2> QED
    BY <2>1, LeastElement
<1>2. CASE l = 0
  <2>1. f[0] = {0}
    BY DEF Rooted
  <2> QED
    BY <1>2, <2>1
<1>3. CASE l # 0
  <2>1. /\ l \in DOMAIN parent /\ l \in Nat /\ parent[l] \in Nat /\ parent[l] < l
        /\ parent[l] \in {0} \cup DOMAIN parent
        /\ f[l] = {l} \cup f[parent[l]]
    BY <1>3 DEF Rooted
  <2>2. parent[l] \notin wrong
    BY <1>1, <2>1
  <2> QED
    BY <2>1, <2>2
<1> QED
  BY <1>2, <1>3

(* What is in a node is in one of its children.                            *)
LEMMA InsideChild ==
    ASSUME NEW parent, NEW f, Rooted(parent, f), NEW k \in {0} \cup DOMAIN parent
    PROVE  \A l \in {0} \cup DOMAIN parent :
               k \in f[l] /\ k # l => \E c \in DOMAIN parent : parent[c] = k /\ c \in f[l]
<1> DEFINE wrong == {l \in {0} \cup DOMAIN parent :
               ~(k \in f[l] /\ k # l => \E c \in DOMAIN parent : parent[c] = k /\ c \in f[l])}
<1> SUFFICES ASSUME wrong # {} PROVE FALSE
  OBVIOUS
<1>1. PICK l \in wrong : \A x \in wrong : l <= x
  <2>1. wrong \in SUBSET Nat
    BY DEF Rooted
  <2> HIDE DEF wrong
  <2> QED
    BY <2>1, LeastElement
<1>2. CASE l = 0
  <2>1. f[0] = {0}
    BY DEF Rooted
  <2> QED
    BY <1>2, <2>1
<1>3. CASE l # 0
  <2>1. /\ l \in DOMAIN parent /\ l \in Nat /\ parent[l] \in Nat /\ parent[l] < l
        /\ parent[l] \in {0} \cup DOMAIN parent
        /\ f[l] = {l} \cup f[parent[l]]
    BY <1>3 DEF Rooted
  <2>2. parent[l] \notin wrong
    BY <1>1, <2>1
  <2>3. CASE parent[l] = k
    BY <2>1, <2>3
  <2>4. CASE parent[l] # k
    BY <2>1, <2>2, <2>4
  <2> QED
    BY <2>3, <2>4
<1> QED
  BY <1>2, <1>3

(* All that is in one child comes before the next child.                   *)
LEMMA SiblingsApart ==
    ASSUME NEW parent, NEW f, Rooted(parent, f), PreOrder(parent, f),
           NEW c \in DOMAIN parent, NEW d \in DOMAIN parent, parent[c] = parent[d], c < d
    PROVE  \A l \in DOMAIN parent : c \in f[l] => l < d
<1> DEFINE wrong == {l \in DOMAIN parent : ~(c \in f[l] => l < d)}
<1> SUFFICES ASSUME wrong # {} PROVE FALSE
  OBVIOUS
<1>1. PICK l \in wrong : \A x \in wrong : l <= x
  <2>1. wrong \in SUBSET Nat
    BY DEF Rooted
  <2> HIDE DEF wrong
  <2> QED
    BY <2>1, LeastElement
<1>2. /\ l \in DOMAIN parent /\ l \in Nat /\ parent[l] \in Nat /\ parent[l] < l
      /\ parent[l] \in {0} \cup DOMAIN parent
      /\ f[l] = {l} \cup f[parent[l]]
      /\ c \in f[l] /\ ~(l < d)
  BY DEF Rooted
<1>3. /\ c \in Nat /\ d \in Nat /\ parent[c] \in Nat /\ parent[c] < c /\ c # 0
      /\ parent[d] \in {0} \cup DOMAIN parent
      /\ f[d] = {d} \cup f[parent[d]]
  BY DEF Rooted
<1>4. c \notin f[parent[d]]
  <2>1. \A k \in f[parent[d]] : k <= parent[d]
    BY <1>3, AroundEarlier
  <2> QED
    BY <1>3, <2>1
<1>5. l # d
  BY <1>2, <1>3, <1>4
<1>6. l # c /\ c \in f[parent[l]]
  BY <1>2, <1>3
<1>7. parent[l] < d
  <2>1. CASE parent[l] \in DOMAIN parent
    <3>1. parent[l] \notin wrong
      BY <1>1, <1>2
    <3> QED
      BY <1>6, <2>1, <3>1
  <2>2. CASE parent[l] = 0
    BY <1>3, <2>2
  <2> QED
    BY <1>2, <2>1, <2>2
<1>8. c <= parent[l]
  BY <1>2, <1>6, AroundEarlier
<1>9. d < l
  BY <1>2, <1>3, <1>5
<1>10. parent[l] \in f[d]
  BY <1>2, <1>3, <1>7, <1>9 DEF PreOrder
<1>11. parent[l] \in f[parent[d]]
  BY <1>2, <1>3, <1>7, <1>10
<1>12. parent[l] <= parent[d]
  BY <1>3, <1>11, AroundEarlier
<1> QED
  BY <1>2, <1>3, <1>8, <1>12

(* Only one function is what Around says.                                  *)
LEMMA AroundUnique ==
    ASSUME NEW parent, NEW f, NEW g, Rooted(parent, f), Rooted(parent, g),
           IsAround(parent, f), IsAround(parent, g)
    PROVE  f = g
<1> DEFINE wrong == {l \in {0} \cup DOMAIN parent : f[l] # g[l]}
<1>1. wrong = {}
  <2> SUFFICES ASSUME wrong # {} PROVE FALSE
    OBVIOUS
  <2>1. PICK l \in wrong : \A x \in wrong : l <= x
    <3>1. wrong \in SUBSET Nat
      BY DEF Rooted
    <3> HIDE DEF wrong
    <3> QED
      BY <3>1, LeastElement
  <2>2. CASE l = 0
    BY <2>2 DEF Rooted
  <2>3. CASE l # 0
    <3>1. /\ l \in Nat /\ parent[l] \in Nat /\ parent[l] < l
          /\ parent[l] \in {0} \cup DOMAIN parent
          /\ f[l] = {l} \cup f[parent[l]] /\ g[l] = {l} \cup g[parent[l]]
      BY <2>3 DEF Rooted
    <3>2. parent[l] \notin wrong
      BY <2>1, <3>1
    <3> QED
      BY <3>1, <3>2
  <2> QED
    BY <2>2, <2>3
<1>2. /\ f = [k \in {0} \cup DOMAIN parent |-> f[k]]
      /\ g = [k \in {0} \cup DOMAIN parent |-> g[k]]
  <2>1. /\ f = [k \in {0} \cup DOMAIN parent |-> {k} \cup (IF k = 0 THEN {} ELSE f[parent[k]])]
        /\ g = [k \in {0} \cup DOMAIN parent |-> {k} \cup (IF k = 0 THEN {} ELSE g[parent[k]])]
    BY DEF IsAround
  <2> QED
    BY <2>1
<1>3. \A k \in {0} \cup DOMAIN parent : f[k] = g[k]
  BY <1>1
<1> QED
  BY <1>2, <1>3, Zenon

(* The open elements are around the innermost one.                         *)
LEMMA OpenAround ==
    ASSUME NEW p, NEW parent, NEW s, Shaped(p, parent, s), NodesOK(p, parent), Ascending(s),
           NEW f, IsAround(parent, f), Planted(p, parent, s, f)
    PROVE  \A n \in 1 .. Len(s) : s[n] \in f[s[Len(s)]]
<1>1. /\ Len(s) \in Nat /\ Len(s) >= 1 /\ s[1] = 0
      /\ \A n \in 1 .. Len(s) : s[n] \in Nat
      /\ \A n \in 2 .. Len(s) : s[n] \in DOMAIN parent
  BY Shape
<1>2. Rooted(parent, f)
  BY RootedIs
<1> SUFFICES ASSUME NEW n \in 1 .. Len(s) PROVE s[n] \in f[s[Len(s)]]
  OBVIOUS
<1>3. Len(s) \in 1 .. Len(s) /\ s[Len(s)] \in {0} \cup DOMAIN parent
  BY <1>1
<1>4. CASE n = Len(s)
  BY <1>2, <1>3, <1>4, AroundEarlier
<1>5. CASE n # Len(s)
  <2>1. n < Len(s) /\ Len(s) \in 2 .. Len(s)
    BY <1>1, <1>5
  <2>2. s[n] < s[Len(s)] /\ s[Len(s)] \in DOMAIN parent
    BY <1>1, <1>3, <2>1 DEF Ascending
  <2>3. ~(s[Len(s)] <= s[n])
    BY <1>1, <1>3, <2>2
  <2> QED
    BY <2>2, <2>3 DEF Planted
<1> QED
  BY <1>4, <1>5

(* A new node is a child of the innermost open element.                    *)
LEMMA PlantGrown ==
    ASSUME NEW p, NEW parent, NEW s, Shaped(p, parent, s), NodesOK(p, parent), Ascending(s),
           NEW f, IsAround(parent, f), Planted(p, parent, s, f),
           NEW t \in Tokens, t.kind # "end", NEW g, IsAround(Grown(p, parent, s), g),
           \A k \in {0} \cup DOMAIN parent : g[k] = f[k],
           NodesOK(Append(p, t), Grown(p, parent, s)),
           Shaped(Append(p, t), Grown(p, parent, s), s)
    PROVE  Planted(Append(p, t), Grown(p, parent, s), s, g)
<1> DEFINE next == Grown(p, parent, s)
           last == Len(p) + 1
<1>1. /\ p \in Seq(Tokens) /\ Len(p) \in Nat
      /\ Len(s) \in Nat /\ Len(s) >= 1 /\ s[1] = 0
      /\ \A n \in 1 .. Len(s) : s[n] \in Nat /\ s[n] <= Len(p)
      /\ \A n \in 2 .. Len(s) : s[n] \in DOMAIN parent /\ s[n] \in 1 .. Len(p)
      /\ \A k \in DOMAIN parent : k \in 1 .. Len(p) /\ parent[k] \in Nat
  BY Shape
<1>2. /\ \A k : k \in DOMAIN next <=> k \in DOMAIN parent \/ k = last
      /\ next[last] = s[Len(s)]
      /\ \A k \in DOMAIN parent : k # last /\ next[k] = parent[k]
  BY GrownIs
<1>3. Rooted(next, g)
  BY RootedIs
<1> HIDE DEF next
<1>4. last \in Nat /\ last > Len(p) /\ last # 0
  BY <1>1
<1>5. /\ \A k \in 1 .. Len(p) : Append(p, t)[k] = p[k]
      /\ Len(s) \in 1 .. Len(s)
  BY <1>1
<1> HIDE DEF last
<1>6. g[last] = {last} \cup f[s[Len(s)]]
  <2>1. s[Len(s)] \in {0} \cup DOMAIN parent
    BY <1>1
  <2>2. g[last] = {last} \cup g[s[Len(s)]]
    BY <1>2, <1>3 DEF Rooted
  <2> QED
    BY <2>1, <2>2
<1>7. PreOrder(next, g)
  <2> SUFFICES ASSUME NEW k \in DOMAIN next, NEW l \in DOMAIN next, k < l
               PROVE  k <= next[l] \/ next[l] \in g[k]
    BY DEF PreOrder
  <2>1. k \in DOMAIN parent
    <3>1. CASE k = last
      <4>1. ~(l \in DOMAIN parent) /\ ~(l = last)
        BY <1>1, <1>4, <3>1
      <4> QED
        BY <1>2, <4>1
    <3> QED
      BY <1>2, <3>1
  <2>2. g[k] = f[k]
    BY <2>1
  <2>3. CASE l \in DOMAIN parent
    BY <1>2, <2>1, <2>2, <2>3 DEF Planted, PreOrder
  <2>4. CASE l = last
    BY <1>2, <1>5, <2>1, <2>2, <2>4 DEF Planted
  <2> QED
    BY <1>2, <2>3, <2>4
<1>8. ASSUME NEW n \in 1 .. Len(s), NEW k \in DOMAIN next
      PROVE  k <= s[n] \/ s[n] \in g[k]
  <2>1. CASE k \in DOMAIN parent
    BY <2>1 DEF Planted
  <2>2. CASE k = last
    <3>1. s[n] \in f[s[Len(s)]]
      BY OpenAround
    <3> QED
      BY <1>6, <2>2, <3>1
  <2> QED
    BY <1>2, <2>1, <2>2
<1>9. \A n \in 2 .. Len(s) : Append(p, t)[s[n]].kind # "data"
  BY <1>1, <1>5 DEF Planted
<1>10. ASSUME NEW k \in DOMAIN next, next[k] # 0
       PROVE  Append(p, t)[next[k]].kind # "data"
  <2>1. CASE k \in DOMAIN parent
    <3>1. next[k] = parent[k] /\ parent[k] \in 1 .. Len(p)
      <4>1. parent[k] \in {0} \cup DOMAIN parent
        BY <2>1 DEF NodesOK
      <4> QED
        BY <1>1, <1>2, <1>10, <2>1, <4>1
    <3>2. p[parent[k]].kind # "data"
      BY <1>10, <2>1, <3>1 DEF Planted
    <3> QED
      BY <1>5, <3>1, <3>2
  <2>2. CASE k = last
    <3>1. Len(s) # 1 /\ next[k] = s[Len(s)]
      BY <1>1, <1>2, <1>10, <2>2
    <3>2. Len(s) \in 2 .. Len(s)
      <4>1. Len(s) \in Nat /\ Len(s) >= 1 /\ Len(s) # 1
        BY <1>1, <3>1
      <4> DEFINE length == Len(s)
      <4>2. length \in Nat /\ length >= 1 /\ length # 1
        BY <4>1
      <4> HIDE DEF length
      <4>3. length \in 2 .. length
        BY <4>2
      <4> QED
        BY <4>3 DEF length
    <3> QED
      BY <1>9, <3>1, <3>2
  <2> QED
    BY <1>2, <2>1, <2>2
<1> QED
  BY <1>7, <1>8, <1>9, <1>10 DEF Planted, next

(* The last node opens.                                                    *)
LEMMA PlantOpen ==
    ASSUME NEW p, NEW parent, NEW s \in Seq(Nat), NEW f, Planted(p, parent, s, f),
           NEW k \in Nat, \A l \in DOMAIN parent : l <= k, p[k].kind # "data"
    PROVE  Planted(p, parent, Append(s, k), f)
<1> DEFINE u == Append(s, k)
<1>1. /\ Len(s) \in Nat /\ Len(u) = Len(s) + 1 /\ u[Len(s) + 1] = k
      /\ \A n \in 1 .. Len(s) : u[n] = s[n]
  OBVIOUS
<1> HIDE DEF u
<1>2. /\ \A n \in 1 .. Len(u) : n \in 1 .. Len(s) \/ n = Len(s) + 1
      /\ \A n \in 2 .. Len(u) : (n \in 2 .. Len(s) /\ n \in 1 .. Len(s)) \/ n = Len(s) + 1
  BY <1>1
<1>3. \A n \in 1 .. Len(u) : \A l \in DOMAIN parent : l <= u[n] \/ u[n] \in f[l]
  BY <1>1, <1>2 DEF Planted
<1>4. \A n \in 2 .. Len(u) : p[u[n]].kind # "data"
  BY <1>1, <1>2 DEF Planted
<1> QED
  BY <1>3, <1>4 DEF Planted, u

(* An end tag leaves what the stack begins with.                           *)
LEMMA PlantClose ==
    ASSUME NEW p, NEW parent, NEW s, Shaped(p, parent, s), NodesOK(p, parent),
           NEW f, Planted(p, parent, s, f), NEW t \in Tokens, NEW m \in 1 .. Len(s)
    PROVE  Planted(Append(p, t), parent, SubSeq(s, 1, m), f)
<1> DEFINE u == SubSeq(s, 1, m)
<1>1. /\ p \in Seq(Tokens) /\ s \in Seq(Nat) /\ Len(s) \in Nat /\ Len(p) \in Nat
      /\ \A n \in 2 .. Len(s) : s[n] \in 1 .. Len(p)
      /\ \A k \in DOMAIN parent : k \in 1 .. Len(p)
  BY Shape
<1>2. Len(u) = m /\ \A n \in 1 .. m : u[n] = s[n] /\ n \in 1 .. Len(s)
  BY <1>1
<1>3. \A n \in 2 .. m : n \in 1 .. m /\ n \in 2 .. Len(s)
  BY <1>1
<1>4. \A k \in 1 .. Len(p) : Append(p, t)[k] = p[k]
  BY <1>1
<1> HIDE DEF u
<1>5. \A n \in 1 .. Len(u) : \A k \in DOMAIN parent : k <= u[n] \/ u[n] \in f[k]
  BY <1>2 DEF Planted
<1>6. \A n \in 2 .. Len(u) : Append(p, t)[u[n]].kind # "data"
  BY <1>1, <1>2, <1>3, <1>4 DEF Planted
<1>7. ASSUME NEW k \in DOMAIN parent, parent[k] # 0
      PROVE  Append(p, t)[parent[k]].kind # "data"
  <2>1. parent[k] \in 1 .. Len(p)
    BY <1>1, <1>7 DEF NodesOK
  <2> QED
    BY <1>4, <1>7, <2>1 DEF Planted
<1> QED
  BY <1>5, <1>6, <1>7 DEF Planted, u

(* With it, what elements hold is in the order of the page.                *)
PlantInv ==
    /\ NestInv
    /\ \E f : IsAround(up, f) /\ Planted(page, up, stack, f)

(* An empty page.                                                          *)
LEMMA PlantInit == TreeInit => PlantInv
<1> SUFFICES ASSUME TreeInit PROVE PlantInv
  OBVIOUS
<1>1. DOMAIN up = {} /\ stack = <<0>> /\ Len(stack) = 1
  BY DEF TreeInit
<1>2. NestInv
  BY NestInit
<1>3. \A f : Planted(page, up, stack, f)
  BY <1>1 DEF Planted, PreOrder
<1> QED
  BY <1>2, <1>3 DEF PlantInv, NestInv

(* A node more, before the stack changes                                   *)
LEMMA AddPlants ==
    ASSUME PlantInv, NEW kind \in {"start", "empty", "data"},
           NEW tag \in Tags \cup Void \cup {"#text"}, Add(kind, tag)
    PROVE  /\ \E g : IsAround(up', g) /\ Planted(page', up', stack, g)
           /\ Here \in Nat /\ page'[Here].kind = kind
           /\ \A l \in DOMAIN up' : l <= Here
<1> DEFINE t == [kind |-> kind, tag |-> tag]
<1>1. Inv /\ NestInv
  BY DEF PlantInv, NestInv
<1>2. /\ Shaped(page, up, stack) /\ page' = Append(page, t) /\ t \in Tokens
      /\ up' = Grown(page, up, stack)
  BY <1>1, AddIs
<1>3. t.kind # "end" /\ t.kind = kind
  OBVIOUS
<1> HIDE DEF t
<1>4. Shaped(page', up', stack)
  BY <1>1, AddInv DEF Shaped
<1>5. /\ Nested(page, up, stack) /\ NodesOK(page, up) /\ Ascending(stack)
  BY <1>1 DEF NestInv, Nested
<1>6. NodesOK(page', up')
  BY <1>2, <1>3, <1>5, GrownNodes
<1>7. PICK f : IsAround(up, f) /\ Planted(page, up, stack, f)
  BY DEF PlantInv
<1>8. PICK g : /\ IsAround(up', g)
               /\ \A k \in {0} \cup DOMAIN up : g[k] = f[k]
  BY <1>2, <1>5, <1>7, GrownAround
<1>9. Planted(page', up', stack, g)
  <2>1. Planted(Append(page, t), Grown(page, up, stack), stack, g)
    BY <1>2, <1>3, <1>4, <1>5, <1>6, <1>7, <1>8, PlantGrown
  <2> QED
    BY <1>2, <2>1
<1>10. Here \in Nat /\ page'[Here] = t
  BY <1>2, Shape DEF Here
<1>11. \A l \in DOMAIN up' : l <= Here
  <2>1. \A l \in DOMAIN up' : l \in 1 .. Len(page')
    BY <1>4, Shape
  <2>2. Len(page') = Here
    BY <1>1, AddInv
  <2> QED
    BY <1>10, <2>1, <2>2
<1> QED
  BY <1>3, <1>8, <1>9, <1>10, <1>11

(* Every handler keeps PlantInv.                                           *)
LEMMA PlantInvariance == TreeSpec => []PlantInv
<1>1. PlantInv /\ NestInv' /\ [TreeNext]_treevars => PlantInv'
  <2> SUFFICES ASSUME PlantInv, NestInv', [TreeNext]_treevars PROVE PlantInv'
    OBVIOUS
  <2>0. Shaped(page, up, stack) /\ stack \in Seq(Nat) /\ NodesOK(page, up)
        /\ Len(stack) >= 1
    BY DEF PlantInv, NestInv, Inv, Shaped, Path, Nested
  <2>1. ASSUME NEW tag \in Tags \cup Void, StartTag(tag) PROVE PlantInv'
    <3>1. /\ \E g : IsAround(up', g) /\ Planted(page', up', stack, g)
          /\ Here \in Nat /\ page'[Here].kind = "start"
          /\ \A l \in DOMAIN up' : l <= Here
      BY <2>1, AddPlants DEF StartTag
    <3>2. PICK g : IsAround(up', g) /\ Planted(page', up', stack, g)
      BY <3>1
    <3>3. page'[Here].kind # "data"
      BY <3>1
    <3>4. Planted(page', up', Append(stack, Here), g)
      BY <2>0, <3>1, <3>2, <3>3, PlantOpen
    <3>5. stack' = Append(stack, Here)
      BY <2>1 DEF StartTag
    <3> QED
      BY <3>2, <3>4, <3>5 DEF PlantInv
  <2>2. ASSUME NEW tag \in Tags \cup Void, StartEndTag(tag) PROVE PlantInv'
    <3>1. \E g : IsAround(up', g) /\ Planted(page', up', stack, g)
      BY <2>2, AddPlants DEF StartEndTag
    <3>2. stack' = stack
      BY <2>2, StartEndKeeps DEF PlantInv
    <3> QED
      BY <3>1, <3>2 DEF PlantInv
  <2>3. ASSUME NEW tag \in Tags, EndTag(tag) PROVE PlantInv'
    <3> DEFINE t == [kind |-> "end", tag |-> tag]
    <3>1. t \in Tokens /\ page' = Append(page, t) /\ up' = up
      BY <2>3 DEF EndTag, Tokens
    <3>2. PICK m \in 1 .. Len(stack) : stack' = SubSeq(stack, 1, m)
      BY <2>0, <2>3, ClosedPrefix DEF EndTag
    <3>3. PICK f : IsAround(up, f) /\ Planted(page, up, stack, f)
      BY DEF PlantInv
    <3> HIDE DEF t
    <3>4. Planted(Append(page, t), up, SubSeq(stack, 1, m), f)
      BY <2>0, <3>1, <3>3, PlantClose
    <3>5. IsAround(up', f) /\ Planted(page', up', stack', f)
      BY <3>1, <3>2, <3>3, <3>4
    <3> QED
      BY <3>5 DEF PlantInv
  <2>4. CASE Data
    <3>1. \E g : IsAround(up', g) /\ Planted(page', up', stack, g)
      BY <2>4, AddPlants DEF Data
    <3>2. stack' = stack
      BY <2>4 DEF Data
    <3> QED
      BY <3>1, <3>2 DEF PlantInv
  <2>5. CASE UNCHANGED treevars
    BY <2>5 DEF treevars, PlantInv
  <2> QED
    BY <2>1, <2>2, <2>3, <2>4, <2>5 DEF TreeNext
<1> QED
  BY <1>1, PlantInit, NestingInvariance, PTL DEF TreeSpec
-----------------------------------------------------------------------------
(* What selectors and text() find                                          *)

(* The elements among the children of k.                                   *)
Kids(k) == {c \in Elements : up[c] = k}

(* What PlantInv says of Around itself.                                    *)
LEMMA PageFacts ==
    ASSUME PlantInv
    PROVE  /\ Len(page) \in Nat
           /\ \A k \in DOMAIN up : k \in 1 .. Len(page)
           /\ IsAround(up, Around) /\ Rooted(up, Around) /\ PreOrder(up, Around)
           /\ \A k \in DOMAIN up : up[k] # 0 => page[up[k]].kind # "data"
<1>1. Shaped(page, up, stack) /\ NodesOK(page, up)
  BY DEF PlantInv, NestInv, Inv, Shaped, Nested
<1>2. IsAround(up, Around)
  BY DEF PlantInv, NestInv, Around, IsAround
<1>3. PICK f : IsAround(up, f) /\ Planted(page, up, stack, f)
  BY DEF PlantInv
<1>4. Rooted(up, Around) /\ Rooted(up, f)
  BY <1>1, <1>2, <1>3, RootedIs
<1>5. f = Around
  BY <1>2, <1>3, <1>4, AroundUnique
<1>6. Planted(page, up, stack, Around)
  BY <1>3, <1>5
<1> QED
  BY <1>1, <1>2, <1>4, <1>6, Shape DEF Planted

(* To reason from the last node back.                                      *)
LEMMA GreatestElement ==
    ASSUME NEW n \in Nat, NEW T \in SUBSET (0 .. n), T # {}
    PROVE  \E x \in T : \A y \in T : y <= x
<1> DEFINE U == {l \in 0 .. n : n - l \in T}
<1>1. U # {}
  <2>1. PICK x \in T : TRUE
    OBVIOUS
  <2>2. n - x \in 0 .. n /\ n - (n - x) = x
    OBVIOUS
  <2> QED
    BY <2>1, <2>2
<1>2. PICK l \in U : \A m \in U : l <= m
  <2>1. U \in SUBSET Nat
    OBVIOUS
  <2> HIDE DEF U
  <2> QED
    BY <1>1, <2>1, LeastElement
<1>3. n - l \in T
  OBVIOUS
<1>4. ASSUME NEW y \in T PROVE y <= n - l
  <2>1. n - y \in 0 .. n /\ n - (n - y) = y
    OBVIOUS
  <2>2. n - y \in U
    BY <2>1
  <2>3. l <= n - y
    BY <1>2, <2>2
  <2> QED
    BY <2>1, <2>3
<1> QED
  BY <1>3, <1>4

(* A child comes after its parent, and what is in it after it.             *)
LEMMA KidsLater ==
    ASSUME PlantInv, NEW k, NEW c \in Kids(k)
    PROVE  /\ c \in DOMAIN up /\ up[c] = k /\ k \in Nat /\ k < c /\ c \in Nat
           /\ c \in 1 .. Len(page) /\ k \in Around[c]
           /\ \A l \in DOMAIN up : c \in Around[l] => c <= l /\ k < l /\ k \in Around[l]
<1>1. Rooted(up, Around) /\ c \in DOMAIN up /\ up[c] = k /\ c \in 1 .. Len(page)
  BY PageFacts DEF Kids, Elements
<1>2. k \in Nat /\ k < c /\ c \in Nat /\ k \in {0} \cup DOMAIN up
      /\ Around[c] = {c} \cup Around[k]
  BY <1>1 DEF Rooted
<1>3. k \in Around[c]
  BY <1>1, <1>2, AroundEarlier
<1>4. ASSUME NEW l \in DOMAIN up, c \in Around[l]
      PROVE  c <= l /\ k < l /\ k \in Around[l]
  <2>1. c <= l
    BY <1>1, <1>4, AroundEarlier
  <2>2. Around[c] \subseteq Around[l]
    BY <1>1, <1>4, AroundTransitive
  <2>3. l \in Nat
    BY <1>1 DEF Rooted
  <2> QED
    BY <1>2, <1>3, <2>1, <2>2, <2>3
<1> QED
  BY <1>1, <1>2, <1>3, <1>4

(* What the children of k yield, one after another                         *)
Gathered(f, k) ==
    FlattenSeq([n \in DOMAIN InOrder(Kids(k)) |-> f[InOrder(Kids(k))[n]]])

(* If the children list what is in them, together they list all of it.     *)
LEMMA ChildLists ==
    ASSUME PlantInv, NEW k, NEW f, NEW inside, NEW sorted,
           \A c \in Kids(k) : /\ Listing(f[c], inside[c], sorted)
                              /\ \A l \in inside[c] : l \in DOMAIN up /\ c \in Around[l]
    PROVE  Listing(Gathered(f, k), UNION {inside[c] : c \in Kids(k)}, sorted)
<1> DEFINE q == InOrder(Kids(k))
           seqs == [n \in DOMAIN q |-> f[q[n]]]
           sets == [n \in DOMAIN q |-> inside[q[n]]]
<1>1. Listing(q, Kids(k), TRUE)
  <2>1. Kids(k) \subseteq 0 .. Len(page)
    BY PageFacts DEF Kids, Elements
  <2> QED
    BY <2>1, PageFacts, InOrderLists
<1> HIDE DEF q
<1>2. /\ Len(q) \in Nat /\ DOMAIN q = 1 .. Len(q)
      /\ \A n \in 1 .. Len(q) : q[n] \in Kids(k)
      /\ \A c \in Kids(k) : \E n \in 1 .. Len(q) : q[n] = c
      /\ \A m, n \in 1 .. Len(q) : m < n => q[m] < q[n]
  BY <1>1 DEF Listing, Ascending
<1>3. \A n \in 1 .. Len(q) : seqs[n] = f[q[n]] /\ sets[n] = inside[q[n]]
  BY <1>2
<1>4. \A n \in 1 .. Len(q) : Listing(seqs[n], sets[n], sorted)
  <2> HIDE DEF seqs, sets
  <2> QED
    BY <1>2, <1>3
<1>5. seqs \in Seq(Seq(Nat)) /\ Len(seqs) = Len(q)
  <2>1. \A n \in 1 .. Len(q) : seqs[n] \in Seq(Nat)
    BY <1>4 DEF Listing
  <2>2. seqs \in [1 .. Len(q) -> Seq(Nat)]
    BY <1>2, <2>1
  <2> HIDE DEF seqs
  <2> QED
    BY <1>2, <2>2
<1> HIDE DEF seqs, sets
<1>6. ASSUME NEW i \in 1 .. Len(q), NEW j \in 1 .. Len(q), i < j
      PROVE  /\ sets[i] \cap sets[j] = {}
             /\ sorted => \A a \in sets[i], b \in sets[j] : a < b
  <2>1. q[i] \in Kids(k) /\ q[j] \in Kids(k) /\ q[i] < q[j]
    BY <1>2, <1>6
  <2>2. /\ q[i] \in DOMAIN up /\ q[j] \in DOMAIN up /\ up[q[i]] = up[q[j]] /\ q[j] \in Nat
    BY <2>1, KidsLater
  <2>3. ASSUME NEW a \in sets[i], NEW b \in sets[j] PROVE a < b /\ a # b
    <3>1. a \in DOMAIN up /\ q[i] \in Around[a] /\ b \in DOMAIN up /\ q[j] \in Around[b]
      BY <1>3, <2>1
    <3>2. a < q[j]
      BY <2>1, <2>2, <3>1, PageFacts, SiblingsApart
    <3>3. q[j] <= b
      BY <2>1, <3>1, KidsLater
    <3>4. a \in Nat /\ b \in Nat
      BY <3>1, PageFacts DEF Rooted
    <3> QED
      BY <2>2, <3>2, <3>3, <3>4
  <2> QED
    BY <2>3
<1>7. Listing(FlattenSeq(seqs), Joined(sets, Len(q)), sorted)
  BY <1>2, <1>4, <1>5, <1>6, FlattenLists
<1>8. Joined(sets, Len(q)) = UNION {inside[c] : c \in Kids(k)}
  BY <1>2, <1>3 DEF Joined
<1>9. Listing(FlattenSeq(seqs), UNION {inside[c] : c \in Kids(k)}, sorted)
  BY <1>7, <1>8
<1> QED
  BY <1>9 DEF Gathered, seqs, q

(* A node that holds another is an element.                                *)
LEMMA HoldersAreElements ==
    ASSUME PlantInv, NEW c \in DOMAIN up, NEW l \in DOMAIN up, c \in Around[l], c # l
    PROVE  c \in Elements
<1>1. PICK d \in DOMAIN up : up[d] = c
  BY PageFacts, InsideChild
<1>2. c # 0 /\ page[up[d]].kind # "data"
  BY <1>1, PageFacts DEF Rooted
<1> QED
  BY <1>1, <1>2 DEF Elements, IsText
-----------------------------------------------------------------------------
(* Selectors                                                               *)

(* The elements in k of the tag, k itself too.                             *)
Matches(selector, k) ==
    {l \in 0 .. Len(page) :
        TagOf[l] = selector /\ (l = k \/ (l \in Elements /\ k \in Around[l]))}

(* What find_all of k yields when f says what it yields of others.         *)
FindBody(selector, f, k) ==
    (IF TagOf[k] = selector THEN <<k>> ELSE <<>>) \o Gathered(f, k)

(* A node lists its matches if its children do.                            *)
LEMMA FindStep ==
    ASSUME PlantInv, NEW selector, NEW f, NEW k \in 0 .. Len(page),
           \A c \in Kids(k) : Listing(f[c], Matches(selector, c), TRUE)
    PROVE  Listing(FindBody(selector, f, k), Matches(selector, k), TRUE)
<1> DEFINE own == IF TagOf[k] = selector THEN {k} ELSE {}
           inside == [c \in Kids(k) |-> Matches(selector, c)]
           rest == UNION {inside[c] : c \in Kids(k)}
<1>0. Len(page) \in Nat /\ k \in Nat
  BY PageFacts
<1>1. ASSUME NEW c \in Kids(k), NEW l \in Matches(selector, c)
      PROVE  /\ l \in Elements /\ l \in DOMAIN up /\ c \in Around[l]
             /\ k < l /\ k \in Around[l] /\ TagOf[l] = selector /\ l \in 0 .. Len(page)
  <2>1. c \in Elements /\ c \in DOMAIN up /\ c \in Around[c]
    BY PageFacts, AroundEarlier DEF Kids, Elements
  <2>2. l \in Elements /\ l \in DOMAIN up /\ c \in Around[l]
    BY <2>1 DEF Matches, Elements
  <2>3. k < l /\ k \in Around[l]
    BY <2>2, KidsLater
  <2> QED
    BY <2>2, <2>3 DEF Matches
<1>2. Listing(IF TagOf[k] = selector THEN <<k>> ELSE <<>>, own, TRUE)
  BY <1>0, ListingOne, ListingEmpty
<1>3. \A c \in Kids(k) : inside[c] = Matches(selector, c)
  OBVIOUS
<1> HIDE DEF inside
<1>4. Listing(Gathered(f, k), rest, TRUE)
  <2>1. \A c \in Kids(k) : /\ Listing(f[c], inside[c], TRUE)
                           /\ \A l \in inside[c] : l \in DOMAIN up /\ c \in Around[l]
    <3> SUFFICES ASSUME NEW c \in Kids(k)
                 PROVE  /\ Listing(f[c], inside[c], TRUE)
                        /\ \A l \in inside[c] : l \in DOMAIN up /\ c \in Around[l]
      OBVIOUS
    <3>1. inside[c] = Matches(selector, c)
      BY <1>3
    <3>2. \A l \in Matches(selector, c) : l \in DOMAIN up /\ c \in Around[l]
      BY <1>1
    <3> QED
      BY <3>1, <3>2
  <2> QED
    BY <2>1, ChildLists
<1>5. \A l \in rest : \E c \in Kids(k) : l \in Matches(selector, c)
  BY <1>3
<1>6. \A l \in rest : k < l /\ l # k
  BY <1>0, <1>1, <1>5
<1>7. Matches(selector, k) = own \cup rest
  <2>1. ASSUME NEW l \in Matches(selector, k), l # k
        PROVE  l \in rest
    <3>1. l \in Elements /\ l \in DOMAIN up /\ k \in Around[l] /\ TagOf[l] = selector
          /\ l \in 0 .. Len(page)
      BY <2>1 DEF Matches, Elements
    <3>2. k \in {0} \cup DOMAIN up
      BY <3>1, PageFacts, AroundEarlier
    <3>3. PICK c \in DOMAIN up : up[c] = k /\ c \in Around[l]
      BY <2>1, <3>1, <3>2, PageFacts, InsideChild
    <3>4. c \in Kids(k)
      BY <3>1, <3>3, HoldersAreElements DEF Kids
    <3>5. l \in Matches(selector, c)
      BY <3>1, <3>3 DEF Matches
    <3> QED
      BY <1>3, <3>4, <3>5
  <2>2. k \in Matches(selector, k) => k \in own
    BY DEF Matches
  <2>3. own \subseteq Matches(selector, k)
    BY DEF Matches
  <2>4. rest \subseteq Matches(selector, k)
    BY <1>1, <1>5 DEF Matches
  <2> HIDE DEF own, rest
  <2> QED
    BY <2>1, <2>2, <2>3, <2>4
<1>8. own \cap rest = {} /\ \A a \in own, b \in rest : a < b
  BY <1>6
<1> HIDE DEF own, rest
<1>9. Listing((IF TagOf[k] = selector THEN <<k>> ELSE <<>>) \o Gathered(f, k),
              own \cup rest, TRUE)
  BY <1>2, <1>4, <1>8, ListingJoin
<1> QED
  BY <1>7, <1>9 DEF FindBody

IsFind(selector, f) == f = [k \in 0 .. Len(page) |-> FindBody(selector, f, k)]

(* so every node does,                                                     *)
LEMMA FindIs ==
    ASSUME PlantInv, NEW selector, NEW f, IsFind(selector, f)
    PROVE  \A k \in 0 .. Len(page) : Listing(f[k], Matches(selector, k), TRUE)
<1> DEFINE wrong == {k \in 0 .. Len(page) : ~ Listing(f[k], Matches(selector, k), TRUE)}
<1> SUFFICES ASSUME wrong # {} PROVE FALSE
  OBVIOUS
<1>1. PICK k \in wrong : \A l \in wrong : l <= k
  <2>1. wrong \in SUBSET (0 .. Len(page))
    OBVIOUS
  <2> HIDE DEF wrong
  <2> QED
    BY <2>1, PageFacts, GreatestElement
<1>2. k \in 0 .. Len(page) /\ ~ Listing(f[k], Matches(selector, k), TRUE)
  OBVIOUS
<1>3. f[k] = FindBody(selector, f, k)
  BY <1>2 DEF IsFind
<1>4. ASSUME NEW c \in Kids(k) PROVE Listing(f[c], Matches(selector, c), TRUE)
  <2>1. c \in 1 .. Len(page) /\ k < c /\ c \in Nat /\ k \in Nat
    BY KidsLater
  <2>2. c \in 0 .. Len(page) /\ ~(c <= k)
    BY <2>1
  <2>3. c \notin wrong
    BY <1>1, <2>2
  <2> QED
    BY <2>2, <2>3
<1>5. Listing(FindBody(selector, f, k), Matches(selector, k), TRUE)
  BY <1>2, <1>4, FindStep
<1> QED
  BY <1>2, <1>3, <1>5

(* and the recursion of find_all has a solution.                           *)
LEMMA FindExists ==
    ASSUME PlantInv, NEW selector
    PROVE  \E f : IsFind(selector, f)
<1> DEFINE f == [k \in 0 .. Len(page) |-> InOrder(Matches(selector, k))]
<1>1. \A k \in 0 .. Len(page) : Listing(InOrder(Matches(selector, k)), Matches(selector, k), TRUE)
  <2>1. \A k : Matches(selector, k) \subseteq 0 .. Len(page)
    BY DEF Matches
  <2> QED
    BY <2>1, PageFacts, InOrderLists
<1>2. \A k \in 0 .. Len(page) : f[k] = InOrder(Matches(selector, k))
  OBVIOUS
<1>3. ASSUME NEW k \in 0 .. Len(page)
      PROVE  InOrder(Matches(selector, k)) = FindBody(selector, f, k)
  <2> HIDE DEF f
  <2>1. \A c \in Kids(k) : c \in 0 .. Len(page)
    BY KidsLater
  <2>2. \A c \in Kids(k) : Listing(f[c], Matches(selector, c), TRUE)
    BY <1>1, <1>2, <2>1
  <2>3. Listing(FindBody(selector, f, k), Matches(selector, k), TRUE)
    BY <2>2, FindStep
  <2> QED
    BY <1>1, <2>3, ListingUnique
<1>4. f = [k \in 0 .. Len(page) |-> FindBody(selector, f, k)]
  BY <1>3, Zenon
<1> HIDE DEF f
<1> QED
  BY <1>4 DEF IsFind

(* On every page, however its elements nest: find_all of a node yields the *)
(* elements in it that match, each once and in the order of the page.      *)
THEOREM FoundInOrder == TreeSpec => []FoundInPageOrder
<1>1. PlantInv => FoundInPageOrder
  <2> SUFFICES ASSUME PlantInv, NEW selector \in Tags, NEW k \in {0} \cup Elements
               PROVE  FindAll(selector)[k] =
                          InOrder({l \in {m \in {0} \cup Elements : TagOf[m] = selector} :
                                      k \in Around[l]})
    BY DEF FoundInPageOrder
  <2>1. IsFind(selector, FindAll(selector))
    <3>1. \E f : IsFind(selector, f)
      BY FindExists
    <3> QED
      BY <3>1, Zenon DEF IsFind, FindBody, Gathered, Kids, FindAll
  <2> DEFINE inside == {l \in {m \in {0} \cup Elements : TagOf[m] = selector} : k \in Around[l]}
  <2>2. Len(page) \in Nat /\ k \in 0 .. Len(page) /\ inside \subseteq 0 .. Len(page)
    BY PageFacts DEF Elements
  <2>3. inside = Matches(selector, k)
    <3>1. k \in Around[k] /\ Around[0] = {0}
      BY PageFacts, AroundEarlier DEF Elements, Rooted
    <3> QED
      BY <2>2, <3>1 DEF Matches
  <2> HIDE DEF inside
  <2>4. Listing(FindAll(selector)[k], inside, TRUE)
    BY <2>1, <2>2, <2>3, FindIs
  <2>5. Listing(InOrder(inside), inside, TRUE)
    BY <2>2, InOrderLists
  <2>6. FindAll(selector)[k] = InOrder(inside)
    BY <2>4, <2>5, ListingUnique
  <2> QED
    BY <2>6 DEF inside
<1> QED
  BY <1>1, PlantInvariance, PTL
-----------------------------------------------------------------------------
(* What text() finds                                                       *)

(* The texts; those a node has itself, and all that are in it; those after *)
(* an element of the same parent, and the nodes that hold none of them     *)
Texts == {d \in DOMAIN up : IsText(d)}
Own(k) == {d \in DOMAIN up : IsText(d) /\ up[d] = k}
TextIn(k) == {d \in Texts : d # k /\ k \in Around[d]}
Mixed == {d \in Texts : \E c \in Elements : c < d /\ up[c] = up[d]}
Plain(k) == TextIn(k) \cap Mixed = {}

(* What text() of k yields when f says what it yields of others.           *)
TextBody(f, k) == InOrder(Own(k)) \o Gathered(f, k)

(* A node lists the texts in it if its children do.                        *)
LEMMA TextStep ==
    ASSUME PlantInv, NEW f, NEW k \in 0 .. Len(page),
           \A c \in Kids(k) : Listing(f[c], TextIn(c), Plain(c))
    PROVE  Listing(TextBody(f, k), TextIn(k), Plain(k))
<1> DEFINE inside == [c \in Kids(k) |-> TextIn(c)]
           rest == UNION {inside[c] : c \in Kids(k)}
<1>0. /\ Len(page) \in Nat /\ k \in Nat
      /\ \A d \in DOMAIN up : d \in 1 .. Len(page) /\ d \in Nat
  BY PageFacts
<1>1. ASSUME NEW c \in Kids(k), NEW d \in TextIn(c)
      PROVE  /\ d \in Texts /\ d \in DOMAIN up /\ c \in Around[d] /\ c <= d
             /\ k < d /\ k \in Around[d] /\ d \in TextIn(k)
  <2>1. d \in Texts /\ d \in DOMAIN up /\ c \in Around[d]
    BY DEF TextIn, Texts
  <2>2. c <= d /\ k < d /\ k \in Around[d]
    BY <2>1, KidsLater
  <2>3. d # k
    BY <1>0, <2>1, <2>2
  <2> QED
    BY <2>1, <2>2, <2>3 DEF TextIn
<1>2. Listing(InOrder(Own(k)), Own(k), TRUE)
  <2>1. Own(k) \subseteq 0 .. Len(page)
    BY <1>0 DEF Own
  <2> QED
    BY <1>0, <2>1, InOrderLists
<1>3. Listing(InOrder(Own(k)), Own(k), Plain(k))
  BY <1>2, ListingOf
<1>4. \A c \in Kids(k) : inside[c] = TextIn(c)
  OBVIOUS
<1> HIDE DEF inside
<1>5. Listing(Gathered(f, k), rest, Plain(k))
  <2>1. \A c \in Kids(k) : /\ Listing(f[c], inside[c], Plain(k))
                           /\ \A l \in inside[c] : l \in DOMAIN up /\ c \in Around[l]
    <3> SUFFICES ASSUME NEW c \in Kids(k)
                 PROVE  /\ Listing(f[c], inside[c], Plain(k))
                        /\ \A l \in inside[c] : l \in DOMAIN up /\ c \in Around[l]
      OBVIOUS
    <3>1. inside[c] = TextIn(c)
      BY <1>4
    <3>2. \A l \in TextIn(c) : l \in DOMAIN up /\ c \in Around[l]
      BY <1>1
    <3>3. Plain(k) => Plain(c)
      BY <1>1 DEF Plain
    <3>4. Listing(f[c], TextIn(c), Plain(k))
      BY <3>3, ListingOf
    <3> QED
      BY <3>1, <3>2, <3>4
  <2> QED
    BY <2>1, ChildLists
<1>6. \A d \in rest : \E c \in Kids(k) : d \in TextIn(c)
  BY <1>4
<1>7. TextIn(k) = Own(k) \cup rest
  <2>1. ASSUME NEW d \in TextIn(k), d \notin Own(k)
        PROVE  d \in rest
    <3>1. d \in Texts /\ d \in DOMAIN up /\ d # k /\ k \in Around[d] /\ IsText(d)
      BY DEF TextIn, Texts
    <3>2. k \in {0} \cup DOMAIN up
      BY <3>1, PageFacts, AroundEarlier
    <3>3. PICK c \in DOMAIN up : up[c] = k /\ c \in Around[d]
      BY <3>1, <3>2, PageFacts, InsideChild
    <3>4. c # d
      BY <2>1, <3>1, <3>3 DEF Own
    <3>5. c \in Kids(k)
      BY <3>1, <3>3, <3>4, HoldersAreElements DEF Kids
    <3>6. d \in TextIn(c)
      BY <3>1, <3>3, <3>4 DEF TextIn
    <3> QED
      BY <1>4, <3>5, <3>6
  <2>2. ASSUME NEW d \in Own(k) PROVE d \in TextIn(k)
    <3>1. d \in DOMAIN up /\ IsText(d) /\ up[d] = k
      BY DEF Own
    <3>2. /\ k \in {0} \cup DOMAIN up /\ k # d
          /\ Around[d] = {d} \cup Around[k]
      BY <1>0, <3>1, PageFacts DEF Rooted
    <3>3. k \in Around[k]
      BY <3>2, PageFacts, AroundEarlier
    <3> QED
      BY <3>1, <3>2, <3>3 DEF TextIn, Texts
  <2>3. rest \subseteq TextIn(k)
    BY <1>1, <1>6
  <2> HIDE DEF rest
  <2> QED
    BY <2>1, <2>2, <2>3
<1>8. ASSUME NEW a \in Own(k), NEW b \in rest
      PROVE  a # b /\ (Plain(k) => a < b)
  <2>1. PICK c \in Kids(k) : b \in TextIn(c)
    BY <1>6
  <2>2. c \in Elements /\ c \in DOMAIN up /\ up[c] = k /\ c \in Nat
    BY <1>0 DEF Kids, Elements
  <2>3. a \in DOMAIN up /\ IsText(a) /\ up[a] = k /\ a \in Nat
    BY <1>0 DEF Own
  <2>4. b \in DOMAIN up /\ c \in Around[b] /\ c <= b /\ b \in Nat
    BY <1>0, <1>1, <2>1
  <2>5. a # c
    BY <2>2, <2>3 DEF Elements
  <2>6. a # b
    <3> SUFFICES ASSUME a = b PROVE FALSE
      OBVIOUS
    <3>1. Around[a] = {a} \cup Around[k]
      BY <2>3, PageFacts DEF Rooted
    <3>2. c \in Around[k]
      BY <2>4, <2>5, <3>1
    <3>3. k \in {0} \cup DOMAIN up /\ k < c
      BY <2>2, PageFacts DEF Rooted
    <3>4. c <= k
      BY <3>2, <3>3, PageFacts, AroundEarlier
    <3> QED
      BY <1>0, <2>2, <3>3, <3>4
  <2>7. ASSUME Plain(k) PROVE a < b
    <3>1. a \in TextIn(k)
      BY <1>7
    <3>2. a \notin Mixed
      BY <2>7, <3>1 DEF Plain
    <3>3. ~(c < a)
      BY <2>2, <2>3, <3>2 DEF Mixed, Texts
    <3> QED
      BY <2>2, <2>3, <2>4, <2>5, <3>3
  <2> QED
    BY <2>6, <2>7
<1>9. Own(k) \cap rest = {} /\ (Plain(k) => \A a \in Own(k), b \in rest : a < b)
  BY <1>8
<1> HIDE DEF rest
<1>10. Listing(InOrder(Own(k)) \o Gathered(f, k), Own(k) \cup rest, Plain(k))
  BY <1>3, <1>5, <1>9, ListingJoin
<1> QED
  BY <1>7, <1>10 DEF TextBody

IsTextFn(f) == f = [k \in 0 .. Len(page) |-> TextBody(f, k)]

(* so every node does.                                                     *)
LEMMA TextIs ==
    ASSUME PlantInv, NEW f, IsTextFn(f)
    PROVE  \A k \in 0 .. Len(page) : Listing(f[k], TextIn(k), Plain(k))
<1> DEFINE wrong == {k \in 0 .. Len(page) : ~ Listing(f[k], TextIn(k), Plain(k))}
<1> SUFFICES ASSUME wrong # {} PROVE FALSE
  OBVIOUS
<1>1. PICK k \in wrong : \A l \in wrong : l <= k
  <2>1. wrong \in SUBSET (0 .. Len(page))
    OBVIOUS
  <2> HIDE DEF wrong
  <2> QED
    BY <2>1, PageFacts, GreatestElement
<1>2. k \in 0 .. Len(page) /\ ~ Listing(f[k], TextIn(k), Plain(k))
  OBVIOUS
<1>3. f[k] = TextBody(f, k)
  BY <1>2 DEF IsTextFn
<1>4. ASSUME NEW c \in Kids(k) PROVE Listing(f[c], TextIn(c), Plain(c))
  <2>1. c \in 1 .. Len(page) /\ k < c /\ c \in Nat /\ k \in Nat
    BY KidsLater
  <2>2. c \in 0 .. Len(page) /\ ~(c <= k)
    BY <2>1
  <2>3. c \notin wrong
    BY <1>1, <2>2
  <2> QED
    BY <2>2, <2>3
<1>5. Listing(TextBody(f, k), TextIn(k), Plain(k))
  BY <1>2, <1>4, TextStep
<1> QED
  BY <1>2, <1>3, <1>5

(* What a node yields depends on what its children do.                     *)
LEMMA GatheredSame ==
    ASSUME PlantInv, NEW k, NEW f, NEW g, \A c \in Kids(k) : g[c] = f[c]
    PROVE  Gathered(g, k) = Gathered(f, k)
<1> DEFINE q == InOrder(Kids(k))
<1>1. Listing(q, Kids(k), TRUE)
  <2>1. Kids(k) \subseteq 0 .. Len(page)
    BY PageFacts DEF Kids, Elements
  <2> QED
    BY <2>1, PageFacts, InOrderLists
<1> HIDE DEF q
<1>2. \A n \in DOMAIN q : q[n] \in Kids(k)
  BY <1>1 DEF Listing
<1>3. \A n \in DOMAIN q : g[q[n]] = f[q[n]]
  BY <1>2
<1>4. [n \in DOMAIN q |-> g[q[n]]] = [n \in DOMAIN q |-> f[q[n]]]
  BY <1>3, Zenon
<1> QED
  BY <1>4 DEF Gathered, q

(* The texts of the nodes from m on                                        *)
TextFrom(f, m) ==
    f = [k \in 0 .. Len(page) |-> IF m <= k THEN TextBody(f, k) ELSE <<>>]

(* The recursion of text() has a solution: from the last node back.        *)
LEMMA TextExists ==
    ASSUME PlantInv
    PROVE  \E f : IsTextFn(f)
<1> DEFINE T == {m \in 0 .. Here : \E f : TextFrom(f, m)}
<1>0. Len(page) \in Nat /\ Here = Len(page) + 1 /\ Here \in Nat
  BY PageFacts DEF Here
<1>1. Here \in T
  <2> DEFINE f == [k \in 0 .. Len(page) |-> <<>>]
  <2>1. \A k \in 0 .. Len(page) : ~(Here <= k)
    BY <1>0
  <2>2. \A k \in 0 .. Len(page) : <<>> = IF Here <= k THEN TextBody(f, k) ELSE <<>>
    BY <2>1, Zenon
  <2>3. f = [k \in 0 .. Len(page) |-> IF Here <= k THEN TextBody(f, k) ELSE <<>>]
    BY <2>2, Zenon
  <2> HIDE DEF f
  <2>4. TextFrom(f, Here)
    BY <2>3 DEF TextFrom
  <2>5. Here \in 0 .. Here
    BY <1>0
  <2> QED
    BY <2>4, <2>5
<1>2. PICK m \in T : \A l \in T : m <= l
  <2>1. T \in SUBSET Nat /\ T # {}
    BY <1>1
  <2> HIDE DEF T
  <2> QED
    BY <2>1, LeastElement
<1>3. PICK f : TextFrom(f, m)
  OBVIOUS
<1>4. m \in 0 .. Here /\ m \in Nat
  BY <1>0
<1>5. \A k \in 0 .. Len(page) : f[k] = IF m <= k THEN TextBody(f, k) ELSE <<>>
  BY <1>3 DEF TextFrom
<1>6. m = 0
  <2> SUFFICES ASSUME m # 0 PROVE FALSE
    OBVIOUS
  <2> DEFINE g == [k \in 0 .. Len(page) |-> IF k = m - 1 THEN TextBody(f, k) ELSE f[k]]
  <2>0. m - 1 \in 0 .. Here /\ m - 1 \in 0 .. Len(page) /\ m - 1 \in Nat
    BY <1>0, <1>4
  <2>1. \A k \in 0 .. Len(page) : g[k] = IF k = m - 1 THEN TextBody(f, k) ELSE f[k]
    OBVIOUS
  <2>2. ASSUME NEW k \in 0 .. Len(page), m - 1 <= k
        PROVE  TextBody(g, k) = TextBody(f, k)
    <3> HIDE DEF g
    <3>1. ASSUME NEW c \in Kids(k) PROVE g[c] = f[c]
      <4>1. c \in 1 .. Len(page) /\ k < c /\ c \in Nat /\ k \in Nat
        BY KidsLater
      <4>2. c # m - 1 /\ c \in 0 .. Len(page)
        BY <2>0, <2>2, <4>1
      <4> QED
        BY <2>1, <4>2
    <3>2. Gathered(g, k) = Gathered(f, k)
      BY <3>1, GatheredSame
    <3> QED
      BY <3>2 DEF TextBody
  <2>3. ASSUME NEW k \in 0 .. Len(page)
        PROVE  (IF k = m - 1 THEN TextBody(f, k) ELSE f[k])
                   = IF m - 1 <= k THEN TextBody(g, k) ELSE <<>>
    <3> HIDE DEF g
    <3>1. CASE k = m - 1
      <4>1. m - 1 <= k
        BY <2>0, <3>1
      <4> QED
        BY <2>2, <3>1, <4>1
    <3>2. CASE k # m - 1
      <4>1. m <= k <=> m - 1 <= k
        BY <1>4, <2>0, <3>2
      <4> QED
        BY <1>5, <2>2, <3>2, <4>1
    <3> QED
      BY <3>1, <3>2
  <2>4. g = [k \in 0 .. Len(page) |-> IF m - 1 <= k THEN TextBody(g, k) ELSE <<>>]
    BY <2>3, Zenon
  <2> HIDE DEF g
  <2>5. TextFrom(g, m - 1)
    BY <2>4 DEF TextFrom
  <2>6. m - 1 \in T
    BY <2>0, <2>5
  <2> HIDE DEF T
  <2>7. m <= m - 1
    BY <1>2, <2>6
  <2> QED
    BY <1>4, <2>7
<1>7. \A k \in 0 .. Len(page) : m <= k
  BY <1>6
<1>8. f = [k \in 0 .. Len(page) |-> TextBody(f, k)]
  <2>1. \A k \in 0 .. Len(page) :
            (IF m <= k THEN TextBody(f, k) ELSE <<>>) = TextBody(f, k)
    BY <1>7, Zenon
  <2>2. f = [k \in 0 .. Len(page) |-> IF m <= k THEN TextBody(f, k) ELSE <<>>]
    BY <1>3 DEF TextFrom
  <2>3. [k \in 0 .. Len(page) |-> IF m <= k THEN TextBody(f, k) ELSE <<>>]
            = [k \in 0 .. Len(page) |-> TextBody(f, k)]
    BY <2>1, Zenon
  <2> QED
    BY <2>2, <2>3, Zenon
<1> QED
  BY <1>8 DEF IsTextFn

(* On every page, however its elements nest: text() of a node has each     *)
(* text in it once, and in the order of the page unless one of them        *)
(* follows an element within the same parent.                              *)
THEOREM TextKept == TreeSpec => []TextIsComplete
<1>1. PlantInv => TextIsComplete
  <2> SUFFICES ASSUME PlantInv PROVE TextIsComplete
    OBVIOUS
  <2>1. IsTextFn(Text)
    <3>1. \E f : IsTextFn(f)
      BY TextExists
    <3> QED
      BY <3>1, Zenon DEF IsTextFn, TextBody, Own, Gathered, Kids, Text
  <2>2. ASSUME NEW k \in {0} \cup Elements
        PROVE  LET inside == {d \in Texts : k \in Around[d]}
               IN  /\ Len(Text[k]) = Cardinality(inside)
                   /\ {Text[k][n] : n \in DOMAIN Text[k]} = inside
                   /\ inside \cap Mixed = {} => Text[k] = InOrder(inside)
    <3> DEFINE inside == {d \in Texts : k \in Around[d]}
    <3>1. inside = TextIn(k)
      BY DEF TextIn, Texts, Elements, IsText
    <3>2. /\ Len(page) \in Nat /\ k \in 0 .. Len(page)
          /\ inside \subseteq 0 .. Len(page)
      BY PageFacts DEF Elements, Texts
    <3> HIDE DEF inside
    <3>3. Listing(Text[k], inside, Plain(k))
      BY <2>1, <3>1, <3>2, TextIs
    <3>4. Len(Text[k]) = Cardinality(inside)
      BY <3>3, ListingLength
    <3>5. {Text[k][n] : n \in DOMAIN Text[k]} = inside
      BY <3>3 DEF Listing
    <3>6. ASSUME inside \cap Mixed = {} PROVE Text[k] = InOrder(inside)
      <4>1. Plain(k)
        BY <3>1, <3>6 DEF Plain
      <4>2. Listing(Text[k], inside, TRUE)
        BY <3>3, <4>1, ListingOf
      <4>3. Listing(InOrder(inside), inside, TRUE)
        BY <3>2, InOrderLists
      <4> QED
        BY <4>2, <4>3, ListingUnique
    <3> QED
      BY <3>4, <3>5, <3>6 DEF inside
  <2> QED
    BY <2>2 DEF TextIsComplete, Texts, Mixed
<1> QED
  BY <1>1, PlantInvariance, PTL
=============================================================================
