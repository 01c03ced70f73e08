-------------------------- MODULE DocumentsProofs --------------------------
(***************************************************************************)
(* What holds of parse_xmldata and processRSSList for every document, with *)
(* nodes of any elements in any order, and any filters: the items are what *)
(* the nodes describe, what is done about an item depends on it alone, and *)
(* a file holds the torrent that was saved in it.                          *)
(***************************************************************************)
EXTENDS Documents, Induction, FiniteSetTheorems, SequenceTheorems

-----------------------------------------------------------------------------
(***************************************************************************)
(* What the elements of a node describe, one element after the other.      *)
(***************************************************************************)
\* The elements before one of them.
Start(node, c) == [k \in 1..c - 1 |-> node[k]]

\* Those of them that have a text for a field, and those that enclose one.
TextsAt(node, c, name) ==
    {k \in 1..c - 1 : node[k].name = name /\ node[k].text # NULL}

TorrentsAt(node, c) ==
    {k \in 1..c - 1 : node[k].name = "enclosure" /\ IsTorrent(node[k])}

\* What is described up to there, in terms of the node.
LEMMA StartDescribes ==
    ASSUME NEW node, NEW c \in Nat \ {0}
    PROVE  /\ \A name : FirstText(Start(node, c), name) =
                LET at == TextsAt(node, c, name)
                IN  IF at = {} THEN NULL ELSE node[Min(at)].text
           /\ Described(Start(node, c)).url =
                LET at == TorrentsAt(node, c)
                IN  IF at # {} THEN UrlOf(node[Max(at)])
                    ELSE FirstText(Start(node, c), "link")
<1> DEFINE s == Start(node, c)
<1>1. DOMAIN s = 1..c - 1 /\ \A k \in 1..c - 1 : s[k] = node[k]
  BY DEF Start
<1> HIDE DEF s
<1>2. ASSUME NEW name
      PROVE  FirstText(s, name) =
                LET at == TextsAt(node, c, name)
                IN  IF at = {} THEN NULL ELSE node[Min(at)].text
  <2> DEFINE at == TextsAt(node, c, name)
  <2>1. {k \in DOMAIN s : s[k].name = name /\ s[k].text # NULL} = at
    BY <1>1 DEF TextsAt
  <2>2. FirstText(s, name) = IF at = {} THEN NULL ELSE s[Min(at)].text
    BY <2>1, Zenon DEF FirstText
  <2>3. at # {} => Min(at) \in at
    <3>1. at \subseteq Nat
      BY DEF TextsAt
    <3> QED
      BY <3>1, MinIsLeast
  <2>4. at \subseteq 1..c - 1
    BY DEF TextsAt
  <2> HIDE DEF at
  <2>5. at # {} => s[Min(at)] = node[Min(at)]
    BY <1>1, <2>3, <2>4
  <2> QED
    BY <2>2, <2>5 DEF at
<1>3. Described(s).url =
        LET at == TorrentsAt(node, c)
        IN  IF at # {} THEN UrlOf(node[Max(at)]) ELSE FirstText(s, "link")
  <2> DEFINE at == TorrentsAt(node, c)
  <2>1. {k \in DOMAIN s : s[k].name = "enclosure" /\ IsTorrent(s[k])} = at
    BY <1>1 DEF TorrentsAt
  <2>2. Described(s).url = IF at # {} THEN UrlOf(s[Max(at)])
                           ELSE FirstText(s, "link")
    BY <2>1 DEF Described
  <2>3. at # {} => Max(at) \in at
    <3>1. at \subseteq 0..c - 1 /\ c - 1 \in Nat
      BY DEF TorrentsAt
    <3> HIDE DEF at
    <3> QED
      BY <3>1, MaxIsGreatest
  <2>4. at \subseteq 1..c - 1
    BY DEF TorrentsAt
  <2> HIDE DEF at
  <2>5. at # {} => s[Max(at)] = node[Max(at)]
    BY <1>1, <2>3, <2>4
  <2> QED
    BY <2>2, <2>5 DEF at
<1> QED
  BY <1>2, <1>3 DEF s

\* One more element gives a text to a field that has none.
LEMMA TextGrows ==
    ASSUME NEW node, NEW c \in Nat \ {0}, NEW name
    PROVE  FirstText(Start(node, c + 1), name) =
             IF FirstText(Start(node, c), name) # NULL
             THEN FirstText(Start(node, c), name)
             ELSE IF node[c].name = name THEN node[c].text ELSE NULL
<1> DEFINE at   == TextsAt(node, c, name)
           next == TextsAt(node, c + 1, name)
<1>1. /\ FirstText(Start(node, c), name) =
            IF at = {} THEN NULL ELSE node[Min(at)].text
      /\ FirstText(Start(node, c + 1), name) =
            IF next = {} THEN NULL ELSE node[Min(next)].text
  BY StartDescribes, c + 1 \in Nat \ {0}, Zenon
<1>2. next = IF node[c].name = name /\ node[c].text # NULL
             THEN at \cup {c} ELSE at
  BY DEF TextsAt
<1>6. at \subseteq next /\ next \subseteq at \cup {c}
  BY DEF TextsAt
<1>3. at \subseteq 1..c - 1 /\ \A k \in at : node[k].text # NULL
  BY DEF TextsAt
<1> HIDE DEF at, next
<1>4. CASE at = {}
  <2>1. next # {} => next = {c} /\ Min(next) \in next
    <3>1. next \subseteq Nat
      BY <1>2, <1>3
    <3> QED
      BY <1>2, <1>4, <3>1, MinIsLeast
  <2> QED
    BY <1>1, <1>2, <1>4, <2>1
<1>5. CASE at # {}
  <2>1. at \subseteq Nat /\ next \subseteq Nat /\ next # {}
    BY <1>2, <1>3, <1>5
  <2>2. Min(at) \in at /\ \A y \in at : Min(at) <= y
    BY <1>5, <2>1, MinIsLeast
  <2>3. Min(next) \in next /\ \A y \in next : Min(next) <= y
    BY <2>1, MinIsLeast
  <2>4. Min(at) \in next /\ Min(at) \in 1..c - 1
    BY <1>6, <1>3, <2>2
  <2>5. Min(next) \in Nat /\ Min(next) <= Min(at)
    BY <2>1, <2>3, <2>4
  <2>6. Min(next) \in at
    BY <1>6, <2>3, <2>4, <2>5
  <2>7. Min(at) <= Min(next)
    BY <2>2, <2>6
  <2>8. Min(next) = Min(at)
    BY <2>4, <2>5, <2>7
  <2> QED
    BY <1>1, <1>3, <1>5, <2>1, <2>2, <2>8
<1> QED
  BY <1>4, <1>5

\* One more torrent that is enclosed is the one that counts.
LEMMA UrlGrows ==
    ASSUME NEW node, NEW c \in Nat \ {0}
    PROVE  /\ Described(Start(node, c + 1)).url =
                IF node[c].name = "enclosure" /\ IsTorrent(node[c])
                THEN UrlOf(node[c])
                ELSE IF TorrentsAt(node, c) # {}
                     THEN Described(Start(node, c)).url
                     ELSE FirstText(Start(node, c + 1), "link")
           /\ TorrentsAt(node, c) # {} =>
                Described(Start(node, c)).url # NULL
<1> DEFINE at   == TorrentsAt(node, c)
           next == TorrentsAt(node, c + 1)
<1>1. /\ Described(Start(node, c)).url =
            IF at # {} THEN UrlOf(node[Max(at)])
            ELSE FirstText(Start(node, c), "link")
      /\ Described(Start(node, c + 1)).url =
            IF next # {} THEN UrlOf(node[Max(next)])
            ELSE FirstText(Start(node, c + 1), "link")
  BY StartDescribes, c + 1 \in Nat \ {0}, Zenon
<1>2. /\ at \subseteq 1..c - 1 /\ next \subseteq 1..c
      /\ at \subseteq next /\ next \subseteq at \cup {c}
      /\ c \in next <=> node[c].name = "enclosure" /\ IsTorrent(node[c])
      /\ \A k \in at : IsTorrent(node[k])
  BY DEF TorrentsAt
<1>3. at \subseteq 0..c /\ next \subseteq 0..c
  BY <1>2
<1> HIDE DEF at, next
<1>4. next # {} => Max(next) \in next /\ \A y \in next : y <= Max(next)
  BY <1>3, MaxIsGreatest
<1>5. at # {} => Max(at) \in at /\ \A y \in at : y <= Max(at)
  BY <1>3, MaxIsGreatest
<1>6. CASE c \in next
  <2>1. Max(next) \in 1..c /\ c <= Max(next)
    BY <1>2, <1>4, <1>6
  <2>2. Max(next) = c
    BY <2>1
  <2> QED
    BY <1>1, <1>2, <1>5, <1>6, <2>2 DEF at, IsTorrent
<1>7. CASE c \notin next
  <2>1. next = at
    BY <1>2, <1>7
  <2> QED
    BY <1>1, <1>2, <1>5, <1>7, <2>1 DEF at, IsTorrent
<1> QED
  BY <1>6, <1>7

\* What one more element makes of an item.
With(it, e) ==
    [name     |-> IF it.name = NULL /\ e.name = "title"
                  THEN e.text ELSE it.name,
     category |-> IF it.category = NULL /\ e.name = "category"
                  THEN e.text ELSE it.category,
     guid     |-> IF it.guid = NULL /\ e.name = "guid"
                  THEN e.text ELSE it.guid,
     url      |-> IF e.name = "enclosure" /\ IsTorrent(e) THEN UrlOf(e)
                  ELSE IF it.url = NULL /\ e.name = "link"
                       THEN e.text ELSE it.url]

\* One more element makes of the item so far what With says.
LEMMA ElementByElement ==
    ASSUME NEW node, NEW c \in Nat \ {0}
    PROVE  Described(Start(node, c + 1)) =
             With(Described(Start(node, c)), node[c])
<1> DEFINE d == Described(Start(node, c))
           n == Described(Start(node, c + 1))
<1>1. /\ d.name = FirstText(Start(node, c), "title")
      /\ d.category = FirstText(Start(node, c), "category")
      /\ d.guid = FirstText(Start(node, c), "guid")
  BY DEF Described
<1>2. n = [name     |-> FirstText(Start(node, c + 1), "title"),
           category |-> FirstText(Start(node, c + 1), "category"),
           guid     |-> FirstText(Start(node, c + 1), "guid"),
           url      |-> n.url]
  BY DEF Described
<1>3. /\ n.url = IF node[c].name = "enclosure" /\ IsTorrent(node[c])
                 THEN UrlOf(node[c])
                 ELSE IF TorrentsAt(node, c) # {} THEN d.url
                      ELSE FirstText(Start(node, c + 1), "link")
      /\ TorrentsAt(node, c) # {} => d.url # NULL
  BY UrlGrows
<1>4. TorrentsAt(node, c) = {} => d.url = FirstText(Start(node, c), "link")
  BY StartDescribes
<1> HIDE DEF d, n
<1>5. FirstText(Start(node, c + 1), "title") =
        IF d.name = NULL /\ node[c].name = "title"
        THEN node[c].text ELSE d.name
  BY <1>1, TextGrows
<1>6. FirstText(Start(node, c + 1), "category") =
        IF d.category = NULL /\ node[c].name = "category"
        THEN node[c].text ELSE d.category
  BY <1>1, TextGrows
<1>7. FirstText(Start(node, c + 1), "guid") =
        IF d.guid = NULL /\ node[c].name = "guid"
        THEN node[c].text ELSE d.guid
  BY <1>1, TextGrows
<1>8. n.url = IF node[c].name = "enclosure" /\ IsTorrent(node[c])
              THEN UrlOf(node[c])
              ELSE IF d.url = NULL /\ node[c].name = "link"
                   THEN node[c].text ELSE d.url
  BY <1>3, <1>4, TextGrows
<1> QED
  BY <1>2, <1>5, <1>6, <1>7, <1>8 DEF With, n, d

\* Nothing is described by no element, and the whole by all of them.
LEMMA FirstAndLast ==
    /\ \A node : Described(Start(node, 1)) = newFeedItem
    /\ \A S : \A node \in Seq(S) : Start(node, Len(node) + 1) = node
<1>1. ASSUME NEW node PROVE Described(Start(node, 1)) = newFeedItem
  <2>1. \A name : TextsAt(node, 1, name) = {}
    BY DEF TextsAt
  <2>2. TorrentsAt(node, 1) = {}
    BY DEF TorrentsAt
  <2>3. \A name : FirstText(Start(node, 1), name) = NULL
    BY <2>1, StartDescribes
  <2>4. Described(Start(node, 1)).url = NULL
    BY <2>2, <2>3, StartDescribes
  <2> DEFINE d == Described(Start(node, 1))
  <2>5. d = [name     |-> FirstText(Start(node, 1), "title"),
             category |-> FirstText(Start(node, 1), "category"),
             guid     |-> FirstText(Start(node, 1), "guid"),
             url      |-> d.url]
    BY DEF Described
  <2> QED
    BY <2>3, <2>4, <2>5 DEF newFeedItem
<1>2. ASSUME NEW S, NEW node \in Seq(S)
      PROVE  Start(node, Len(node) + 1) = node
  BY DEF Start
<1> QED
  BY <1>1, <1>2

-----------------------------------------------------------------------------
(***************************************************************************)
(* The list of items, one node after the other.                            *)
(***************************************************************************)
IsComplete(node) ==
    Described(node).name # NULL /\ Described(node).url # NULL

CompleteBefore(nodes, n) == {k \in 1..n - 1 : IsComplete(nodes[k])}

\* The complete nodes from one of them on.
Behind(nodes, n, k) == {l \in CompleteBefore(nodes, n) : l >= k}

\* The list that the nodes before n make.
IsListOf(nodes, n, list) ==
    /\ list \in Seq({Described(nodes[k]) : k \in CompleteBefore(nodes, n)})
    /\ Len(list) = Cardinality(CompleteBefore(nodes, n))
    /\ \A k \in CompleteBefore(nodes, n) :
         list[Cardinality(Behind(nodes, n, k))] = Described(nodes[k])

\* How many there are.
LEMMA BehindIsFinite ==
    ASSUME NEW nodes, NEW n \in Nat \ {0}, NEW k
    PROVE  /\ IsFiniteSet(CompleteBefore(nodes, n))
           /\ IsFiniteSet(Behind(nodes, n, k))
           /\ Cardinality(CompleteBefore(nodes, n)) \in Nat
           /\ Cardinality(Behind(nodes, n, k)) \in Nat
           /\ Cardinality(Behind(nodes, n, k))
                <= Cardinality(CompleteBefore(nodes, n))
           /\ k \in CompleteBefore(nodes, n) =>
                Cardinality(Behind(nodes, n, k)) # 0
<1>1. IsFiniteSet(1..n - 1)
  BY FS_Interval
<1>2. CompleteBefore(nodes, n) \in SUBSET (1..n - 1)
  BY DEF CompleteBefore
<1>3. Behind(nodes, n, k) \in SUBSET CompleteBefore(nodes, n)
  BY DEF Behind
<1>4. k \in CompleteBefore(nodes, n) => k \in Behind(nodes, n, k)
  BY DEF Behind, CompleteBefore
<1>5. IsFiniteSet(CompleteBefore(nodes, n))
  BY <1>1, <1>2, FS_Subset
<1>6. IsFiniteSet(Behind(nodes, n, k))
      /\ Cardinality(Behind(nodes, n, k))
           <= Cardinality(CompleteBefore(nodes, n))
  BY <1>3, <1>5, FS_Subset
<1> QED
  BY <1>4, <1>5, <1>6, FS_CardinalityType, FS_EmptySet

\* addItem puts a complete node in front, any other changes nothing.
LEMMA ListGrows ==
    ASSUME NEW nodes, NEW n \in Nat \ {0}, NEW list, IsListOf(nodes, n, list)
    PROVE  IsListOf(nodes, n + 1,
                    IF IsComplete(nodes[n])
                    THEN <<Described(nodes[n])>> \o list ELSE list)
<1> DEFINE before == CompleteBefore(nodes, n)
           next   == CompleteBefore(nodes, n + 1)
           S == {Described(nodes[k]) : k \in before}
           T == {Described(nodes[k]) : k \in next}
           d == Described(nodes[n])
<1>1. S \subseteq T /\ (IsComplete(nodes[n]) => d \in T)
  BY DEF S, T, CompleteBefore
<1>2. list \in Seq(S) /\ Len(list) = Cardinality(before)
  BY DEF IsListOf
<1>3. list \in Seq(T)
  BY <1>1, <1>2, SeqDef
<1>4. /\ \A k \in before :
           list[Cardinality(Behind(nodes, n, k))] = Described(nodes[k])
      /\ IsFiniteSet(before)
  BY BehindIsFinite DEF IsListOf
<1>7. before \subseteq 1..n - 1 /\ n \notin before
  BY DEF CompleteBefore
<1>8. next = IF IsComplete(nodes[n]) THEN before \cup {n} ELSE before
  BY DEF CompleteBefore
<1>5. CASE ~IsComplete(nodes[n])
  <2>1. next = before
    BY <1>5, <1>8
  <2>2. \A k : Behind(nodes, n + 1, k) = Behind(nodes, n, k)
    BY <2>1 DEF Behind
  <2> QED
    BY <1>2, <1>3, <1>4, <1>5, <2>1, <2>2 DEF IsListOf
<1>6. CASE IsComplete(nodes[n])
  <2> DEFINE longer == <<d>> \o list
  <2>1. next = before \cup {n}
    BY <1>6, <1>8
  <2> HIDE DEF T, d
  <2>2. /\ longer \in Seq(T) /\ Len(longer) = Len(list) + 1
        /\ longer[1] = d
        /\ \A k \in 1..Len(list) : longer[k + 1] = list[k]
    BY <1>1, <1>3, <1>6
  <2>3. Len(longer) = Cardinality(next)
    BY <1>2, <1>4, <1>7, <2>1, <2>2, FS_AddElement
  <2>4. ASSUME NEW k \in before
        PROVE  longer[Cardinality(Behind(nodes, n + 1, k))]
                 = Described(nodes[k])
    <3>1. Behind(nodes, n + 1, k) = Behind(nodes, n, k) \cup {n}
      BY <1>7, <2>1 DEF Behind
    <3>2. n \notin Behind(nodes, n, k)
      BY <1>7 DEF Behind
    <3>3. Cardinality(Behind(nodes, n + 1, k))
            = Cardinality(Behind(nodes, n, k)) + 1
      BY <3>1, <3>2, BehindIsFinite, FS_AddElement
    <3>4. Cardinality(Behind(nodes, n, k)) \in 1..Len(list)
      BY <1>2, BehindIsFinite
    <3> QED
      BY <1>4, <2>2, <3>3, <3>4
  <2>5. longer[Cardinality(Behind(nodes, n + 1, n))] = d
    <3>1. Behind(nodes, n + 1, n) = {n}
      BY <1>7, <2>1 DEF Behind
    <3> QED
      BY <2>2, <3>1, FS_Singleton
  <2>6. \A k \in next : longer[Cardinality(Behind(nodes, n + 1, k))]
                         = Described(nodes[k])
    BY <2>1, <2>4, <2>5 DEF d
  <2> HIDE DEF longer
  <2>7. IsListOf(nodes, n + 1, longer)
    BY <2>2, <2>3, <2>6 DEF IsListOf, T
  <2> QED
    BY <1>6, <2>7 DEF longer, d
<1> QED
  BY <1>5, <1>6

\* No node makes no list; what all of them make is what is meant.
LEMMA ListsOfNodes ==
    ASSUME NEW S, NEW nodes \in Seq(S)
    PROVE  /\ IsListOf(nodes, 1, <<>>)
           /\ CompleteBefore(nodes, Len(nodes) + 1) =
                {k \in 1..Len(nodes) : IsComplete(nodes[k])}
<1>1. CompleteBefore(nodes, 1) = {}
  BY DEF CompleteBefore
<1>2. IsListOf(nodes, 1, <<>>)
  BY <1>1, FS_EmptySet, EmptySeq DEF IsListOf
<1>3. Len(nodes) + 1 - 1 = Len(nodes)
  OBVIOUS
<1> QED
  BY <1>2, <1>3 DEF CompleteBefore

-----------------------------------------------------------------------------
(***************************************************************************)
(* extract_feed_items.                                                     *)
(***************************************************************************)
Places ==
    {"ttl", "node", "child", "list", "found", "done", "aborted", "overrun"}

\* The list of the items is made.
Listed == {"list", "found", "done", "overrun"}

\* The strengthening: the item that is put together is what the elements so
\* far describe, the flags say which of its fields are set, and the list is
\* that of the nodes so far.
Reading ==
    /\ input \in Inputs
    /\ pc \in Places
    /\ i \in Nat \ {0} /\ i <= Len(input.nodes) + 1
    /\ IsListOf(input.nodes, i, itemList)
    /\ pc = "child" =>
         /\ i <= Len(input.nodes)
         /\ child \in Nat \ {0} /\ child <= Len(input.nodes[i]) + 1
         /\ item = Described(Start(input.nodes[i], child))
         /\ name_set <=> item.name # NULL
         /\ url_set <=> item.url # NULL
    /\ pc \in Listed => i = Len(input.nodes) + 1
    /\ AbortsAreKnown

\* An input has nodes and filters.
LEMMA InputsHaveNodes ==
    ASSUME NEW in \in Inputs
    PROVE  /\ in.nodes \in Seq(Seq(Elements)) /\ in.filters \in Seq(Filters)
           /\ Len(in.nodes) \in Nat
           /\ \A n \in 1..Len(in.nodes) :
                /\ in.nodes[n] \in Seq(Elements) /\ Len(in.nodes[n]) \in Nat
                /\ \A k \in 1..Len(in.nodes[n]) : in.nodes[n][k] \in Elements
BY InputsAssumption, LenProperties, ElementOfSeq

\* What is described is an item.
LEMMA DescribedIsItem ==
    ASSUME NEW node, NEW it, it = Described(node)
    PROVE  it = [name |-> it.name, category |-> it.category,
                 guid |-> it.guid, url |-> it.url]
BY DEF Described

\* A step of the loop over the children.
ReadElement ==
    ReadTitle \/ ReadLink \/ ReadCategory \/ ReadGuid \/ ReadEnclosure
    \/ ReadOther

\* An element is read in full, and the flags follow the fields.
LEMMA ElementIsRead ==
    ASSUME Reading, ReadElement, pc' # "aborted"
    PROVE  /\ pc = "child" /\ pc' = "child"
           /\ child <= Len(input.nodes[i]) /\ child' = child + 1
           /\ item' = With(item, input.nodes[i][child])
           /\ name_set' <=> item'.name # NULL
           /\ url_set' <=> item'.url # NULL
           /\ UNCHANGED <<input, i, itemList, listVars>>
<1> PICK e : e = input.nodes[i][child]
  OBVIOUS
<1> SUFFICES /\ pc = "child" /\ pc' = "child"
             /\ child <= Len(input.nodes[i]) /\ child' = child + 1
             /\ item' = With(item, e)
             /\ name_set' <=> item'.name # NULL
             /\ url_set' <=> item'.url # NULL
             /\ UNCHANGED <<input, i, itemList, listVars>>
  OBVIOUS
<1>1. pc = "child"
  BY DEF ReadElement, ReadTitle, ReadLink, ReadCategory, ReadGuid,
         ReadEnclosure, ReadOther, AtChild
<1>2. /\ name_set <=> item.name # NULL
      /\ url_set <=> item.url # NULL
  BY <1>1 DEF Reading
<1>3. item = [name |-> item.name, category |-> item.category,
              guid |-> item.guid, url |-> item.url]
  BY <1>1, DescribedIsItem DEF Reading
<1>4. Element = e /\ (IsTorrent(e) => UrlOf(e) # NULL)
  BY DEF Element, Nodes, IsTorrent
<1>5. CASE ReadTitle
  BY <1>1, <1>2, <1>3, <1>4, <1>5
     DEF ReadTitle, AtChild, Nodes, Reads, Skips, With
<1>6. CASE ReadLink
  BY <1>1, <1>2, <1>3, <1>4, <1>6
     DEF ReadLink, AtChild, Nodes, Reads, Skips, With, TakesLink
<1>7. CASE ReadCategory
  BY <1>1, <1>2, <1>3, <1>4, <1>7
     DEF ReadCategory, AtChild, Nodes, Reads, Skips, With
<1>8. CASE ReadGuid
  BY <1>1, <1>2, <1>3, <1>4, <1>8
     DEF ReadGuid, AtChild, Nodes, Reads, Skips, With, TakesGuid
<1>9. CASE ReadEnclosure
  BY <1>1, <1>2, <1>3, <1>4, <1>9
     DEF ReadEnclosure, AtChild, Nodes, Reads, Skips, With
<1>10. CASE ReadOther
  BY <1>1, <1>2, <1>3, <1>4, <1>10
     DEF ReadOther, AtChild, Nodes, Reads, Skips, With
<1> QED
  BY <1>5, <1>6, <1>7, <1>8, <1>9, <1>10 DEF ReadElement

\* Only an enclosure of a type and a content can fail the assertion.
LEMMA AssertionFails ==
    ASSUME Reading, ReadElement, pc' = "aborted"
    PROVE  /\ pc = "child" /\ child <= Len(input.nodes[i]) /\ input.asserts
           /\ TypeIsSet(input.nodes[i][child])
           /\ UNCHANGED <<input, i, itemList, listVars>>
<1>1. pc = "child"
  BY DEF ReadElement, ReadTitle, ReadLink, ReadCategory, ReadGuid,
         ReadEnclosure, ReadOther, AtChild
<1>2. /\ name_set <=> item.name # NULL
      /\ url_set <=> item.url # NULL
  BY <1>1 DEF Reading
<1>3. ReadEnclosure
  BY <1>1, <1>2 DEF ReadElement, ReadTitle, ReadLink, ReadCategory, ReadGuid,
       ReadOther, Reads, Skips, Asserts, TakesLink, TakesGuid
<1> QED
  BY <1>1, <1>3 DEF ReadEnclosure, Reads, Asserts, AtChild, Element, Nodes

\* A step of processRSSList, which leaves the items alone.
ListStep ==
    \/ PassOver \/ Match \/ Known \/ AddMagnet \/ Overrun \/ FetchFails
    \/ FetchForTransmission \/ FetchAndSave \/ EndList

\* The loop over the items leaves the document and the list alone.
LEMMA ListStepReadsNothing ==
    ListStep => /\ pc \in {"list", "found"}
                /\ pc' \in Listed
                /\ UNCHANGED <<input, readVars>>
BY DEF ListStep, PassOver, Match, Known, AddMagnet, Overrun, FetchFails,
       FetchForTransmission, FetchAndSave, EndList, Ends, Fetches, Listed

\* The strengthening holds before anything is read.
LEMMA InitReads == Init => Reading
<1> SUFFICES ASSUME Init PROVE Reading
  OBVIOUS
<1>1. input \in Inputs /\ pc = "ttl" /\ i = 1 /\ itemList = <<>>
  BY DEF Init
<1>2. IsListOf(input.nodes, 1, <<>>) /\ Len(input.nodes) \in Nat
  BY <1>1, InputsHaveNodes, ListsOfNodes
<1> QED
  BY <1>1, <1>2 DEF Reading, Places, Listed, AbortsAreKnown

\* Every step of parse_xmldata preserves it, whatever element it is at.
LEMMA StepReads == Reading /\ [Next]_vars => Reading'
<1> SUFFICES ASSUME Reading, [Next]_vars PROVE Reading'
  OBVIOUS
<1>1. /\ input \in Inputs /\ Len(input.nodes) \in Nat
      /\ \A n \in 1..Len(input.nodes) :
           /\ input.nodes[n] \in Seq(Elements)
           /\ Len(input.nodes[n]) \in Nat
           /\ \A k \in 1..Len(input.nodes[n]) :
                input.nodes[n][k] \in Elements
  BY InputsHaveNodes DEF Reading
<1>2. i \in Nat \ {0} /\ IsListOf(input.nodes, i, itemList)
  BY DEF Reading
<1>3. CASE ReadElement
  <2>1. CASE pc' = "aborted"
    <3> DEFINE e == input.nodes[i][child]
    <3>1. /\ pc = "child" /\ child <= Len(input.nodes[i]) /\ input.asserts
          /\ TypeIsSet(e) /\ UNCHANGED <<input, i, itemList>>
      BY <1>3, <2>1, AssertionFails DEF listVars
    <3>2. i \in 1..Len(input.nodes) /\ child \in 1..Len(input.nodes[i])
      BY <1>1, <1>2, <3>1 DEF Reading
    <3>3. e \in Elements
      BY <1>1, <3>2
    <3>4. input.nodes[i] \in Range(input.nodes) /\ e \in Range(input.nodes[i])
      <4>1. DOMAIN input.nodes = 1..Len(input.nodes)
            /\ DOMAIN input.nodes[i] = 1..Len(input.nodes[i])
        BY <1>1, <3>2, InputsHaveNodes, LenProperties
      <4> QED
        BY <3>2, <4>1 DEF Range
    <3> HIDE DEF e
    <3>5. Cardinality(TypeAttributes(e)) > 1
      <4>1. PICK k, l \in TypeAttributes(e) : k < l
        BY <3>1 DEF TypeIsSet
      <4>2. TypeAttributes(e) \in SUBSET DOMAIN e.attributes
        BY DEF TypeAttributes, Attributes
      <4>3. e.attributes \in Seq(Attribute)
        BY <3>3 DEF Elements
      <4>4. DOMAIN e.attributes = 1..Len(e.attributes)
            /\ Len(e.attributes) \in Nat
        BY <4>3, LenProperties
      <4>5. IsFiniteSet(DOMAIN e.attributes)
        BY <4>4, FS_Interval
      <4>6. IsFiniteSet(TypeAttributes(e))
        BY <4>2, <4>5, FS_Subset
      <4>7. k # l
        BY <4>1, <4>2, <4>4
      <4>8. /\ Cardinality(TypeAttributes(e)) \in Nat
            /\ Cardinality(TypeAttributes(e)) # 0
            /\ Cardinality(TypeAttributes(e)) # 1
        BY <4>1, <4>6, <4>7, FS_CardinalityType, FS_EmptySet, FS_Singleton
      <4> QED
        BY <4>8
    <3>6. AbortsAreKnown'
      BY <3>1, <3>4, <3>5 DEF AbortsAreKnown, Nodes
    <3> QED
      BY <1>2, <2>1, <3>1, <3>6 DEF Reading, Places, Listed
  <2>2. CASE pc' # "aborted"
    <3>1. /\ pc = "child" /\ pc' = "child"
          /\ child <= Len(input.nodes[i]) /\ child' = child + 1
          /\ item' = With(item, input.nodes[i][child])
          /\ name_set' <=> item'.name # NULL
          /\ url_set' <=> item'.url # NULL
          /\ UNCHANGED <<input, i, itemList>>
      BY <1>3, <2>2, ElementIsRead DEF listVars
    <3>2. /\ i <= Len(input.nodes) /\ child \in Nat \ {0}
          /\ item = Described(Start(input.nodes[i], child))
      BY <3>1 DEF Reading
    <3>3. item' = Described(Start(input.nodes[i], child'))
      BY <3>1, <3>2, ElementByElement
    <3>4. Len(input.nodes[i]) \in Nat
      BY <1>1, <1>2, <3>2
    <3>5. child' \in Nat \ {0} /\ child' <= Len(input.nodes[i]) + 1
      BY <3>1, <3>2, <3>4
    <3> QED
      BY <1>1, <1>2, <3>1, <3>2, <3>3, <3>5
         DEF Reading, Places, Listed, AbortsAreKnown
  <2> QED
    BY <2>1, <2>2
<1>4. CASE ReadTtl
  BY <1>1, <1>2, <1>4
     DEF ReadTtl, readVars, Reading, Places, Listed, AbortsAreKnown
<1>5. CASE NextNode
  <2>1. /\ pc = "node" /\ i <= Len(input.nodes)
        /\ UNCHANGED <<input, itemList>>
    BY <1>5 DEF NextNode, Nodes
  <2>2. Described(Start(input.nodes[i], 1)) = newFeedItem
    BY FirstAndLast
  <2>3. CASE input.nodes[i] = <<>>
    <3>1. i' = i + 1 /\ pc' = "node"
      BY <1>5, <2>1, <2>3 DEF NextNode, Nodes
    <3>2. ~IsComplete(input.nodes[i])
      <4>1. Start(<<>>, 1) = <<>>
        <5>1. Start(<<>>, Len(<<>>) + 1) = <<>> /\ Len(<<>>) = 0
          BY FirstAndLast, EmptySeq
        <5> QED
          BY <5>1
      <4>2. Described(<<>>) = newFeedItem
        BY <4>1, FirstAndLast
      <4> QED
        BY <2>3, <4>2 DEF IsComplete, newFeedItem
    <3>3. IsListOf(input.nodes, i + 1, itemList)
      BY <1>2, <3>2, ListGrows
    <3> QED
      BY <1>1, <1>2, <2>1, <3>1, <3>3
         DEF Reading, Places, Listed, AbortsAreKnown
  <2>4. CASE input.nodes[i] # <<>>
    <3>1. /\ pc' = "child" /\ child' = 1 /\ item' = newFeedItem
          /\ name_set' = FALSE /\ url_set' = FALSE /\ i' = i
      BY <1>5, <2>1, <2>4 DEF NextNode, Nodes
    <3>2. item'.name = NULL /\ item'.url = NULL
      BY <3>1 DEF newFeedItem
    <3>3. Len(input.nodes[i]) \in Nat
      BY <1>1, <1>2, <2>1
    <3>4. child' \in Nat \ {0} /\ child' <= Len(input.nodes[i]) + 1
      BY <3>1, <3>3
    <3> QED
      BY <1>1, <1>2, <2>1, <2>2, <3>1, <3>2, <3>4
         DEF Reading, Places, Listed, AbortsAreKnown
  <2> QED
    BY <2>3, <2>4
<1>6. CASE EndNode
  <2>1. /\ pc = "child" /\ child > Len(input.nodes[i])
        /\ itemList' = IF name_set /\ url_set THEN <<item>> \o itemList
                       ELSE itemList
        /\ pc' = "node" /\ i' = i + 1 /\ input' = input
    BY <1>6 DEF EndNode, Nodes
  <2>2. /\ i <= Len(input.nodes)
        /\ child \in Nat \ {0} /\ child <= Len(input.nodes[i]) + 1
        /\ item = Described(Start(input.nodes[i], child))
        /\ name_set <=> item.name # NULL
        /\ url_set <=> item.url # NULL
    BY <2>1 DEF Reading
  <2>3. input.nodes[i] \in Seq(Elements) /\ Len(input.nodes[i]) \in Nat
    BY <1>1, <1>2, <2>2
  <2>4. child = Len(input.nodes[i]) + 1
    BY <2>1, <2>2, <2>3
  <2>5. Start(input.nodes[i], child) = input.nodes[i]
    BY <2>3, <2>4, FirstAndLast
  <2>6. /\ item = Described(input.nodes[i])
        /\ name_set /\ url_set <=> IsComplete(input.nodes[i])
    BY <2>2, <2>5 DEF IsComplete
  <2>7. IsListOf(input.nodes, i + 1, itemList')
    BY <1>2, <2>1, <2>6, ListGrows
  <2> QED
    BY <1>1, <1>2, <2>1, <2>2, <2>7 DEF Reading, Places, Listed, AbortsAreKnown
<1>7. CASE EndDocument
  BY <1>1, <1>2, <1>7
     DEF EndDocument, readVars, Nodes, Reading, Places, Listed,
         AbortsAreKnown
<1>8. CASE ListStep
  <2>1. /\ pc \in {"list", "found"} /\ pc' \in Listed
        /\ UNCHANGED <<input, i, itemList>>
    BY <1>8, ListStepReadsNothing DEF readVars
  <2> QED
    BY <1>2, <2>1 DEF Reading, Places, Listed, AbortsAreKnown
<1>9. CASE UNCHANGED vars
  BY <1>9 DEF vars, readVars, Reading, AbortsAreKnown, Nodes
<1> QED
  BY <1>3, <1>4, <1>5, <1>6, <1>7, <1>8, <1>9
     DEF Next, ReadElement, ListStep, Ended

\* At every step the item that is put together is what the elements read so
\* far describe, and the list is that of the nodes read so far.
THEOREM ReadingInvariant == Spec => []Reading
<1>1. Init => Reading
  BY InitReads
<1>2. Reading /\ [Next]_vars => Reading'
  BY StepReads
<1> QED
  BY <1>1, <1>2, PTL DEF Spec

\* Whatever the elements of an item node, in whatever order and number, and
\* whatever nodes a document has: the list that processRSSList is given has
\* the items that the nodes describe, and no other.
THEOREM ItemsAreRead == Spec => []ItemsAsWritten
<1>1. Reading => ItemsAsWritten
  <2> SUFFICES ASSUME Reading, pc \in Listed
               PROVE  ItemsAsWritten
    BY DEF ItemsAsWritten, Listed
  <2> DEFINE n == Len(input.nodes) + 1
  <2>1. IsListOf(input.nodes, n, itemList) /\ input \in Inputs
    BY DEF Reading
  <2>2. input.nodes \in Seq(Seq(Elements))
    BY <2>1, InputsHaveNodes
  <2>3. DOMAIN input.nodes = 1..Len(input.nodes)
    BY <2>2, LenProperties
  <2>4. CompleteBefore(input.nodes, n) = Complete(Nodes)
    <3>1. CompleteBefore(input.nodes, n) =
            {k \in 1..Len(input.nodes) : IsComplete(input.nodes[k])}
      BY <2>2, ListsOfNodes
    <3> QED
      BY <2>3, <3>1 DEF Complete, IsComplete, Nodes
  <2> HIDE DEF n
  <2>5. \A k : Behind(input.nodes, n, k) = {l \in Complete(Nodes) : l >= k}
    BY <2>4 DEF Behind
  <2> QED
    BY <2>1, <2>4, <2>5 DEF IsListOf, ItemsAsWritten, Nodes
<1> QED
  BY <1>1, ReadingInvariant, PTL

\* No order of titles, links, guids and enclosures ends the daemon, but an
\* enclosure with two types, or an empty ttl.
THEOREM AbortsAreFew == Spec => []AbortsAreKnown
<1>1. Reading => AbortsAreKnown
  BY DEF Reading
<1> QED
  BY <1>1, ReadingInvariant, PTL

-----------------------------------------------------------------------------
(***************************************************************************)
(* What is due for an item, in terms of the input and the item alone.      *)
(***************************************************************************)
\* The filters that want it.
WantingOf(in, it) ==
    {k \in DOMAIN in.filters :
       LET f == in.filters[k]
       IN  /\ it.name # NULL /\ Matches(f.pattern, it.name)
           /\ \/ f.feedID = NULL
              \/ /\ in.feed # NoFeed
                 /\ in.feed.id # NULL
                 /\ strcasecmp_eq(in.feed.id, f.feedID)}

RewritesOf(in) ==
    /\ in.feed # NoFeed
    /\ NULL \notin {in.feed.url_pattern, in.feed.url_replace}

RewrittenOf(in, it) ==
    IF RewritesOf(in)
    THEN performRegexReplace(it.url, in.feed.url_pattern,
                             FlattenSeq(in.feed.url_replace))
    ELSE NULL

\* Its URL, or what the pattern of the feed makes of it.
DueOf(in, it) ==
    IF isMagnetURI(it.url) THEN it.url
    ELSE url_encode_whitespace(IF RewrittenOf(in, it) = NULL THEN it.url
                               ELSE RewrittenOf(in, it))

FolderDue(in, it) == in.filters[Min(WantingOf(in, it))].folder

IsDue(in, it, deed) ==
    /\ deed.item = it
    /\ deed.folder = FolderDue(in, it)
    /\ deed.kind # "known" => deed.url = DueOf(in, it)

\* These are the operators of the property.
LEMMA OfTheInput ==
    /\ \A it : Wanting(it) = WantingOf(input, it)
    /\ \A it : DueURL(it) = DueOf(input, it)
    /\ Rewrites <=> RewritesOf(input)
<1>1. \A it : Wanting(it) = WantingOf(input, it)
  BY DEF Wanting, WantingOf
<1>2. Rewrites <=> RewritesOf(input)
  BY DEF Rewrites, RewritesOf
<1>3. \A it : Rewritten(it) = RewrittenOf(input, it)
  BY <1>2 DEF Rewritten, RewrittenOf
<1>4. \A it : DueURL(it) = DueOf(input, it)
  BY <1>3 DEF DueURL, DueOf
<1> QED
  BY <1>1, <1>2, <1>4

\* isMatch finds the first filter that wants the item.
LEMMA FirstThatWants ==
    ASSUME input \in Inputs, NEW it
    PROVE  isMatch(it.name) =
             IF WantingOf(input, it) = {} THEN 0
             ELSE Min(WantingOf(input, it))
<1>1. DOMAIN input.filters = 1..Len(input.filters)
  BY InputsHaveNodes, LenProperties
<1>2. ASSUME NEW f
      PROVE  Applies(f) /\ isRegExMatch(f.pattern, it.name) <=>
               /\ it.name # NULL /\ Matches(f.pattern, it.name)
               /\ \/ f.feedID = NULL
                  \/ /\ input.feed # NoFeed
                     /\ input.feed.id # NULL
                     /\ strcasecmp_eq(input.feed.id, f.feedID)
  BY DEF Applies, isRegExMatch, FeedID
<1>3. {k \in 1..Len(input.filters) :
          Applies(input.filters[k])
            /\ isRegExMatch(input.filters[k].pattern, it.name)}
        = WantingOf(input, it)
  BY <1>1, <1>2 DEF WantingOf
<1> QED
  BY <1>3 DEF isMatch, SelectInSeq

-----------------------------------------------------------------------------
(***************************************************************************)
(* The loop of processRSSList: every item that is wanted has its deed.     *)
(***************************************************************************)
WantedTo(in, list, p) == {k \in 1..p : WantingOf(in, list[k]) # {}}

\* The first p items of the list have had their turn.
AreDue(in, list, p, ds) ==
    /\ Len(ds) = Cardinality(WantedTo(in, list, p))
    /\ \A k \in WantedTo(in, list, p) :
         IsDue(in, list[k], ds[Cardinality(WantedTo(in, list, k))])

\* The wanted items up to a place can be counted, and there are more of them
\* further on.
LEMMA WantedIsFinite ==
    ASSUME NEW in, NEW list, NEW p \in Nat
    PROVE  /\ IsFiniteSet(WantedTo(in, list, p))
           /\ Cardinality(WantedTo(in, list, p)) \in Nat
           /\ \A k \in 0..p :
                /\ WantedTo(in, list, k) \subseteq WantedTo(in, list, p)
                /\ Cardinality(WantedTo(in, list, k))
                     <= Cardinality(WantedTo(in, list, p))
           /\ p \in WantedTo(in, list, p) =>
                Cardinality(WantedTo(in, list, p)) # 0
<1>1. IsFiniteSet(1..p)
  BY FS_Interval
<1>2. WantedTo(in, list, p) \in SUBSET (1..p)
  BY DEF WantedTo
<1>3. IsFiniteSet(WantedTo(in, list, p))
  BY <1>1, <1>2, FS_Subset
<1>4. \A k \in 0..p : WantedTo(in, list, k) \subseteq WantedTo(in, list, p)
  BY DEF WantedTo
<1>5. \A k \in 0..p : Cardinality(WantedTo(in, list, k))
                         <= Cardinality(WantedTo(in, list, p))
  BY <1>3, <1>4, FS_Subset
<1> QED
  BY <1>3, <1>4, <1>5, FS_CardinalityType, FS_EmptySet

\* One more element at the end of a sequence.
LEMMA OneMore ==
    ASSUME NEW S, NEW ds \in Seq(S), NEW d
    PROVE  /\ Append(ds, d) \in Seq(S \cup {d})
           /\ Len(Append(ds, d)) = Len(ds) + 1
           /\ \A k \in 1..Len(ds) : Append(ds, d)[k] = ds[k]
           /\ Append(ds, d)[Len(ds) + 1] = d
<1>1. ds \in Seq(S \cup {d})
  BY SeqMonotonic
<1> QED
  BY <1>1

\* The turn of one more item.
LEMMA DueGrows ==
    ASSUME NEW in, NEW list, NEW p \in Nat, NEW S, NEW ds \in Seq(S),
           AreDue(in, list, p, ds)
    PROVE  /\ WantingOf(in, list[p + 1]) = {} =>
                AreDue(in, list, p + 1, ds)
           /\ \A d : WantingOf(in, list[p + 1]) # {}
                     /\ IsDue(in, list[p + 1], d) =>
                       AreDue(in, list, p + 1, Append(ds, d))
<1>1. WantedTo(in, list, p + 1) =
        IF WantingOf(in, list[p + 1]) = {} THEN WantedTo(in, list, p)
        ELSE WantedTo(in, list, p) \cup {p + 1}
  BY DEF WantedTo
<1>2. CASE WantingOf(in, list[p + 1]) = {}
  BY <1>1, <1>2 DEF AreDue
<1>3. ASSUME NEW d, WantingOf(in, list[p + 1]) # {},
             IsDue(in, list[p + 1], d)
      PROVE  AreDue(in, list, p + 1, Append(ds, d))
  <2>1. p + 1 \notin WantedTo(in, list, p)
        /\ WantedTo(in, list, p) \subseteq 1..p
    BY DEF WantedTo
  <2>2. Cardinality(WantedTo(in, list, p + 1)) = Len(ds) + 1
    BY <1>1, <1>3, <2>1, WantedIsFinite, FS_AddElement DEF AreDue
  <2>3. ASSUME NEW k \in WantedTo(in, list, p)
        PROVE  Cardinality(WantedTo(in, list, k)) \in 1..Len(ds)
    <3>1. k \in 1..p /\ k \in WantedTo(in, list, k)
      BY DEF WantedTo
    <3>2. /\ Cardinality(WantedTo(in, list, k)) \in Nat
          /\ Cardinality(WantedTo(in, list, k)) # 0
      BY <3>1, WantedIsFinite
    <3>3. Cardinality(WantedTo(in, list, k))
            <= Cardinality(WantedTo(in, list, p))
      BY <3>1, WantedIsFinite
    <3> QED
      BY <3>2, <3>3 DEF AreDue
  <2>4. \A k \in WantedTo(in, list, p) :
           IsDue(in, list[k],
                 Append(ds, d)[Cardinality(WantedTo(in, list, k))])
    BY <2>3, OneMore DEF AreDue
  <2>5. IsDue(in, list[p + 1],
              Append(ds, d)[Cardinality(WantedTo(in, list, p + 1))])
    BY <1>3, <2>2, OneMore
  <2> QED
    BY <1>1, <1>3, <2>2, <2>4, <2>5, OneMore DEF AreDue
<1> QED
  BY <1>2, <1>3

IsSequence(s) == \E S : s \in Seq(S)

\* Where the loop is: p items have had their turn, and one that was found
\* has its folder.
Turn(in, place, list, left, folder, ds, p) ==
    /\ left = SubSeq(list, p + 1, Len(list))
    /\ AreDue(in, list, p, ds)
    /\ place = "done" => p = Len(list)
    /\ place = "found" =>
         /\ p < Len(list)
         /\ WantingOf(in, list[p + 1]) # {}
         /\ folder = FolderDue(in, list[p + 1])

InList == {"list", "found", "done", "overrun"}

\* The strengthening: without a pattern no URL is rewritten, and the variable
\* that would hold a freed pointer holds none.
Doing ==
    /\ IsSequence(deeds)
    /\ pc \notin InList => deeds = <<>>
    /\ ~RewritesOf(input) => download_url = NULL
    /\ pc \in InList =>
         \E p \in 0..Len(itemList) :
            Turn(input, pc, itemList, current, download_folder, deeds, p)

\* The URL that is asked for is the one that is due.
LEMMA AskedIsDue ==
    ASSUME Doing, ~isMagnetURI(Found.url)
    PROVE  /\ AskedFor = DueOf(input, Found)
           /\ ~RewritesOf(input) => RewrittenURL = NULL
BY OfTheInput DEF Doing, AskedFor, DueOf, RewrittenURL, RewrittenOf

\* What is done about an item that was found.
Deed ==
    Known \/ AddMagnet \/ FetchFails \/ FetchForTransmission \/ FetchAndSave

\* Whatever becomes of an item that was found, one deed says so, with the
\* folder of its filter and the URL that is due.
LEMMA DeedIsDue ==
    ASSUME Doing, Deed
    PROVE  /\ pc = "found" /\ pc' = "list" /\ current' = Tail(current)
           /\ \E d : /\ deeds' = Append(deeds, d)
                     /\ d.item = Found /\ d.folder = download_folder
                     /\ d.kind # "known" => d.url = DueOf(input, Found)
           /\ ~RewritesOf(input) => download_url' = NULL
           /\ UNCHANGED <<input, itemList>>
<1>1. ASSUME NEW kind, NEW url, NEW file, NEW data,
             Ends(kind, url, file, data),
             kind # "known" => url = DueOf(input, Found)
      PROVE  /\ pc = "found" /\ pc' = "list" /\ current' = Tail(current)
             /\ \E d : /\ deeds' = Append(deeds, d)
                       /\ d.item = Found /\ d.folder = download_folder
                       /\ d.kind # "known" => d.url = DueOf(input, Found)
             /\ UNCHANGED <<input, itemList>>
  <2> DEFINE d == [item |-> Found, kind |-> kind, url |-> url,
                   folder |-> download_folder, file |-> file, data |-> data]
  <2>1. /\ deeds' = Append(deeds, d)
        /\ d.item = Found /\ d.folder = download_folder
        /\ d.kind # "known" => d.url = DueOf(input, Found)
    BY <1>1 DEF Ends
  <2> HIDE DEF d
  <2>2. pc = "found" /\ pc' = "list" /\ current' = Tail(current)
        /\ UNCHANGED <<input, itemList>>
    BY <1>1 DEF Ends, readVars
  <2> QED
    BY <2>1, <2>2
<1>2. ~RewritesOf(input) => download_url = NULL
  BY DEF Doing
<1>3. CASE Known
  <2>1. Ends("known", NULL, NULL, NULL) /\ download_url' = download_url
    BY <1>3 DEF Known
  <2> QED
    BY <1>1, <1>2, <2>1
<1>4. CASE AddMagnet
  <2>1. /\ Ends("magnet", Found.url, NULL, NULL)
        /\ download_url' = download_url /\ isMagnetURI(Found.url)
    BY <1>4 DEF AddMagnet
  <2>2. Found.url = DueOf(input, Found)
    BY <2>1 DEF DueOf
  <2> QED
    BY <1>1, <1>2, <2>1, <2>2
<1>5. ASSUME ~isMagnetURI(Found.url), FreesURL
      PROVE  /\ AskedFor = DueOf(input, Found)
             /\ ~RewritesOf(input) => download_url' = NULL
  BY <1>5, AskedIsDue DEF FreesURL
<1>6. CASE FetchFails
  <2>1. /\ Ends("nothing", AskedFor, NULL, NULL)
        /\ ~isMagnetURI(Found.url) /\ FreesURL
    BY <1>6 DEF FetchFails, Fetches
  <2> QED
    BY <1>1, <1>5, <2>1
<1>7. CASE FetchForTransmission
  <2>1. /\ Ends("added", AskedFor, NULL, Answer(AskedFor).data)
        /\ ~isMagnetURI(Found.url) /\ FreesURL
    BY <1>7 DEF FetchForTransmission, Fetches
  <2> QED
    BY <1>1, <1>5, <2>1
<1>8. CASE FetchAndSave
  <2>1. /\ \E kind, file, data : Ends(kind, AskedFor, file, data)
        /\ ~isMagnetURI(Found.url) /\ FreesURL
    BY <1>8 DEF FetchAndSave, Fetches
  <2> QED
    BY <1>1, <1>5, <2>1
<1> QED
  BY <1>3, <1>4, <1>6, <1>7, <1>8 DEF Deed

\* The items that are left, and the one whose turn it is.
LEMMA ItemsLeft ==
    ASSUME NEW S, NEW list \in Seq(S), NEW p \in 0..Len(list), NEW left,
           left = SubSeq(list, p + 1, Len(list))
    PROVE  /\ left # <<>> <=> p < Len(list)
           /\ p < Len(list) =>
                /\ p + 1 \in 0..Len(list)
                /\ Head(left) = list[p + 1]
                /\ Tail(left) = SubSeq(list, p + 1 + 1, Len(list))
<1>1. Len(list) \in Nat
  BY LenProperties
<1>2. CASE p < Len(list)
  <2> DEFINE q == p + 1
  <2>1. q \in 1..Len(list) /\ Len(list) \in q..Len(list)
    BY <1>1, <1>2
  <2>2. left = SubSeq(list, q, Len(list))
    OBVIOUS
  <2> SUFFICES /\ left # <<>> /\ q \in 0..Len(list)
               /\ Head(left) = list[q]
               /\ Tail(left) = SubSeq(list, q + 1, Len(list))
    BY <1>2
  <2> HIDE DEF q
  <2>3. Len(left) # 0
    BY <1>1, <2>1, <2>2, SubSeqProperties, ElementOfSeq
  <2>4. left # <<>>
    BY <2>3, EmptySeq
  <2>5. /\ Head(SubSeq(list, q, Len(list))) = list[q]
        /\ Tail(SubSeq(list, q, Len(list))) = SubSeq(list, q + 1, Len(list))
    BY <1>1, <2>1, HeadTailOfSubSeq
  <2>6. q \in 0..Len(list)
    BY <1>1, <2>1
  <2> QED
    BY <2>2, <2>4, <2>5, <2>6
<1>3. CASE ~(p < Len(list))
  BY <1>1, <1>3, SubSeqEmpty
<1> QED
  BY <1>2, <1>3

\* The strengthening holds before anything is done.
LEMMA InitDoes == Init => Doing
<1> SUFFICES ASSUME Init PROVE Doing
  OBVIOUS
<1>1. pc = "ttl" /\ deeds = <<>> /\ download_url = NULL
  BY DEF Init
<1>2. <<>> \in Seq({})
  BY EmptySeq
<1> QED
  BY <1>1, <1>2 DEF Doing, IsSequence, InList

\* Every step of processRSSList preserves it.
LEMMA StepDoes == Reading /\ Doing /\ [Next]_vars => Doing'
<1> SUFFICES ASSUME Reading, Doing, [Next]_vars PROVE Doing'
  OBVIOUS
<1>1. /\ input \in Inputs
      /\ itemList \in Seq({Described(input.nodes[k]) :
                             k \in CompleteBefore(input.nodes, i)})
  BY DEF Reading, IsListOf
<1>2. Len(itemList) \in Nat
  BY <1>1, LenProperties
<1>3. CASE ReadElement \/ ReadTtl \/ NextNode \/ EndNode
  <2>1. /\ pc \notin InList /\ pc' \notin InList
        /\ UNCHANGED <<input, listVars>>
    <3>1. CASE ReadElement /\ pc' # "aborted"
      BY <3>1, ElementIsRead DEF InList
    <3>2. CASE ReadElement /\ pc' = "aborted"
      BY <3>2, AssertionFails DEF InList
    <3>3. CASE ReadTtl \/ NextNode \/ EndNode
      BY <3>3 DEF ReadTtl, NextNode, EndNode, InList
    <3> QED
      BY <1>3, <3>1, <3>2, <3>3
  <2> QED
    BY <2>1 DEF Doing, listVars
<1>4. CASE EndDocument
  <2>1. /\ pc = "node" /\ pc' = "list" /\ current' = itemList
        /\ UNCHANGED <<input, itemList, download_folder, download_url, deeds>>
    BY <1>4 DEF EndDocument, readVars
  <2>2. deeds = <<>>
    BY <2>1 DEF Doing, InList
  <2>3. AreDue(input, itemList, 0, deeds)
    <3>1. WantedTo(input, itemList, 0) = {}
      BY DEF WantedTo
    <3> QED
      BY <2>2, <3>1, FS_EmptySet, EmptySeq DEF AreDue
  <2>4. itemList = SubSeq(itemList, 0 + 1, Len(itemList))
    BY <1>1, SubSeqFull
  <2>5. Turn(input, pc', itemList, current', download_folder, deeds, 0)
    BY <2>1, <2>3, <2>4 DEF Turn
  <2>6. 0 \in 0..Len(itemList)
    BY <1>2
  <2> QED
    BY <2>1, <2>5, <2>6 DEF Doing, InList
<1>5. ASSUME pc \in {"list", "found"}
      PROVE  \E p \in 0..Len(itemList) :
                Turn(input, pc, itemList, current, download_folder, deeds, p)
  BY <1>5 DEF Doing, InList
<1>6. ASSUME NEW p \in 0..Len(itemList), pc \in {"list", "found"},
             Turn(input, pc, itemList, current, download_folder, deeds, p)
      PROVE  /\ current # <<>> <=> p < Len(itemList)
             /\ p < Len(itemList) =>
                  /\ p + 1 \in 0..Len(itemList)
                  /\ Found = itemList[p + 1]
                  /\ Tail(current)
                       = SubSeq(itemList, p + 1 + 1, Len(itemList))
  BY <1>1, <1>6, ItemsLeft DEF Turn, Found
<1>7. CASE PassOver
  <2>1. /\ pc = "list" /\ current # <<>> /\ isMatch(Found.name) = 0
        /\ current' = Tail(current) /\ pc' = "list"
        /\ UNCHANGED <<input, itemList, download_folder, download_url, deeds>>
    BY <1>7 DEF PassOver, readVars
  <2>2. PICK p \in 0..Len(itemList) :
           Turn(input, pc, itemList, current, download_folder, deeds, p)
    BY <1>5, <2>1
  <2>3. /\ p < Len(itemList) /\ p + 1 \in 0..Len(itemList)
        /\ Found = itemList[p + 1]
        /\ current' = SubSeq(itemList, p + 1 + 1, Len(itemList))
    BY <1>6, <2>1, <2>2
  <2>4. WantingOf(input, itemList[p + 1]) = {}
    <3>1. \A k \in WantingOf(input, Found) : k # 0 /\ k \in Nat
      BY <1>1, InputsHaveNodes, LenProperties DEF WantingOf
    <3>2. WantingOf(input, Found) # {} =>
            Min(WantingOf(input, Found)) \in WantingOf(input, Found)
      BY <3>1, MinIsLeast
    <3> QED
      BY <1>1, <2>1, <2>3, <3>1, <3>2, FirstThatWants
  <2>5. AreDue(input, itemList, p + 1, deeds)
    <3>1. p \in Nat
      OBVIOUS
    <3> QED
      BY <2>2, <2>4, <3>1, DueGrows DEF Turn, Doing, IsSequence
  <2>6. Turn(input, pc', itemList, current', download_folder, deeds, p + 1)
    BY <2>1, <2>3, <2>5 DEF Turn
  <2> QED
    BY <2>1, <2>3, <2>6 DEF Doing, InList
<1>8. CASE Match
  <2>1. /\ pc = "list" /\ current # <<>> /\ isMatch(Found.name) # 0
        /\ download_folder' = input.filters[isMatch(Found.name)].folder
        /\ pc' = "found"
        /\ UNCHANGED <<input, itemList, current, download_url, deeds>>
    BY <1>8 DEF Match, FolderOf, readVars
  <2>2. PICK p \in 0..Len(itemList) :
           Turn(input, pc, itemList, current, download_folder, deeds, p)
    BY <1>5, <2>1
  <2>3. p < Len(itemList) /\ Found = itemList[p + 1]
    BY <1>6, <2>1, <2>2
  <2>4. /\ WantingOf(input, itemList[p + 1]) # {}
        /\ download_folder' = FolderDue(input, itemList[p + 1])
    BY <1>1, <2>1, <2>3, FirstThatWants DEF FolderDue
  <2>5. Turn(input, pc', itemList, current', download_folder', deeds, p)
    BY <2>1, <2>2, <2>3, <2>4 DEF Turn
  <2> QED
    BY <2>1, <2>5 DEF Doing, InList
<1>9. CASE Deed
  <2>1. /\ pc = "found" /\ pc' = "list" /\ current' = Tail(current)
        /\ ~RewritesOf(input) => download_url' = NULL
        /\ UNCHANGED <<input, itemList>>
    BY <1>9, DeedIsDue
  <2>2. PICK d : /\ deeds' = Append(deeds, d)
                 /\ d.item = Found /\ d.folder = download_folder
                 /\ d.kind # "known" => d.url = DueOf(input, Found)
    BY <1>9, DeedIsDue
  <2>3. PICK p \in 0..Len(itemList) :
           Turn(input, pc, itemList, current, download_folder, deeds, p)
    BY <1>5, <2>1
  <2>4. /\ p < Len(itemList) /\ WantingOf(input, itemList[p + 1]) # {}
        /\ download_folder = FolderDue(input, itemList[p + 1])
        /\ AreDue(input, itemList, p, deeds)
    BY <2>1, <2>3 DEF Turn
  <2>5. /\ p + 1 \in 0..Len(itemList)
        /\ Found = itemList[p + 1]
        /\ current' = SubSeq(itemList, p + 1 + 1, Len(itemList))
    BY <1>6, <2>1, <2>3, <2>4
  <2>6. IsDue(input, itemList[p + 1], d)
    BY <2>2, <2>4, <2>5 DEF IsDue
  <2>7. PICK S : deeds \in Seq(S)
    BY DEF Doing, IsSequence
  <2>8. AreDue(input, itemList, p + 1, deeds')
    <3>1. p \in Nat
      OBVIOUS
    <3> QED
      BY <2>2, <2>4, <2>6, <2>7, <3>1, DueGrows
  <2>9. IsSequence(deeds')
    BY <2>2, <2>7, OneMore DEF IsSequence
  <2>10. Turn(input, pc', itemList, current', download_folder', deeds', p + 1)
    BY <2>1, <2>5, <2>8 DEF Turn
  <2> QED
    BY <2>1, <2>5, <2>9, <2>10 DEF Doing, InList
<1>10. CASE EndList
  <2>1. /\ pc = "list" /\ current = <<>> /\ pc' = "done"
        /\ UNCHANGED <<input, itemList, current, download_folder,
                       download_url, deeds>>
    BY <1>10 DEF EndList, readVars, listVars
  <2>2. PICK p \in 0..Len(itemList) :
           Turn(input, pc, itemList, current, download_folder, deeds, p)
    BY <1>5, <2>1
  <2>3. p = Len(itemList)
    BY <1>2, <1>6, <2>1, <2>2
  <2>4. Turn(input, pc', itemList, current', download_folder', deeds', p)
    BY <2>1, <2>2, <2>3 DEF Turn
  <2> QED
    BY <2>1, <2>4 DEF Doing, InList
<1>11. CASE UNCHANGED vars
  BY <1>11 DEF vars, readVars, listVars, Doing
<1>12. CASE Overrun
  <2>1. /\ pc = "found" /\ pc' = "overrun"
        /\ UNCHANGED <<input, itemList, current, download_folder,
                       download_url, deeds>>
    BY <1>12 DEF Overrun, readVars, listVars
  <2>2. PICK p \in 0..Len(itemList) :
           Turn(input, pc, itemList, current, download_folder, deeds, p)
    BY <1>5, <2>1
  <2>3. Turn(input, pc', itemList, current', download_folder', deeds', p)
    BY <2>1, <2>2 DEF Turn
  <2> QED
    BY <2>1, <2>3 DEF Doing, InList
<1> QED
  BY <1>3, <1>4, <1>7, <1>8, <1>9, <1>10, <1>11, <1>12
     DEF Next, ReadElement, Deed, Ended

\* Doing holds in every state.
THEOREM DoingInvariant == Spec => []Doing
<1>1. Init => Doing
  BY InitDoes
<1>2. Reading /\ Doing /\ [Next]_vars => Doing'
  BY StepDoes
<1> QED
  BY <1>1, <1>2, ReadingInvariant, PTL DEF Spec

\* Every item that a filter wants is dealt with once, in the order of the
\* list, whatever happened to those before it: it goes to the folder of the
\* first filter that wants it, and the URL asked for is the one that is due,
\* never the freed one.
THEOREM CallsAreMade == Spec => []CallsAreDue
<1>1. Reading /\ Doing => CallsAreDue
  <2> SUFFICES ASSUME Reading, Doing PROVE CallsAreDue
    OBVIOUS
  <2> DEFINE To(p) == WantedTo(input, itemList, p)
             m     == Len(itemList)
  <2>1. m \in Nat /\ DOMAIN itemList = 1..m
    BY LenProperties DEF Reading, IsListOf
  <2>2. Wanted = To(m)
    BY <2>1, OfTheInput DEF Wanted, WantedTo
  <2>3. \A k \in Wanted : k \in 1..m /\ {l \in Wanted : l <= k} = To(k)
    BY <2>1, <2>2 DEF WantedTo
  <2>4. ASSUME NEW p \in 0..m, AreDue(input, itemList, p, deeds),
               pc = "done" => p = m
        PROVE  CallsAreDue
    <3>1. Len(deeds) = Cardinality(To(p))
      BY <2>4 DEF AreDue
    <3>2. Len(deeds) <= Cardinality(Wanted)
      BY <2>1, <2>2, <3>1, WantedIsFinite
    <3>3. pc = "done" => Len(deeds) = Cardinality(Wanted)
      BY <2>2, <2>4, <3>1
    <3>4. ASSUME NEW k \in Wanted, Cardinality(To(k)) <= Len(deeds)
          PROVE  IsDue(input, itemList[k], deeds[Cardinality(To(k))])
      <4>1. k \in 1..m /\ k \in To(k)
        BY <2>2, <2>3 DEF WantedTo
      <4>2. k <= p
        <5> SUFFICES ASSUME p < k PROVE FALSE
          BY <4>1
        <5>1. To(p) \subseteq To(k) /\ k \notin To(p)
          BY <4>1 DEF WantedTo
        <5>2. IsFiniteSet(To(k)) /\ Cardinality(To(k)) \in Nat
          BY <4>1, WantedIsFinite
        <5>3. Cardinality(To(p)) < Cardinality(To(k))
          BY <4>1, <5>1, <5>2, FS_Subset, FS_CardinalityType
        <5> QED
          BY <3>1, <3>4, <5>2, <5>3, FS_CardinalityType, WantedIsFinite
      <4>3. k \in To(p)
        BY <4>1, <4>2 DEF WantedTo
      <4> QED
        BY <2>4, <4>3 DEF AreDue
    <3>5. ASSUME NEW k \in Wanted
          PROVE  LET n     == Cardinality({l \in Wanted : l <= k})
                     first == Min(Wanting(itemList[k]))
                 IN  n <= Len(deeds) =>
                       /\ deeds[n].item = itemList[k]
                       /\ deeds[n].folder = input.filters[first].folder
                       /\ deeds[n].kind # "known" =>
                            deeds[n].url = DueURL(itemList[k])
      <4>1. {l \in Wanted : l <= k} = To(k)
        BY <2>3
      <4> HIDE DEF To
      <4> QED
        BY <3>4, <4>1, OfTheInput DEF IsDue, FolderDue
    <3> QED
      BY <3>2, <3>3, <3>5 DEF CallsAreDue
  <2>5. CASE pc \in InList
    <3>1. PICK p \in 0..m :
             Turn(input, pc, itemList, current, download_folder, deeds, p)
      BY <2>5 DEF Doing
    <3> QED
      BY <2>4, <3>1 DEF Turn
  <2>6. CASE pc \notin InList
    <3>1. deeds = <<>> /\ pc # "done"
      BY <2>6 DEF Doing, InList
    <3>2. AreDue(input, itemList, 0, deeds)
      <4>1. WantedTo(input, itemList, 0) = {}
        BY DEF WantedTo
      <4> QED
        BY <3>1, <4>1, FS_EmptySet, EmptySeq DEF AreDue
    <3>3. 0 \in 0..m /\ (pc = "done" => 0 = m)
      BY <2>1, <3>1
    <3> QED
      BY <2>4, <3>2, <3>3
  <2> QED
    BY <2>5, <2>6
<1> QED
  BY <1>1, ReadingInvariant, DoingInvariant, PTL

-----------------------------------------------------------------------------
(***************************************************************************)
(* The files: none is longer than the longest torrent of its name.         *)
(***************************************************************************)
\* The k-th torrent is the last of its name, and the longest of them.
Rules(ds, k) ==
    /\ ds[k].kind = "saved"
    /\ \A j \in DOMAIN ds :
         ds[j].file = ds[k].file =>
            j <= k /\ Len(ds[j].data) <= Len(ds[k].data)

Holds(fs, d) == d.file \in DOMAIN fs /\ fs[d.file] = d.data

AreFiled(ds, fs) ==
    /\ \A k \in DOMAIN ds : ds[k].data \in Text
    /\ \A f \in DOMAIN fs :
         /\ fs[f] \in Text
         /\ \E j \in DOMAIN ds : /\ ds[j].file = f
                                 /\ Len(fs[f]) <= Len(ds[j].data)
    /\ \A k \in DOMAIN ds : Rules(ds, k) => Holds(fs, ds[k])

Filing == IsSequence(deeds) /\ AreFiled(deeds, files)

\* The deeds before the last one.
LEMMA OneMoreDeed ==
    ASSUME NEW ds, IsSequence(ds), NEW d
    PROVE  LET all == Append(ds, d)
               n   == Len(ds) + 1
           IN  /\ IsSequence(all)
               /\ DOMAIN ds = 1..Len(ds) /\ Len(ds) \in Nat
               /\ DOMAIN all = DOMAIN ds \cup {n} /\ n \notin DOMAIN ds
               /\ \A k \in DOMAIN ds : k < n /\ all[k] = ds[k]
               /\ all[n] = d
<1>1. PICK S : ds \in Seq(S)
  BY DEF IsSequence
<1>2. Len(ds) \in Nat /\ DOMAIN ds = 1..Len(ds)
  BY <1>1, LenProperties
<1>3. /\ Append(ds, d) \in Seq(S \cup {d})
      /\ Len(Append(ds, d)) = Len(ds) + 1
      /\ \A k \in 1..Len(ds) : Append(ds, d)[k] = ds[k]
      /\ Append(ds, d)[Len(ds) + 1] = d
  BY <1>1, OneMore
<1>4. DOMAIN Append(ds, d) = 1..Len(ds) + 1
  BY <1>3, LenProperties
<1> QED
  BY <1>2, <1>3, <1>4 DEF IsSequence

\* Whoever rules with one more deed, and is not the last, ruled before it.
LEMMA RuledBefore ==
    ASSUME NEW ds, IsSequence(ds), NEW d, NEW k \in DOMAIN ds,
           Rules(Append(ds, d), k)
    PROVE  Rules(ds, k) /\ ds[k].file # d.file
<1>1. /\ DOMAIN Append(ds, d) = DOMAIN ds \cup {Len(ds) + 1}
      /\ \A j \in DOMAIN ds : j < Len(ds) + 1 /\ Append(ds, d)[j] = ds[j]
      /\ Append(ds, d)[Len(ds) + 1] = d
      /\ DOMAIN ds = 1..Len(ds) /\ Len(ds) \in Nat
  BY OneMoreDeed
<1>2. ds[k].file # d.file
  <2>1. ~(Len(ds) + 1 <= k)
    BY <1>1
  <2> QED
    BY <1>1, <2>1 DEF Rules
<1> QED
  BY <1>1, <1>2 DEF Rules

\* A deed that saves nothing as a whole leaves the files as they are.
LEMMA NothingFiled ==
    ASSUME NEW ds, IsSequence(ds), NEW fs, AreFiled(ds, fs),
           NEW d, d.kind # "saved", d.data \in Text
    PROVE  AreFiled(Append(ds, d), fs)
<1> DEFINE all == Append(ds, d)
<1>1. /\ DOMAIN all = DOMAIN ds \cup {Len(ds) + 1}
      /\ \A j \in DOMAIN ds : all[j] = ds[j]
      /\ all[Len(ds) + 1] = d
  BY OneMoreDeed
<1>2. \A k \in DOMAIN ds : Rules(all, k) => Rules(ds, k)
  BY RuledBefore
<1>3. ~Rules(all, Len(ds) + 1)
  BY <1>1 DEF Rules
<1> HIDE DEF all
<1>4. \A k \in DOMAIN all : all[k].data \in Text
  BY <1>1 DEF AreFiled
<1>5. ASSUME NEW f \in DOMAIN fs
      PROVE  /\ fs[f] \in Text
             /\ \E j \in DOMAIN all : /\ all[j].file = f
                                      /\ Len(fs[f]) <= Len(all[j].data)
  BY <1>1 DEF AreFiled
<1>6. \A k \in DOMAIN all : Rules(all, k) => Holds(fs, all[k])
  BY <1>1, <1>2, <1>3 DEF AreFiled
<1>7. AreFiled(all, fs)
  BY <1>4, <1>5, <1>6 DEF AreFiled
<1> QED
  BY <1>7 DEF all

\* The bytes of a file that is not truncated.
LEMMA WrittenOver ==
    ASSUME NEW old \in Text, NEW data \in Text, NEW n \in 0..Len(data)
    PROVE  LET w == Written(old, SubSeq(data, 1, n))
           IN  /\ w \in Text
               /\ Len(w) <= Len(data) \/ Len(w) <= Len(old)
               /\ n = Len(data) /\ Len(old) <= Len(data) => w = data
<1> DEFINE start == SubSeq(data, 1, n)
           rest  == SubSeq(old, n + 1, Len(old))
<1>1. Len(data) \in Nat /\ Len(old) \in Nat /\ n \in Nat
  BY LenProperties DEF Text
<1>2. start \in Text /\ Len(start) = n
  <2>1. \A k \in 1..n : data[k] \in STRING
    BY <1>1, ElementOfSeq DEF Text
  <2> QED
    BY <1>1, <2>1, SubSeqProperties DEF Text
<1>3. /\ rest \in Text
      /\ Len(rest) = IF n + 1 <= Len(old) THEN Len(old) - n ELSE 0
      /\ Len(old) <= n => rest = <<>>
  <2>1. \A k \in n + 1..Len(old) : old[k] \in STRING
    BY <1>1, ElementOfSeq DEF Text
  <2>2. n + 1 \in Int /\ Len(old) \in Int
    BY <1>1
  <2>3. /\ rest \in Seq(STRING)
        /\ Len(rest) = IF n + 1 <= Len(old) THEN Len(old) - (n + 1) + 1
                       ELSE 0
    BY <2>1, <2>2, SubSeqProperties
  <2>4. Len(old) <= n => rest = <<>>
    BY <1>1, <2>2, SubSeqEmpty
  <2> QED
    BY <1>1, <2>3, <2>4 DEF Text
<1>4. n = Len(data) => start = data
  BY <1>1, SubSeqFull DEF Text
<1>5. Written(old, start) = start \o rest
  BY <1>2 DEF Written
<1> HIDE DEF start, rest
<1>6. start \o rest \in Text /\ Len(start \o rest) = Len(start) + Len(rest)
  BY <1>2, <1>3, ConcatProperties DEF Text
<1>7. rest = <<>> => start \o rest = start
  BY <1>2, ConcatEmptySeq DEF Text
<1>8. /\ start \o rest \in Text
      /\ Len(start \o rest) <= Len(data) \/ Len(start \o rest) <= Len(old)
  BY <1>1, <1>2, <1>3, <1>6
<1>9. n = Len(data) /\ Len(old) <= Len(data) => start \o rest = data
  BY <1>1, <1>3, <1>4, <1>7
<1>10. Written(old, SubSeq(data, 1, n)) = start \o rest
  BY <1>5 DEF start
<1> QED
  BY <1>8, <1>9, <1>10

\* The files with one more deed, of which n bytes are written.
WithDeed(fs, d, n) ==
    [f \in DOMAIN fs \cup {d.file} |->
       IF f = d.file
       THEN Written(IF d.file \in DOMAIN fs THEN fs[d.file] ELSE <<>>,
                    SubSeq(d.data, 1, n))
       ELSE fs[f]]

\* A torrent is saved, as a whole or in part.
LEMMA OneFiled ==
    ASSUME NEW ds, IsSequence(ds), NEW fs, AreFiled(ds, fs),
           NEW d, d.data \in Text, NEW n \in 0..Len(d.data),
           d.kind = "saved" => n = Len(d.data)
    PROVE  AreFiled(Append(ds, d), WithDeed(fs, d, n))
<1> DEFINE all == Append(ds, d)
           m   == Len(ds) + 1
           new == WithDeed(fs, d, n)
<1> PICK old : old = IF d.file \in DOMAIN fs THEN fs[d.file] ELSE <<>>
  OBVIOUS
<1> PICK w : w = Written(old, SubSeq(d.data, 1, n))
  OBVIOUS
<1>1. /\ DOMAIN all = DOMAIN ds \cup {m}
      /\ \A j \in DOMAIN ds : all[j] = ds[j]
      /\ all[m] = d
  BY OneMoreDeed
<1>2. \A k \in DOMAIN ds :
         Rules(all, k) => Rules(ds, k) /\ ds[k].file # d.file
  BY RuledBefore
<1>3. old \in Text
  BY EmptySeq DEF AreFiled, Text
<1>4. /\ w \in Text
      /\ Len(w) <= Len(d.data) \/ Len(w) <= Len(old)
      /\ n = Len(d.data) /\ Len(old) <= Len(d.data) => w = d.data
  BY <1>3, WrittenOver
<1>5. Len(w) \in Nat /\ Len(old) \in Nat /\ Len(d.data) \in Nat
  BY <1>3, <1>4, LenProperties DEF Text
<1>6. \/ Len(old) = 0
      \/ \E j \in DOMAIN ds : /\ ds[j].file = d.file
                             /\ Len(old) <= Len(ds[j].data)
  BY EmptySeq DEF AreFiled
<1>7. \A j \in DOMAIN ds : Len(ds[j].data) \in Nat
  BY LenProperties DEF AreFiled, Text
<1>8. /\ DOMAIN new = DOMAIN fs \cup {d.file}
      /\ new[d.file] = w
      /\ \A f \in DOMAIN fs : f # d.file => new[f] = fs[f]
  BY DEF WithDeed
<1> HIDE DEF all, m, new
<1>9. \A k \in DOMAIN all : all[k].data \in Text
  BY <1>1 DEF AreFiled
<1>10. ASSUME NEW f \in DOMAIN new
       PROVE  /\ new[f] \in Text
              /\ \E j \in DOMAIN all : /\ all[j].file = f
                                       /\ Len(new[f]) <= Len(all[j].data)
  <2>1. CASE f = d.file
    <3>1. CASE Len(w) <= Len(d.data)
      BY <1>1, <1>4, <1>8, <2>1, <3>1
    <3>2. CASE ~(Len(w) <= Len(d.data))
      BY <1>1, <1>4, <1>5, <1>6, <1>7, <1>8, <2>1, <3>2
    <3> QED
      BY <3>1, <3>2
  <2>2. CASE f # d.file
    BY <1>1, <1>8, <2>2 DEF AreFiled
  <2> QED
    BY <2>1, <2>2
<1>11. ASSUME NEW k \in DOMAIN all, Rules(all, k)
       PROVE  Holds(new, all[k])
  <2>1. CASE k \in DOMAIN ds
    <3>1. Holds(fs, ds[k]) /\ ds[k].file # d.file
      BY <1>2, <1>11, <2>1 DEF AreFiled
    <3> QED
      BY <1>1, <1>8, <2>1, <3>1 DEF Holds
  <2>2. CASE k = m
    <3>1. d.kind = "saved"
          /\ \A j \in DOMAIN ds : ds[j].file = d.file =>
                                     Len(ds[j].data) <= Len(d.data)
      BY <1>1, <1>11, <2>2 DEF Rules
    <3>2. Len(old) <= Len(d.data)
      BY <1>5, <1>6, <1>7, <3>1
    <3>3. w = d.data
      BY <1>4, <3>1, <3>2
    <3> QED
      BY <1>1, <1>8, <2>2, <3>3 DEF Holds
  <2> QED
    BY <1>1, <1>11, <2>1, <2>2
<1>12. AreFiled(all, new)
  BY <1>9, <1>10, <1>11 DEF AreFiled
<1> QED
  BY <1>12 DEF all, new

\* What is done about an item leaves the files as AreFiled says.
LEMMA DeedIsFiled == Filing /\ Deed => Filing'
<1> SUFFICES ASSUME Filing, Deed PROVE Filing'
  OBVIOUS
<1>1. NULL \in Text
  BY EmptySeq DEF NULL, Text
<1>2. ASSUME NEW kind, NEW url, NEW file, NEW data,
             Ends(kind, url, file, data)
      PROVE  \E d : /\ deeds' = Append(deeds, d)
                    /\ d.kind = kind /\ d.file = file /\ d.data = data
  <2> DEFINE d == [item |-> Found, kind |-> kind, url |-> url,
                   folder |-> download_folder, file |-> file, data |-> data]
  <2>1. deeds' = Append(deeds, d)
    BY <1>2 DEF Ends
  <2>2. d.kind = kind /\ d.file = file /\ d.data = data
    OBVIOUS
  <2> HIDE DEF d
  <2> QED
    BY <2>1, <2>2
<1>3. ASSUME NEW kind, NEW url, NEW file, NEW data \in Text,
             Ends(kind, url, file, data), kind # "saved", UNCHANGED files
      PROVE  Filing'
  <2>1. PICK d : /\ deeds' = Append(deeds, d)
                 /\ d.kind = kind /\ d.file = file /\ d.data = data
    BY <1>2, <1>3
  <2>2. IsSequence(deeds')
    BY <2>1, OneMoreDeed DEF Filing
  <2>3. AreFiled(deeds', files)
    BY <1>3, <2>1, NothingFiled DEF Filing
  <2> QED
    BY <1>3, <2>2, <2>3 DEF Filing
<1>4. ASSUME NEW kind, NEW url, NEW file, NEW data \in Text,
             NEW n \in 0..Len(data), kind = "saved" => n = Len(data),
             Ends(kind, url, file, data),
             SavesAs(file, SubSeq(data, 1, n))
      PROVE  Filing'
  <2>1. PICK d : /\ deeds' = Append(deeds, d)
                 /\ d.kind = kind /\ d.file = file /\ d.data = data
    BY <1>2, <1>4
  <2>2. IsSequence(deeds')
    BY <2>1, OneMoreDeed DEF Filing
  <2>3. files' = WithDeed(files, d, n)
    BY <1>4, <2>1 DEF SavesAs, Old, WithDeed
  <2>4. /\ d.data \in Text /\ n \in 0..Len(d.data)
        /\ d.kind = "saved" => n = Len(d.data)
    BY <1>4, <2>1
  <2>5. IsSequence(deeds) /\ AreFiled(deeds, files)
    BY DEF Filing
  <2>6. AreFiled(Append(deeds, d), WithDeed(files, d, n))
    BY <2>4, <2>5, OneFiled
  <2> QED
    BY <2>1, <2>2, <2>3, <2>6 DEF Filing
<1>5. CASE Known
  <2>1. Ends("known", NULL, NULL, NULL) /\ UNCHANGED files
    BY <1>5 DEF Known
  <2> QED
    BY <1>1, <1>3, <2>1
<1>6. CASE AddMagnet
  <2>1. Ends("magnet", Found.url, NULL, NULL) /\ UNCHANGED files
    BY <1>6 DEF AddMagnet
  <2> QED
    BY <1>1, <1>3, <2>1
<1>7. CASE FetchFails
  <2>1. Ends("nothing", AskedFor, NULL, NULL) /\ UNCHANGED files
    BY <1>7 DEF FetchFails
  <2> QED
    BY <1>1, <1>3, <2>1
<1>8. ASSUME Answer(AskedFor) \in Page
      PROVE  Answer(AskedFor).data \in Text
  BY <1>8 DEF Page
<1>9. CASE FetchForTransmission
  <2>1. /\ Ends("added", AskedFor, NULL, Answer(AskedFor).data)
        /\ Answer(AskedFor) \in Page /\ UNCHANGED files
    BY <1>9 DEF FetchForTransmission
  <2> QED
    BY <1>3, <1>8, <2>1
<1>10. CASE FetchAndSave
  <2> DEFINE data == Answer(AskedFor).data
             name == get_filename(Answer(AskedFor).filename, Found.url,
                                  torrent_folder)
  <2>1. /\ Answer(AskedFor) \in Page
        /\ \/ Ends("failed", AskedFor, NULL, NULL) /\ UNCHANGED files
           \/ \E n \in 0..Len(data) :
                /\ Ends(IF n = Len(data) THEN "saved" ELSE "broken",
                        AskedFor, name, data)
                /\ SavesAs(name, SubSeq(data, 1, n))
    BY <1>10 DEF FetchAndSave
  <2>2. data \in Text
    BY <1>8, <2>1
  <2> HIDE DEF data, name
  <2>3. CASE Ends("failed", AskedFor, NULL, NULL) /\ UNCHANGED files
    BY <1>1, <1>3, <2>3
  <2>4. ASSUME NEW n \in 0..Len(data),
               Ends(IF n = Len(data) THEN "saved" ELSE "broken",
                    AskedFor, name, data),
               SavesAs(name, SubSeq(data, 1, n))
        PROVE  Filing'
    <3>1. CASE n = Len(data)
      BY <1>4, <2>2, <2>4, <3>1
    <3>2. CASE n # Len(data)
      <4>1. Ends("broken", AskedFor, name, data)
        BY <2>4, <3>2
      <4> QED
        BY <1>4, <2>2, <2>4, <4>1
    <3> QED
      BY <3>1, <3>2
  <2> QED
    BY <2>1, <2>3, <2>4
<1> QED
  BY <1>5, <1>6, <1>7, <1>9, <1>10 DEF Deed

\* Nothing else touches the deeds or the files.
LEMMA StepFiles == Filing /\ [Next]_vars => Filing'
<1> SUFFICES ASSUME Filing, [Next]_vars PROVE Filing'
  OBVIOUS
<1>1. CASE Deed
  BY <1>1, DeedIsFiled
<1>2. CASE UNCHANGED <<deeds, files>>
  BY <1>2 DEF Filing
<1>3. CASE ReadElement
  <2>1. UNCHANGED listVars
    BY <1>3, Zenon DEF ReadElement, ReadTitle, ReadLink, ReadCategory,
       ReadGuid, ReadEnclosure, ReadOther, Reads, Skips
  <2> QED
    BY <1>2, <2>1 DEF listVars
<1>4. CASE ReadTtl \/ NextNode \/ EndNode \/ EndDocument \/ PassOver
           \/ Match \/ Overrun \/ EndList \/ UNCHANGED vars
  BY <1>2, <1>4 DEF ReadTtl, NextNode, EndNode, EndDocument, PassOver,
     Match, Overrun, EndList, vars, listVars
<1> QED
  BY <1>1, <1>3, <1>4 DEF Next, ReadElement, Deed, Ended

\* Whatever was saved under a name before, and wherever a write broke off: a
\* torrent that is saved as a whole, and is the last and the longest of its
\* name, is all that its file holds.
THEOREM FilesHoldTorrents == Spec => []FilesAreWhole
<1>1. Init => Filing
  <2> SUFFICES ASSUME Init PROVE Filing
    OBVIOUS
  <2>1. deeds = <<>> /\ files = <<>>
    BY DEF Init
  <2>2. <<>> \in Seq({}) /\ DOMAIN deeds = {} /\ DOMAIN files = {}
    BY <2>1, EmptySeq
  <2> QED
    BY <2>1, <2>2 DEF Filing, AreFiled, IsSequence
<1>2. Filing /\ [Next]_vars => Filing'
  BY StepFiles
<1>3. Filing => FilesAreWhole
  BY DEF Filing, AreFiled, Rules, Holds, FilesAreWhole
<1> QED
  BY <1>1, <1>2, <1>3, PTL DEF Spec

-----------------------------------------------------------------------------
(***************************************************************************)
(* What FlattenSeq puts together.                                          *)
(***************************************************************************)
-----------------------------------------------------------------------------
(***************************************************************************)
(* What performRegexReplace makes of the words of a replacement.           *)
(***************************************************************************)
\* The texts that the words make, up to each of them.
Glues(g, words, b) ==
    g[0] = <<>> /\ \A k \in 1..b : g[k] = g[k - 1] \o words[k]

\* FlattenSeq is the last of these texts.
LEMMA FlattenedIsGlued ==
    ASSUME NEW S, NEW words \in Seq(Seq(S))
    PROVE  \E g \in [0..Len(words) -> Seq(S)] :
              /\ Glues(g, words, Len(words))
              /\ FlattenSeq(words) = g[Len(words)]
<1> DEFINE n == Len(words)
           Some == {b \in 0..n :
                      \E g \in [0..b -> Seq(S)] : Glues(g, words, b)}
<1>1. n \in Nat /\ \A k \in 1..n : words[k] \in Seq(S)
  BY LenProperties, ElementOfSeq
<1>e. <<>> \in Seq(S)
  BY EmptySeq
<1>2. 0 \in Some
  <2> DEFINE h == [k \in 0..0 |-> <<>>]
  <2>1. h \in [0..0 -> Seq(S)]
    BY <1>e
  <2>2. Glues(h, words, 0)
    BY DEF Glues
  <2> HIDE DEF h
  <2> QED
    BY <1>1, <2>1, <2>2
<1>3. ASSUME NEW b \in 0..n - 1, b \in Some PROVE b + 1 \in Some
  <2>1. PICK g \in [0..b -> Seq(S)] : Glues(g, words, b)
    BY <1>3
  <2> DEFINE next == g[b] \o words[b + 1]
             h == [k \in 0..b + 1 |-> IF k = b + 1 THEN next ELSE g[k]]
  <2>b. b \in Nat /\ b + 1 \in 1..n /\ b + 1 # 0
    BY <1>1
  <2>2. next \in Seq(S)
    BY <1>1, <2>b, ConcatProperties
  <2>3. h \in [0..b + 1 -> Seq(S)]
    BY <2>2, <2>b
  <2>4. ASSUME NEW k \in 1..b + 1 PROVE h[k] = h[k - 1] \o words[k]
    <3>1. CASE k = b + 1
      <4>1. k - 1 = b /\ h[b] = g[b] /\ h[k] = next
        BY <2>b, <3>1
      <4> QED
        BY <3>1, <4>1
    <3>2. CASE k # b + 1
      <4>1. k \in 1..b /\ h[k] = g[k] /\ h[k - 1] = g[k - 1]
        BY <2>b, <3>2
      <4> QED
        BY <2>1, <4>1 DEF Glues
    <3> QED
      BY <3>1, <3>2
  <2>5. h[0] = <<>>
    BY <2>1, <2>b DEF Glues
  <2>6. Glues(h, words, b + 1)
    <3> HIDE DEF h
    <3> QED
      BY <2>4, <2>5 DEF Glues
  <2> HIDE DEF h
  <2> QED
    BY <2>b, <2>3, <2>6
<1>4. n \in Some
  <2> HIDE DEF Some
  <2>1. \A b \in 0..n : b \in Some
    BY <1>1, <1>2, <1>3, BoundedInduction
  <2> QED
    BY <1>1, <2>1
<1> PICK g \in [0..n -> Seq(S)] : Glues(g, words, n)
  BY <1>4
<1> HIDE DEF Some
<1> DEFINE W(f) == f = [k \in 1..n |->
                          IF k = 1 THEN words[k] ELSE f[k - 1] \o words[k]]
           f0 == [k \in 1..n |-> g[k]]
           f1 == CHOOSE f : W(f)
<1>5. W(f0)
  <2> SUFFICES ASSUME NEW k \in 1..n
               PROVE  g[k] = IF k = 1 THEN words[k] ELSE f0[k - 1] \o words[k]
    OBVIOUS
  <2>1. CASE k = 1
    <3>1. 1 - 1 = 0 /\ 1 \in 1..n
      BY <1>1, <2>1
    <3>2. g[1] = <<>> \o words[1] /\ words[1] \in Seq(S)
      BY <1>1, <3>1 DEF Glues
    <3> QED
      BY <2>1, <3>2, ConcatEmptySeq
  <2>2. CASE k # 1
    <3>1. k - 1 \in 1..n /\ f0[k - 1] = g[k - 1]
      BY <1>1, <2>2
    <3> QED
      BY <2>2, <3>1 DEF Glues
  <2> QED
    BY <2>1, <2>2
<1>6. W(f1)
  <2> HIDE DEF f0
  <2> QED
    BY <1>5
<1> DEFINE Same == {k \in 0..n : k > 0 => f1[k] = g[k]}
<1>7. 0 \in Same
  BY <1>1
<1>8. ASSUME NEW k \in 0..n - 1, k \in Same PROVE k + 1 \in Same
  <2> PICK j : j = k + 1
    OBVIOUS
  <2>1. j \in 1..n /\ j - 1 = k
    BY <1>1
  <2> HIDE DEF f1
  <2>2. f1[j] = IF j = 1 THEN words[j] ELSE f1[j - 1] \o words[j]
    BY <1>6, <2>1
  <2>3. f0[j] = IF j = 1 THEN words[j] ELSE f0[j - 1] \o words[j]
    BY <1>5, <2>1
  <2>4. f1[j] = f0[j]
    BY <1>8, <2>1, <2>2, <2>3
  <2> QED
    BY <2>1, <2>4
<1>9. \A k \in 0..n : k \in Same
  <2> HIDE DEF Same
  <2> QED
    BY <1>1, <1>7, <1>8, BoundedInduction
<1>10. FlattenSeq(words) = IF n = 0 THEN words ELSE f1[n]
  BY DEF FlattenSeq
<1>11. CASE n = 0
  <2>1. words = <<>>
    BY <1>11, EmptySeq
  <2> QED
    BY <1>10, <1>11, <2>1 DEF Glues
<1>12. CASE n # 0
  <2> HIDE DEF f1
  <2>1. n \in Same
    BY <1>1, <1>9
  <2> QED
    BY <1>1, <1>10, <1>12, <2>1
<1> QED
  BY <1>11, <1>12

-----------------------------------------------------------------------------
(***************************************************************************)
(* The loop of performRegexReplace, as the turns it takes.                 *)
(***************************************************************************)
\* A run of digits goes up to the last of them.
LEMMA RunEnds ==
    ASSUME NEW t \in Text, NEW pos \in 1..Len(t) + 1
    PROVE  \E q \in pos - 1..Len(t) :
              /\ RunOfDigits(t, pos) = SubSeq(t, pos, q)
              /\ \A k \in pos..q : IsDigit(t[k])
              /\ q < Len(t) => ~IsDigit(t[q + 1])
<1> DEFINE ends == {p \in pos - 1..Len(t) : \A q \in pos..p : IsDigit(t[q])}
           IsLast(p) == \A q \in ends : q <= p
           last == CHOOSE p \in ends : IsLast(p)
<1>1. Len(t) \in Nat /\ pos \in Nat /\ pos - 1 \in 0..Len(t)
  BY LenProperties DEF Text
<1>2. ends \subseteq 0..Len(t) /\ pos - 1 \in ends
  BY <1>1
<1>3. Max(ends) \in ends /\ IsLast(Max(ends))
  <2> HIDE DEF ends
  <2> QED
    BY <1>1, <1>2, MaxIsGreatest
<1>4. last \in ends /\ IsLast(last)
  <2> HIDE DEF ends, IsLast
  <2> QED
    BY <1>3
<1>5. RunOfDigits(t, pos) = SubSeq(t, pos, last)
  BY DEF RunOfDigits
<1> HIDE DEF last
<1>6. ASSUME last < Len(t), IsDigit(t[last + 1]) PROVE FALSE
  <2>1. last + 1 \in pos - 1..Len(t)
    BY <1>1, <1>4, <1>6
  <2>2. ASSUME NEW q \in pos..last + 1 PROVE IsDigit(t[q])
    <3>1. CASE q = last + 1
      BY <1>6, <3>1
    <3>2. CASE q # last + 1
      <4>1. q \in pos..last
        BY <1>1, <1>4, <3>2
      <4> QED
        BY <1>4, <4>1
    <3> QED
      BY <3>1, <3>2
  <2>3. last + 1 \in ends
    BY <2>1, <2>2
  <2>4. last \in Int /\ last + 1 <= last
    BY <1>1, <1>4, <2>3
  <2> QED
    BY <2>4
<1> QED
  BY <1>4, <1>5, <1>6

\* Where the digits end is where the run does.
LEMMA RunIsThere ==
    ASSUME NEW t \in Text, NEW pos \in 1..Len(t) + 1,
           NEW q \in pos - 1..Len(t),
           \A k \in pos..q : IsDigit(t[k]), q < Len(t) => ~IsDigit(t[q + 1])
    PROVE  RunOfDigits(t, pos) = SubSeq(t, pos, q)
<1>1. PICK p \in pos - 1..Len(t) :
              /\ RunOfDigits(t, pos) = SubSeq(t, pos, p)
              /\ \A k \in pos..p : IsDigit(t[k])
              /\ p < Len(t) => ~IsDigit(t[p + 1])
  BY RunEnds
<1>2. Len(t) \in Nat /\ pos \in Nat /\ p \in Int /\ q \in Int
  BY LenProperties DEF Text
<1>3. ~(p < q)
  <2> SUFFICES ASSUME p < q PROVE FALSE
    OBVIOUS
  <2>1. p < Len(t) /\ p + 1 \in pos..q
    BY <1>2
  <2> QED
    BY <1>1, <2>1
<1>4. ~(q < p)
  <2> SUFFICES ASSUME q < p PROVE FALSE
    OBVIOUS
  <2>1. q < Len(t) /\ q + 1 \in pos..p
    BY <1>2
  <2> QED
    BY <1>1, <2>1
<1> QED
  BY <1>1, <1>2, <1>3, <1>4

\* The digits at a place, and what is behind them.
LEMMA RunIsShort ==
    ASSUME NEW t \in Text, NEW pos \in 1..Len(t) + 1
    PROVE  /\ RunOfDigits(t, pos) \in Text
           /\ pos + Len(RunOfDigits(t, pos)) \in pos..Len(t) + 1
<1>1. PICK q \in pos - 1..Len(t) : RunOfDigits(t, pos) = SubSeq(t, pos, q)
  BY RunEnds
<1>2. Len(t) \in Nat /\ pos \in Nat /\ q \in Int /\ pos \in Int
  BY LenProperties DEF Text
<1>3. \A k \in pos..q : t[k] \in STRING \ {FAIL, STOP, NUL}
  <2> SUFFICES ASSUME NEW k \in pos..q
               PROVE  t[k] \in STRING \ {FAIL, STOP, NUL}
    OBVIOUS
  <2>1. k \in 1..Len(t)
    BY <1>2
  <2> QED
    BY <2>1, ElementOfSeq DEF Text
<1>4. /\ SubSeq(t, pos, q) \in Text
      /\ Len(SubSeq(t, pos, q)) = IF pos <= q THEN q - pos + 1 ELSE 0
  BY <1>2, <1>3, SubSeqProperties DEF Text
<1> QED
  BY <1>1, <1>2, <1>4

\* The smaller of two numbers.
LEMMA MinOfTwo ==
    ASSUME NEW a \in Nat, NEW b \in Nat
    PROVE  Min({a, b}) = IF a <= b THEN a ELSE b
BY DEF Min

\* index takes the first four of the digits, which are all there are if they
\* are no more.
LEMMA IndexIsShort ==
    ASSUME NEW t \in Text, NEW pos \in 1..Len(t) + 1
    PROVE  /\ pos + Len(IndexAt(t, pos)) \in pos..Len(t) + 1
           /\ Len(RunOfDigits(t, pos)) <= 4 =>
                /\ IndexAt(t, pos) = RunOfDigits(t, pos)
                /\ ~IsTooLong(t, pos)
<1> PICK run \in Text : run = RunOfDigits(t, pos)
  BY RunIsShort
<1> PICK r \in Nat, n \in Nat : r = Len(run) /\ n = Len(t)
  BY LenProperties DEF Text
<1> PICK m \in Nat : m = IF 4 <= r THEN 4 ELSE r
  OBVIOUS
<1>1. IndexAt(t, pos) = SubSeq(run, 1, m)
  <2>1. Min({4, r}) = m
    BY MinOfTwo
  <2>2. MAX_IDX_LEN - 1 = 4
    BY DEF MAX_IDX_LEN
  <2> QED
    BY <2>1, <2>2 DEF IndexAt
<1>2. pos + r \in pos..n + 1
  BY RunIsShort
<1>3. m \in 0..r
  OBVIOUS
<1>4. \A k \in 1..m : run[k] \in STRING
  <2> SUFFICES ASSUME NEW k \in 1..m PROVE run[k] \in STRING
    OBVIOUS
  <2>1. k \in 1..Len(run)
    BY <1>3
  <2> QED
    BY <2>1, ElementOfSeq DEF Text
<1>5. Len(SubSeq(run, 1, m)) = m
  <2>1. Len(SubSeq(run, 1, m)) = IF 1 <= m THEN m - 1 + 1 ELSE 0
    BY <1>4, SubSeqProperties
  <2> QED
    BY <2>1
<1>6. pos + m \in pos..n + 1
  BY <1>2, <1>3
<1>7. ASSUME r <= 4
      PROVE  SubSeq(run, 1, m) = run /\ ~IsTooLong(t, pos)
  <2>1. m = Len(run)
    BY <1>7
  <2>2. SubSeq(run, 1, Len(run)) = run
    BY SubSeqFull DEF Text
  <2>3. ~(r > 4) /\ MAX_IDX_LEN - 1 = 4
    BY <1>7 DEF MAX_IDX_LEN
  <2> QED
    BY <2>1, <2>2, <2>3 DEF IsTooLong
<1> QED
  BY <1>1, <1>5, <1>6, <1>7

\* What the parts of a substitution are made of.
Parts == Seq(STRING \cup {FAIL, STOP, NUL, Backslash})

\* Texts are parts.
LEMMA TextsAreParts == Text \subseteq Parts
BY SeqMonotonic DEF Text, Parts

\* One turn of the loop of performRegexReplace at a place, with what the turns
\* behind it make.
TurnAt(replace, groups, w, pos) ==
    IF pos > Len(replace) THEN <<>>
    ELSE IF replace[pos] # Backslash
    THEN CharAt(replace, pos) \o w[pos + 1]
    ELSE PutFor(replace, groups, pos)
           \o CharAt(replace, After(replace, pos))
           \o w[After(replace, pos) + 1]

\* What stands at a place is a text, and so is a group.
LEMMA PartsOfTurn ==
    ASSUME NEW replace \in Text, NEW groups \in Seq(Text), NEW pos \in Nat,
           NEW index
    PROVE  /\ CharAt(replace, pos) \in Parts
           /\ <<Backslash>> \in Parts /\ <<NUL>> \in Parts
           /\ <<FAIL>> \in Parts /\ <<>> \in Parts
           /\ Group(groups, index) \in Parts
<1>1. CharAt(replace, pos) \in Parts
  <2>1. CASE pos \in DOMAIN replace
    <3>1. replace[pos] \in STRING
      BY <2>1, LenProperties, ElementOfSeq DEF Text
    <3>2. <<replace[pos]>> \in Parts
      BY <3>1 DEF Parts
    <3> QED
      BY <2>1, <3>2 DEF CharAt
  <2>2. CASE pos \notin DOMAIN replace
    <3>1. <<NUL>> \in Parts
      BY DEF Parts
    <3> QED
      BY <2>2, <3>1 DEF CharAt
  <2> QED
    BY <2>1, <2>2
<1>2. Group(groups, index) \in Parts
  <2>1. ASSUME atoi(index) \in 1..99, atoi(index) <= Len(groups)
        PROVE  groups[atoi(index)] \in Parts
    <3>1. Len(groups) \in Nat
      BY LenProperties
    <3>2. \A n \in 1..99 : n <= Len(groups) => n \in 1..Len(groups)
      BY <3>1
    <3>3. atoi(index) \in 1..Len(groups)
      BY <2>1, <3>2
    <3> QED
      BY <3>3, ElementOfSeq, TextsAreParts
  <2>2. <<STOP>> \in Parts
    BY DEF Parts
  <2> QED
    BY <2>1, <2>2 DEF Group
<1>3. <<>> \in Parts
  BY EmptySeq DEF Parts
<1> QED
  BY <1>1, <1>2, <1>3 DEF Parts

\* A turn looks at the turns behind it only.
LEMMA TurnLooksAhead ==
    ASSUME NEW replace \in Text, NEW groups \in Seq(Text),
           NEW pos \in 1..Len(replace) + 2,
           NEW v, NEW w,
           \A p \in pos + 1..Len(replace) + 2 : v[p] = w[p] /\ w[p] \in Parts
    PROVE  /\ TurnAt(replace, groups, v, pos) = TurnAt(replace, groups, w, pos)
           /\ TurnAt(replace, groups, w, pos) \in Parts
<1>1. Len(replace) \in Nat /\ pos \in Nat
  BY LenProperties DEF Text
<1>e. <<>> \in Parts
  BY EmptySeq DEF Parts
<1>3. CASE pos > Len(replace)
  BY <1>3, <1>e, <1>1 DEF TurnAt
<1>4. CASE pos <= Len(replace) /\ replace[pos] # Backslash
  <2>1. pos + 1 \in pos + 1..Len(replace) + 2
    BY <1>1, <1>4
  <2>2. v[pos + 1] = w[pos + 1] /\ w[pos + 1] \in Parts
    BY <2>1
  <2>3. CharAt(replace, pos) \o w[pos + 1] \in Parts
    BY <1>1, <2>2, PartsOfTurn, ConcatProperties DEF Parts
  <2>4. TurnAt(replace, groups, v, pos) = CharAt(replace, pos) \o v[pos + 1]
    BY <1>4, <1>1 DEF TurnAt
  <2>5. TurnAt(replace, groups, w, pos) = CharAt(replace, pos) \o w[pos + 1]
    BY <1>4, <1>1 DEF TurnAt
  <2> QED
    BY <2>2, <2>3, <2>4, <2>5
<1>5. CASE pos <= Len(replace) /\ replace[pos] = Backslash
  <2> DEFINE behind == After(replace, pos)
             first == PutFor(replace, groups, pos)
             c == CharAt(replace, behind)
  <2>1. pos + 1 \in 1..Len(replace) + 1
    BY <1>1, <1>5
  <2>2. behind \in pos + 1..Len(replace) + 1
    BY <2>1, IndexIsShort DEF After
  <2>a. ~(pos > Len(replace)) /\ ~(replace[pos] # Backslash)
    BY <1>1, <1>5
  <2>b. TurnAt(replace, groups, v, pos) = first \o c \o v[behind + 1]
    BY <2>a, Zenon DEF TurnAt
  <2>3. TurnAt(replace, groups, w, pos) = first \o c \o w[behind + 1]
    BY <2>a, Zenon DEF TurnAt
  <2> HIDE DEF behind
  <2>4. behind + 1 \in pos + 1..Len(replace) + 2 /\ behind \in Nat
    BY <1>1, <2>2
  <2>5. v[behind + 1] = w[behind + 1] /\ w[behind + 1] \in Parts
    BY <2>4
  <2>6. first \in Parts /\ c \in Parts
    <3> PICK group \in Parts : group = Group(groups, IndexAt(replace, pos + 1))
      BY <1>1, PartsOfTurn
    <3> PICK mark \in Parts :
               mark = IF IsTooLong(replace, pos + 1) THEN <<FAIL>> ELSE <<>>
      BY <1>1, PartsOfTurn
    <3>1. mark \o group \in Parts
      BY ConcatProperties DEF Parts
    <3>2. first = IF IndexAt(replace, pos + 1) = <<>> THEN <<Backslash>>
                  ELSE mark \o group
      BY DEF PutFor
    <3>3. <<Backslash>> \in Parts
      BY <1>1, PartsOfTurn
    <3>4. c \in Parts
      BY <2>4, PartsOfTurn
    <3> HIDE DEF first, c
    <3> QED
      BY <3>1, <3>2, <3>3, <3>4
  <2> HIDE DEF first, c
  <2>7. first \o c \in Parts
    BY <2>6, ConcatProperties DEF Parts
  <2>8. first \o c \o w[behind + 1] \in Parts
    BY <2>5, <2>7, ConcatProperties DEF Parts
  <2> QED
    BY <2>b, <2>3, <2>5, <2>8
<1> QED
  BY <1>1, <1>3, <1>4, <1>5

\* The loop makes of a replacement what its turns do.
LEMMA SubstitutionTurns ==
    ASSUME NEW replace \in Text, NEW groups \in Seq(Text)
    PROVE  \E w \in [1..Len(replace) + 2 -> Parts] :
              /\ Substitute(replace, groups) = w[1]
              /\ \A pos \in 1..Len(replace) + 2 :
                    w[pos] = TurnAt(replace, groups, w, pos)
<1> DEFINE n == Len(replace) + 2
           From(w, b) == \A pos \in n + 1 - b..n :
                            w[pos] = TurnAt(replace, groups, w, pos)
           Some == {b \in 0..n : \E w \in [1..n -> Parts] : From(w, b)}
<1>1. n \in Nat /\ n > 1
  BY LenProperties DEF Text
<1>e. <<>> \in Parts
  BY EmptySeq DEF Parts
<1>t. ASSUME NEW pos \in 1..n, NEW v, NEW w,
             \A p \in pos + 1..n : v[p] = w[p] /\ w[p] \in Parts
      PROVE  /\ TurnAt(replace, groups, v, pos)
                  = TurnAt(replace, groups, w, pos)
             /\ TurnAt(replace, groups, w, pos) \in Parts
  BY <1>t, TurnLooksAhead
<1> HIDE DEF n
<1>2. 0 \in Some
  <2> DEFINE h == [p \in 1..n |-> <<>>]
  <2>1. h \in [1..n -> Parts]
    BY <1>e
  <2>2. From(h, 0)
    BY <1>1
  <2> HIDE DEF h, From
  <2> QED
    BY <1>1, <2>1, <2>2
<1>3. ASSUME NEW b \in 0..n - 1, b \in Some PROVE b + 1 \in Some
  <2>1. PICK w \in [1..n -> Parts] : From(w, b)
    BY <1>3
  <2> DEFINE at == n - b
             new == TurnAt(replace, groups, w, at)
             h == [p \in 1..n |-> IF p = at THEN new ELSE w[p]]
  <2>2. at \in 1..n /\ b + 1 \in 0..n /\ n + 1 - (b + 1) = at
        /\ n + 1 - b = at + 1 /\ at \in Nat
    BY <1>1
  <2> HIDE DEF at
  <2>3. new \in Parts
    <3>1. \A p \in at + 1..n : w[p] = w[p] /\ w[p] \in Parts
      BY <1>1, <2>2
    <3> QED
      BY <1>t, <2>2, <3>1
  <2> HIDE DEF new
  <2>4. h \in [1..n -> Parts] /\ h[at] = new
        /\ \A p \in at + 1..n : h[p] = w[p]
    BY <1>1, <2>2, <2>3
  <2> HIDE DEF h
  <2>5. ASSUME NEW pos \in at..n PROVE h[pos] = TurnAt(replace, groups, h, pos)
    <3>1. pos \in 1..n /\ pos \in Nat
      BY <1>1, <2>2
    <3>2. \A p \in pos + 1..n : h[p] = w[p] /\ w[p] \in Parts
      BY <1>1, <2>2, <2>4, <3>1
    <3>3. TurnAt(replace, groups, h, pos) = TurnAt(replace, groups, w, pos)
      BY <1>t, <2>4, <3>1, <3>2
    <3>4. CASE pos = at
      BY <2>4, <3>3, <3>4 DEF new
    <3>5. CASE pos # at
      <4>1. pos \in at + 1..n
        BY <1>1, <2>2, <3>1, <3>5
      <4> QED
        BY <2>1, <2>2, <2>4, <3>3, <4>1
    <3> QED
      BY <3>4, <3>5
  <2>6. From(h, b + 1)
    BY <2>2, <2>5
  <2> HIDE DEF From
  <2> QED
    BY <2>2, <2>4, <2>6
<1>4. n \in Some
  <2> HIDE DEF Some
  <2>1. \A b \in 0..n : b \in Some
    BY <1>1, <1>2, <1>3, BoundedInduction
  <2> QED
    BY <1>1, <2>1
<1>5. PICK v \in [1..n -> Parts] : From(v, n)
  BY <1>4
<1>6. \A pos \in 1..n : v[pos] = TurnAt(replace, groups, v, pos)
  <2>1. n + 1 - n = 1
    BY <1>1
  <2> QED
    BY <1>5, <2>1
<1> HIDE DEF Some, From
<1> DEFINE W(f) == f = [pos \in 1..n |-> TurnAt(replace, groups, f, pos)]
           w == CHOOSE f : W(f)
<1>7. W(v)
  BY <1>6
<1>8. W(w)
  <2> HIDE DEF W
  <2> QED
    BY <1>7
<1>9. Substitute(replace, groups) = w[1]
  BY DEF Substitute, TurnAt, n
<1> HIDE DEF w
<1>10. \A pos \in 1..n : w[pos] = TurnAt(replace, groups, w, pos)
  BY <1>8
<1> HIDE DEF W
<1> DEFINE Same == {b \in 0..n : \A pos \in n + 1 - b..n : w[pos] = v[pos]}
<1>11. 0 \in Same
  BY <1>1
<1>12. ASSUME NEW b \in 0..n - 1, b \in Same PROVE b + 1 \in Same
  <2> DEFINE at == n - b
  <2>1. at \in 1..n /\ b + 1 \in 0..n /\ n + 1 - (b + 1) = at
        /\ n + 1 - b = at + 1 /\ at \in Nat
    BY <1>1
  <2> HIDE DEF at
  <2>2. \A p \in at + 1..n : w[p] = v[p] /\ v[p] \in Parts
    BY <1>1, <1>12, <2>1
  <2>3. TurnAt(replace, groups, w, at) = TurnAt(replace, groups, v, at)
    BY <1>t, <2>1, <2>2, Zenon
  <2>5. w[at] = v[at]
    BY <1>6, <1>10, <2>1, <2>3
  <2>4. ASSUME NEW p \in at..n PROVE w[p] = v[p]
    <3>1. p = at \/ p \in at + 1..n
      BY <1>1, <2>1
    <3> QED
      BY <2>2, <2>5, <3>1
  <2> QED
    BY <2>1, <2>4
<1>13. \A b \in 0..n : b \in Same
  <2> HIDE DEF Same
  <2> QED
    BY <1>1, <1>11, <1>12, BoundedInduction
<1>14. \A pos \in 1..n : w[pos] = v[pos]
  <2>1. n + 1 - n = 1 /\ n \in Same
    BY <1>1, <1>13
  <2> QED
    BY <2>1
<1>15. v[1] = w[1]
  BY <1>1, <1>14
<1> QED
  BY <1>6, <1>9, <1>15 DEF n

-----------------------------------------------------------------------------
(***************************************************************************)
(* The words of a clean replacement, in the text and in the loop.          *)
(***************************************************************************)
\* Where the words of a text are, and that it begins with what the first of
\* them make.
LaysOut(g, words) ==
    /\ Len(g[0]) = 0
    /\ \A k \in 0..Len(words) :
         \A j \in 1..Len(g[k]) : g[Len(words)][j] = g[k][j]
    /\ \A k \in 0..Len(words) : Len(g[k]) <= Len(g[Len(words)])
    /\ \A k \in 1..Len(words) :
         /\ Len(g[k]) = Len(g[k - 1]) + Len(words[k])
         /\ \A j \in 1..Len(words[k]) :
              g[Len(words)][Len(g[k - 1]) + j] = words[k][j]

\* Every word stands in the whole text where the words before it end.
LEMMA WordsInText ==
    ASSUME NEW S, NEW words \in Seq(Seq(S)),
           NEW g \in [0..Len(words) -> Seq(S)], Glues(g, words, Len(words))
    PROVE  LaysOut(g, words)
<1> DEFINE n == Len(words)
           all == g[n]
           Begins == {b \in 0..n : \A k \in 0..b :
                        /\ Len(g[k]) <= Len(g[b])
                        /\ \A j \in 1..Len(g[k]) : g[b][j] = g[k][j]}
<1>1. n \in Nat
  BY LenProperties
<1>2. \A k \in 0..n : g[k] \in Seq(S) /\ Len(g[k]) \in Nat
  BY <1>1, LenProperties
<1>3. ASSUME NEW k \in 1..n
      PROVE  /\ Len(g[k]) = Len(g[k - 1]) + Len(words[k])
             /\ \A j \in 1..Len(g[k - 1]) : g[k][j] = g[k - 1][j]
             /\ \A j \in 1..Len(words[k]) :
                  g[k][Len(g[k - 1]) + j] = words[k][j]
  <2>1. k - 1 \in 0..n
    BY <1>1
  <2> PICK before : before = g[k - 1]
    OBVIOUS
  <2> PICK word : word = words[k]
    OBVIOUS
  <2>2. before \in Seq(S) /\ word \in Seq(S)
    BY <1>2, <2>1, ElementOfSeq
  <2>3. PICK x \in Nat, y \in Nat : x = Len(before) /\ y = Len(word)
    BY <2>2, LenProperties
  <2>4. g[k] = before \o word
    BY DEF Glues
  <2> PICK both : both = before \o word
    OBVIOUS
  <2>5. /\ Len(both) = x + y
        /\ \A j \in 1..x + y : both[j] =
              IF j <= x THEN before[j] ELSE word[j - x]
    <3>1. /\ Len(before \o word) = Len(before) + Len(word)
          /\ \A j \in 1..Len(before) + Len(word) : (before \o word)[j] =
                IF j <= Len(before) THEN before[j] ELSE word[j - Len(before)]
      BY <2>2, ConcatProperties
    <3> QED
      BY <2>3, <3>1
  <2>6. ASSUME NEW j \in 1..x PROVE both[j] = before[j]
    <3>1. j \in 1..x + y /\ j <= x
      OBVIOUS
    <3> QED
      BY <2>5, <3>1
  <2>7. ASSUME NEW j \in 1..y PROVE both[x + j] = word[j]
    <3> PICK at : at = x + j
      OBVIOUS
    <3>1. at \in 1..x + y /\ ~(at <= x) /\ at - x = j
      OBVIOUS
    <3> QED
      BY <2>5, <3>1
  <2> QED
    BY <2>3, <2>4, <2>5, <2>6, <2>7
<1>4. 0 \in Begins
  BY <1>1, <1>2
<1>5. ASSUME NEW b \in 0..n - 1, b \in Begins PROVE b + 1 \in Begins
  <2> PICK c : c = b + 1
    OBVIOUS
  <2>1. c \in 1..n /\ c - 1 = b /\ c \in 0..n /\ b \in 0..n
    BY <1>1
  <2>2. /\ Len(g[c]) = Len(g[b]) + Len(words[c])
        /\ \A j \in 1..Len(g[b]) : g[c][j] = g[b][j]
    <3>1. /\ Len(g[c]) = Len(g[c - 1]) + Len(words[c])
          /\ \A j \in 1..Len(g[c - 1]) : g[c][j] = g[c - 1][j]
      BY <1>3, <2>1
    <3> QED
      BY <2>1, <3>1
  <2>3. Len(words[c]) \in Nat /\ Len(g[b]) \in Nat /\ Len(g[c]) \in Nat
    BY <1>2, <2>1, ElementOfSeq, LenProperties
  <2>5. Len(g[b]) <= Len(g[c])
    <3>1. \A x, y, z \in Nat : x = y + z => y <= x
      OBVIOUS
    <3> QED
      BY <2>2, <2>3, <3>1
  <2>4. ASSUME NEW k \in 0..c
        PROVE  /\ Len(g[k]) <= Len(g[c])
               /\ \A j \in 1..Len(g[k]) : g[c][j] = g[k][j]
    <3>1. CASE k = c
      BY <2>3, <3>1
    <3>2. CASE k # c
      <4>1. k \in 0..b /\ k \in 0..n
        BY <1>1, <2>1, <3>2
      <4>2. /\ Len(g[k]) <= Len(g[b]) /\ Len(g[k]) \in Nat
            /\ \A j \in 1..Len(g[k]) : g[b][j] = g[k][j]
        BY <1>2, <1>5, <4>1
      <4>3. Len(g[k]) <= Len(g[c])
        <5>1. \A x, y, z \in Nat : x <= y /\ y <= z => x <= z
          OBVIOUS
        <5> QED
          BY <2>3, <2>5, <4>2, <5>1
      <4>4. \A j \in 1..Len(g[k]) : j \in 1..Len(g[b])
        BY <2>3, <4>2
      <4> QED
        BY <2>2, <4>2, <4>3, <4>4
    <3> QED
      BY <3>1, <3>2
  <2>6. c \in Begins
    BY <2>1, <2>4
  <2> QED
    BY <2>6
<1>6. n \in Begins
  <2> HIDE DEF Begins
  <2>1. \A b \in 0..n : b \in Begins
    BY <1>1, <1>4, <1>5, BoundedInduction
  <2> QED
    BY <1>1, <2>1
<1>7. \A k \in 0..n : /\ Len(g[k]) <= Len(all)
                      /\ \A j \in 1..Len(g[k]) : all[j] = g[k][j]
  BY <1>6
<1> HIDE DEF Begins, all
<1>8. ASSUME NEW k \in 1..n, NEW j \in 1..Len(words[k])
      PROVE  all[Len(g[k - 1]) + j] = words[k][j]
  <2>1. k \in 0..n /\ k - 1 \in 0..n
    BY <1>1
  <2>2. PICK x \in Nat, y \in Nat : x = Len(g[k - 1]) /\ y = Len(words[k])
    BY <1>2, <2>1, ElementOfSeq, LenProperties
  <2> PICK at : at = x + j
    OBVIOUS
  <2>a. j \in 1..y
    BY <2>2
  <2>3. at \in 1..x + y
    BY <2>a
  <2>4. at \in 1..Len(g[k])
    BY <1>3, <2>2, <2>3
  <2>5. all[at] = g[k][at]
    BY <1>7, <2>1, <2>4
  <2>6. g[k][at] = words[k][j]
    BY <1>3, <2>2
  <2> QED
    BY <2>2, <2>5, <2>6
<1>9. Len(g[0]) = 0
  BY EmptySeq DEF Glues
<1> QED
  BY <1>3, <1>7, <1>8, <1>9 DEF all, LaysOut

\* Three parts can be put together from either end.
LEMMA PartsAssociate ==
    ASSUME NEW a \in Parts, NEW b \in Parts, NEW c \in Parts
    PROVE  (a \o b) \o c = a \o (b \o c)
BY ConcatAssociative DEF Parts

\* What a word becomes.
PartOf(word, groups) ==
    IF IsPlaceholder(word) THEN Group(groups, Tail(word)) ELSE word

\* All the turns of the loop.
Turns(replace, groups) ==
    {w \in [1..Len(replace) + 2 -> Parts] :
       \A pos \in 1..Len(replace) + 2 :
          w[pos] = TurnAt(replace, groups, w, pos)}

\* A place without a backslash is copied; nothing is behind the end.
LEMMA PlaceIsCopied ==
    ASSUME NEW replace \in Text, NEW groups \in Seq(Text),
           NEW w \in Turns(replace, groups), NEW pos \in 1..Len(replace) + 1,
           pos <= Len(replace) => replace[pos] # Backslash
    PROVE  /\ pos <= Len(replace) =>
                w[pos] = CharAt(replace, pos) \o w[pos + 1]
           /\ pos = Len(replace) + 1 =>
                /\ w[pos] = <<>> /\ w[pos + 1] = <<>>
                /\ CharAt(replace, pos) = <<NUL>>
<1>1. Len(replace) \in Nat /\ DOMAIN replace = 1..Len(replace)
  BY LenProperties DEF Text
<1>2. CASE pos <= Len(replace)
  <2>1. pos \in 1..Len(replace) + 2 /\ ~(pos > Len(replace))
        /\ pos # Len(replace) + 1
    BY <1>1, <1>2
  <2>2. w[pos] = TurnAt(replace, groups, w, pos)
    BY <2>1 DEF Turns
  <2> QED
    BY <1>2, <2>1, <2>2 DEF TurnAt
<1>3. CASE pos = Len(replace) + 1
  <2>1. /\ pos \in 1..Len(replace) + 2 /\ pos > Len(replace)
        /\ pos + 1 \in 1..Len(replace) + 2 /\ pos + 1 > Len(replace)
        /\ pos \notin DOMAIN replace /\ ~(pos <= Len(replace))
    BY <1>1, <1>3
  <2>2. /\ w[pos] = TurnAt(replace, groups, w, pos)
        /\ w[pos + 1] = TurnAt(replace, groups, w, pos + 1)
    BY <2>1 DEF Turns
  <2>3. w[pos] = <<>> /\ w[pos + 1] = <<>>
    BY <2>1, <2>2 DEF TurnAt
  <2>4. CharAt(replace, pos) = <<NUL>>
    BY <2>1 DEF CharAt
  <2> QED
    BY <2>1, <2>3, <2>4
<1> QED
  BY <1>1, <1>2, <1>3

\* The digits behind a place go up to q.
RunsTo(t, pos, q) ==
    /\ \A j \in pos + 1..q : IsDigit(t[j])
    /\ q < Len(t) => ~IsDigit(t[q + 1])

\* A backslash stands for the group of the digits up to q, if they are no more
\* than four.
LEMMA PlaceIsPut ==
    ASSUME NEW replace \in Text, NEW groups \in Seq(Text),
           NEW w \in Turns(replace, groups), NEW pos \in 1..Len(replace),
           replace[pos] = Backslash, NEW q \in pos..Len(replace),
           RunsTo(replace, pos, q), q <= pos + 4
    PROVE  /\ q = pos => w[pos] = <<Backslash>> \o CharAt(replace, q + 1)
                                                \o w[q + 2]
           /\ q # pos => w[pos] = Group(groups, SubSeq(replace, pos + 1, q))
                                    \o CharAt(replace, q + 1) \o w[q + 2]
<1> PICK n \in Nat : n = Len(replace)
  BY LenProperties DEF Text
<1> DEFINE index == SubSeq(replace, pos + 1, q)
<1>1. /\ pos \in Nat /\ q \in Nat /\ pos <= q /\ q <= n /\ pos <= n
      /\ 1 <= pos
  OBVIOUS
<1>2. /\ pos + 1 \in 1..Len(replace) + 1 /\ q \in (pos + 1) - 1..Len(replace)
      /\ pos \in 1..Len(replace) + 2 /\ ~(pos > Len(replace))
  BY <1>1
<1>3. RunOfDigits(replace, pos + 1) = index
  BY <1>2, RunIsThere DEF RunsTo
<1>4. \A j \in pos + 1..q : replace[j] \in STRING
  <2> SUFFICES ASSUME NEW j \in pos + 1..q PROVE replace[j] \in STRING
    OBVIOUS
  <2>1. j \in 1..Len(replace)
    BY <1>1
  <2> QED
    BY <2>1, ElementOfSeq DEF Text
<1>5. Len(index) = q - pos
  <2>1. Len(index) = IF pos + 1 <= q THEN q - (pos + 1) + 1 ELSE 0
    BY <1>1, <1>4, SubSeqProperties
  <2> QED
    BY <1>1, <2>1
<1>6. index = <<>> <=> q = pos
  <2>1. index \in Seq(STRING)
    BY <1>1, <1>4, SubSeqProperties
  <2>2. index = <<>> <=> Len(index) = 0
    BY <2>1, EmptySeq
  <2> HIDE DEF index
  <2> QED
    BY <1>1, <1>5, <2>2
<1> HIDE DEF index
<1>a. IndexAt(replace, pos + 1) = index /\ ~IsTooLong(replace, pos + 1)
  <2>1. Len(index) <= 4
    BY <1>1, <1>5
  <2> QED
    BY <1>2, <1>3, <2>1, IndexIsShort
<1>7. After(replace, pos) = q + 1 /\ q + 1 + 1 = q + 2
  BY <1>1, <1>a, <1>5 DEF After
<1>8. PutFor(replace, groups, pos) =
        IF q = pos THEN <<Backslash>> ELSE Group(groups, index)
  <2>1. <<>> \o Group(groups, index) = Group(groups, index)
    <3>1. Group(groups, index) \in Parts
      BY <1>1, PartsOfTurn
    <3> QED
      BY <3>1, ConcatEmptySeq DEF Parts
  <2> QED
    BY <1>a, <1>6, <2>1 DEF PutFor
<1>9. w[pos] = TurnAt(replace, groups, w, pos)
  BY <1>2 DEF Turns
<1>10. w[pos] = PutFor(replace, groups, pos)
                  \o CharAt(replace, After(replace, pos))
                  \o w[After(replace, pos) + 1]
  BY <1>2, <1>9 DEF TurnAt
<1> QED
  BY <1>7, <1>8, <1>10 DEF index

\* Where a word stands in a text.
Stands(word, t, before) ==
    /\ before + Len(word) <= Len(t)
    /\ \A j \in 1..Len(word) : t[before + j] = word[j]

\* A word is in the text, letter by letter.
LEMMA WordStands ==
    ASSUME NEW t \in Text, NEW word \in Text, NEW before \in Nat,
           Stands(word, t, before)
    PROVE  \E n \in Nat, m \in Nat :
              /\ n = Len(t) /\ m = Len(word) /\ before + m <= n
              /\ DOMAIN t = 1..n
              /\ word \in Seq(STRING) /\ word \in [1..m -> STRING]
              /\ \A j \in 1..m : before + j \in 1..n /\ t[before + j] = word[j]
<1>1. PICK n \in Nat, m \in Nat : n = Len(t) /\ m = Len(word)
  BY LenProperties DEF Text
<1>2. word \in Seq(STRING)
  BY SeqMonotonic DEF Text
<1>3. DOMAIN t = 1..n /\ word \in [1..m -> STRING]
  BY <1>1, <1>2, LenProperties DEF Text
<1>4. before + m <= n
  BY <1>1 DEF Stands
<1>5. \A j \in 1..m : before + j \in 1..n
  BY <1>4
<1>6. \A j \in 1..m : t[before + j] = word[j]
  BY <1>1 DEF Stands
<1> QED
  BY <1>1, <1>2, <1>3, <1>4, <1>5, <1>6

\* A character that is no backslash stays what it is, and so does a backslash
\* at the end, where the NUL behind the text is copied with it.
LEMMA CharacterIsPut ==
    ASSUME NEW replace \in Text, NEW groups \in Seq(Text),
           NEW w \in Turns(replace, groups), NEW word \in Text,
           NEW before \in Nat, Stands(word, replace, before), Len(word) = 1,
           word[1] # Backslash \/ before + 1 = Len(replace)
    PROVE  /\ word[1] # Backslash => w[before + 1] = word \o w[before + 2]
           /\ word[1] = Backslash =>
                word = <<Backslash>> /\ w[before + 1] = word \o <<NUL>>
<1>1. PICK n \in Nat, m \in Nat :
              /\ n = Len(replace) /\ m = Len(word) /\ before + m <= n
              /\ DOMAIN replace = 1..n
              /\ word \in Seq(STRING) /\ word \in [1..m -> STRING]
              /\ \A j \in 1..m : /\ before + j \in 1..n
                                 /\ replace[before + j] = word[j]
  BY WordStands
<1> PICK at : at = before + 1
  OBVIOUS
<1>2. /\ at \in 1..n /\ at \in Nat /\ at \in 1..Len(replace) + 1
      /\ at + 1 = before + 2 /\ replace[at] = word[1]
  <2>1. 1 \in 1..m
    BY <1>1
  <2> QED
    BY <1>1, <2>1
<1>3. word = <<word[1]>>
  <2>1. Len(word) = 1 /\ word \in Seq(STRING)
    BY <1>1
  <2> QED
    BY <2>1
<1>4. CASE word[1] # Backslash
  <2>1. w[at] = CharAt(replace, at) \o w[at + 1]
    <3>1. at <= Len(replace)
      BY <1>1, <1>2
    <3> QED
      BY <1>2, <1>4, <3>1, PlaceIsCopied
  <2>2. CharAt(replace, at) = <<word[1]>>
    BY <1>1, <1>2 DEF CharAt
  <2> QED
    BY <1>2, <1>3, <1>4, <2>1, <2>2
<1>5. CASE word[1] = Backslash
  <2>1. at = n /\ n \in 1..Len(replace) /\ n \in n..Len(replace)
        /\ ~(n < Len(replace)) /\ replace[n] = Backslash /\ n <= n + 4
    BY <1>1, <1>2, <1>5
  <2>2. RunsTo(replace, n, n)
    BY <2>1 DEF RunsTo
  <2>3. w[n] = <<Backslash>> \o CharAt(replace, n + 1) \o w[n + 2]
    BY <2>1, <2>2, PlaceIsPut
  <2>4. n + 1 \in 1..Len(replace) + 1 /\ ~(n + 1 <= Len(replace))
        /\ n + 1 + 1 = n + 2 /\ n + 1 = Len(replace) + 1
    BY <1>1
  <2>5. w[n + 1 + 1] = <<>> /\ CharAt(replace, n + 1) = <<NUL>>
    BY <2>4, PlaceIsCopied
  <2>6. (<<Backslash>> \o <<NUL>>) \o <<>> = <<Backslash>> \o <<NUL>>
    <3>1. <<Backslash>> \o <<NUL>> \in Seq({Backslash, NUL})
      OBVIOUS
    <3> QED
      BY <3>1, ConcatEmptySeq
  <2>7. word = <<Backslash>>
    BY <1>3, <1>5
  <2>8. w[n] = <<Backslash>> \o <<NUL>>
    BY <2>3, <2>4, <2>5, <2>6
  <2> QED
    BY <1>2, <1>5, <2>1, <2>7, <2>8
<1> QED
  BY <1>4, <1>5

\* A backslash stays with the character behind it that is no digit.
LEMMA EscapeIsPut ==
    ASSUME NEW replace \in Text, NEW groups \in Seq(Text),
           NEW w \in Turns(replace, groups), NEW word \in Text,
           NEW before \in Nat, Stands(word, replace, before), IsEscape(word)
    PROVE  w[before + 1] = word \o w[before + 3]
<1>1. PICK n \in Nat, m \in Nat :
              /\ n = Len(replace) /\ m = Len(word) /\ before + m <= n
              /\ DOMAIN replace = 1..n
              /\ word \in Seq(STRING) /\ word \in [1..m -> STRING]
              /\ \A j \in 1..m : /\ before + j \in 1..n
                                 /\ replace[before + j] = word[j]
  BY WordStands
<1>2. m = 2 /\ word[1] = Backslash /\ ~IsDigit(word[2])
  BY <1>1 DEF IsEscape
<1> PICK at : at = before + 1
  OBVIOUS
<1>3. /\ at \in 1..n /\ at \in 1..Len(replace) /\ at \in at..Len(replace)
      /\ at + 1 \in 1..n /\ at + 2 = before + 3 /\ at + 1 = before + 2
      /\ replace[at] = Backslash /\ replace[at + 1] = word[2]
  <2>1. 1 \in 1..m /\ 2 \in 1..m
    BY <1>2
  <2>2. replace[before + 1] = word[1] /\ replace[before + 2] = word[2]
    BY <1>1, <2>1
  <2> QED
    BY <1>1, <1>2, <2>2
<1>4. RunsTo(replace, at, at)
  BY <1>2, <1>3 DEF RunsTo
<1>5. w[at] = <<Backslash>> \o CharAt(replace, at + 1) \o w[at + 2]
  <2>1. at \in 1..Len(replace) /\ at \in at..Len(replace)
        /\ replace[at] = Backslash
    BY <1>3
  <2>2. at <= at + 4
    BY <1>3
  <2> QED
    BY <1>4, <2>1, <2>2, PlaceIsPut
<1>6. CharAt(replace, at + 1) = <<word[2]>>
  BY <1>1, <1>3 DEF CharAt
<1>7. word = <<Backslash>> \o <<word[2]>>
  <2>1. Len(word) = 2 /\ word \in Seq(STRING) /\ word[1] = Backslash
    BY <1>1, <1>2
  <2>2. word = <<word[1], word[2]>>
    BY <2>1
  <2> QED
    BY <2>1, <2>2
<1> QED
  BY <1>3, <1>5, <1>6, <1>7

\* Where a word ends, and that no other placeholder begins there, nor do the
\* digits go on.
IsBehind(at, word, before) == at = before + Len(word) + 1

IsPlain(t, at) == at <= Len(t) => t[at] # Backslash /\ ~IsDigit(t[at])

\* A group is put at a place, with the character behind it; the loop goes on
\* behind that.
GroupIsPut(replace, w, pos, group, at) ==
    w[pos] = group \o CharAt(replace, at) \o w[at + 1]

\* A group is put at a place; the loop goes on with the character behind it.
GroupIsLeft(replace, w, pos, group, at) ==
    /\ at <= Len(replace) => w[pos] = group \o w[at]
    /\ at = Len(replace) + 1 => w[pos] = group \o <<NUL>>

\* What is copied behind a group is no concern of the group.  It is what the
\* loop makes of the place there, but behind the text it is its NUL.
LEMMA GroupIsApart ==
    ASSUME NEW replace \in Text, NEW groups \in Seq(Text),
           NEW w \in Turns(replace, groups), NEW pos \in Nat,
           NEW group \in Parts,
           NEW at \in 1..Len(replace) + 1, IsPlain(replace, at),
           GroupIsPut(replace, w, pos, group, at)
    PROVE  GroupIsLeft(replace, w, pos, group, at)
<1> USE DEF GroupIsPut, GroupIsLeft
<1>1. at + 1 \in 1..Len(replace) + 2 /\ at \in Nat
  BY LenProperties DEF Text
<1>2. w[at + 1] \in Parts
  BY <1>1 DEF Turns
<1>3. CharAt(replace, at) \in Parts
  BY <1>1, PartsOfTurn
<1>4. (group \o CharAt(replace, at)) \o w[at + 1]
        = group \o (CharAt(replace, at) \o w[at + 1])
  BY <1>2, <1>3, PartsAssociate
<1>5. at <= Len(replace) => replace[at] # Backslash
  BY DEF IsPlain
<1>6. CASE at <= Len(replace)
  <2>1. w[at] = CharAt(replace, at) \o w[at + 1]
    BY <1>5, <1>6, PlaceIsCopied
  <2>2. ~(at = Len(replace) + 1)
    BY <1>6, LenProperties DEF Text
  <2> QED
    BY <1>4, <2>1, <2>2
<1>7. CASE at = Len(replace) + 1
  <2>1. w[at + 1] = <<>> /\ CharAt(replace, at) = <<NUL>>
    BY <1>5, <1>7, PlaceIsCopied
  <2>2. group \o <<NUL>> \in Parts
    BY <1>3, <2>1, ConcatProperties DEF Parts
  <2>3. (group \o <<NUL>>) \o <<>> = group \o <<NUL>>
    BY <2>2, ConcatEmptySeq DEF Parts
  <2>4. ~(at <= Len(replace))
    BY <1>7, LenProperties DEF Text
  <2> QED
    BY <2>1, <2>3, <2>4
<1>8. at <= Len(replace) \/ at = Len(replace) + 1
  BY LenProperties DEF Text
<1> QED
  BY <1>6, <1>7, <1>8

\* A placeholder is replaced by its group; the character behind it is copied.
LEMMA PlaceholderIsRead ==
    ASSUME NEW replace \in Text, NEW groups \in Seq(Text),
           NEW w \in Turns(replace, groups), NEW word \in Text,
           NEW before \in Nat, Stands(word, replace, before),
           IsPlaceholder(word),
           NEW at \in Nat, IsBehind(at, word, before), IsPlain(replace, at)
    PROVE  /\ at \in 1..Len(replace) + 1
           /\ GroupIsPut(replace, w, before + 1, Group(groups, Tail(word)), at)
<1>1. PICK n \in Nat, m \in Nat :
              /\ n = Len(replace) /\ m = Len(word) /\ before + m <= n
              /\ DOMAIN replace = 1..n
              /\ word \in Seq(STRING) /\ word \in [1..m -> STRING]
              /\ \A j \in 1..m : /\ before + j \in 1..n
                                 /\ replace[before + j] = word[j]
  BY WordStands
<1>2. /\ m > 1 /\ m <= 5 /\ word[1] = Backslash
      /\ \A j \in 2..m : IsDigit(word[j])
  <2>1. /\ Len(word) \in 2..5 /\ word[1] = Backslash
        /\ \A j \in 2..Len(word) : IsDigit(word[j])
    BY Zenon DEF IsPlaceholder, MAX_IDX_LEN
  <2>2. m \in 2..5 /\ \A j \in 2..m : IsDigit(word[j])
    BY <1>1, <2>1, Zenon
  <2> QED
    BY <2>1, <2>2
<1> PICK pos : pos = before + 1
  OBVIOUS
<1> PICK q : q = before + m
  OBVIOUS
<1>3. /\ pos \in 1..n /\ q \in pos..n /\ pos \in Nat /\ q \in Nat /\ q # pos
      /\ q + 1 = before + m + 1 /\ pos < q /\ q <= n /\ q - pos = m - 1
      /\ q <= pos + 4
  BY <1>1, <1>2
<1>4. replace[pos] = Backslash
  <2>1. 1 \in 1..m
    BY <1>2
  <2>2. replace[before + 1] = word[1]
    BY <1>1, <2>1
  <2> QED
    BY <1>2, <2>2
<1>5. ASSUME NEW j \in pos + 1..q
      PROVE  replace[j] = word[j - before] /\ j - before \in 2..m
  <2> PICK x : x = j - before
    OBVIOUS
  <2>1. x \in 2..m /\ x \in 1..m /\ before + x = j
    BY <1>3
  <2> QED
    BY <1>1, <2>1
<1>6. \A j \in pos + 1..q : IsDigit(replace[j])
  BY <1>2, <1>5
<1>7. /\ at = q + 1
      /\ q < n => replace[q + 1] # Backslash /\ ~IsDigit(replace[q + 1])
  <2>1. at = q + 1
    BY <1>1, <1>3 DEF IsBehind
  <2> QED
    BY <1>1, <1>3, <2>1 DEF IsPlain
<1>8. w[pos] = Group(groups, SubSeq(replace, pos + 1, q))
                 \o CharAt(replace, q + 1) \o w[q + 2]
  <2>1. pos \in 1..Len(replace) /\ q \in pos..Len(replace) /\ q # pos
    BY <1>1, <1>3
  <2>2. RunsTo(replace, pos, q)
    BY <1>1, <1>6, <1>7 DEF RunsTo
  <2> QED
    BY <1>3, <1>4, <2>1, <2>2, PlaceIsPut
<1> PICK index : index = SubSeq(replace, pos + 1, q)
  OBVIOUS
<1>9. index = Tail(word)
  <2> PICK from : from = pos + 1
    OBVIOUS
  <2>1. from \in Int /\ q \in Int /\ from <= q /\ q - from + 1 = m - 1
    BY <1>3
  <2>2. \A j \in from..q : replace[j] \in STRING
    <3> SUFFICES ASSUME NEW j \in from..q PROVE replace[j] \in STRING
      OBVIOUS
    <3>1. j \in 1..Len(replace)
      BY <1>1, <1>3
    <3> QED
      BY <3>1, ElementOfSeq DEF Text
  <2>3. /\ SubSeq(replace, from, q) \in Seq(STRING)
        /\ Len(SubSeq(replace, from, q)) =
             IF from <= q THEN q - from + 1 ELSE 0
        /\ \A x \in 1..q - from + 1 :
             SubSeq(replace, from, q)[x] = replace[from + x - 1]
    BY <2>1, <2>2, SubSeqProperties
  <2>4. /\ index \in Seq(STRING) /\ Len(index) = m - 1
        /\ \A x \in 1..m - 1 : index[x] = replace[from + x - 1]
    BY <2>1, <2>3
  <2>5. word # <<>>
    BY <1>1, <1>2
  <2>6. /\ Tail(word) \in Seq(STRING) /\ Len(Tail(word)) = m - 1
        /\ \A x \in 1..m - 1 : Tail(word)[x] = word[x + 1]
    <3>1. word \in Seq(STRING) /\ m = Len(word)
      BY <1>1
    <3> QED
      BY <2>5, <3>1, HeadTailProperties
  <2>7. ASSUME NEW x \in 1..m - 1 PROVE index[x] = Tail(word)[x]
    <3> PICK j : j = pos + x
      OBVIOUS
    <3>1. j \in pos + 1..q /\ j - before = x + 1 /\ from + x - 1 = j
      BY <1>3, <2>1
    <3> QED
      BY <1>5, <2>4, <2>6, <3>1
  <2> QED
    BY <2>4, <2>6, <2>7, SeqEqual
<1>10. at \in 1..Len(replace) + 1 /\ at + 1 = q + 2 /\ q + 1 = at
  <2>1. q + 1 \in 1..n + 1 /\ q + 1 + 1 = q + 2
    BY <1>3
  <2> QED
    BY <1>1, <1>7, <2>1
<1>11. w[before + 1] = Group(groups, Tail(word))
                         \o CharAt(replace, at) \o w[at + 1]
  BY <1>8, <1>9, <1>10
<1> QED
  BY <1>10, <1>11 DEF GroupIsPut

\* A placeholder is replaced by its group, and by the NUL of the text if it
\* ends it.
LEMMA PlaceholderIsPut ==
    ASSUME NEW replace \in Text, NEW groups \in Seq(Text),
           NEW w \in Turns(replace, groups), NEW word \in Text,
           NEW before \in Nat, Stands(word, replace, before),
           IsPlaceholder(word),
           NEW at \in Nat, IsBehind(at, word, before), IsPlain(replace, at)
    PROVE  /\ at \in 1..Len(replace) + 1
           /\ at <= Len(replace) =>
                w[before + 1] = Group(groups, Tail(word)) \o w[at]
           /\ at = Len(replace) + 1 =>
                w[before + 1] = Group(groups, Tail(word)) \o <<NUL>>
<1>1. at \in 1..Len(replace) + 1
  BY PlaceholderIsRead, Zenon
<1>2. before + 1 \in Nat /\ Group(groups, Tail(word)) \in Parts
  BY PartsOfTurn
<1>3. GroupIsPut(replace, w, before + 1, Group(groups, Tail(word)), at)
  BY PlaceholderIsRead, Zenon
<1>4. GroupIsLeft(replace, w, before + 1, Group(groups, Tail(word)), at)
  BY <1>1, <1>2, <1>3, GroupIsApart
<1> QED
  BY <1>1, <1>4 DEF GroupIsLeft

\* The text goes on behind a word as it does in a clean replacement.
GoesOn(word, replace, before) ==
    \/ Len(word) = 1 /\ (word[1] # Backslash \/ before + 1 = Len(replace))
    \/ IsEscape(word)
    \/ IsPlaceholder(word) /\ IsPlain(replace, before + Len(word) + 1)

\* A word with which the NUL behind the text is copied, if it ends it.
TakesEnd(word) == IsPlaceholder(word) \/ word = <<Backslash>>

\* What the loop puts behind the part for a word.
Rest(word, replace, w, before) ==
    IF TakesEnd(word) /\ before + Len(word) = Len(replace) THEN <<NUL>>
    ELSE w[before + Len(word) + 1]

\* The loop puts the part for the word behind a place.
GivesWay(word, groups, replace, w, before) ==
    w[before + 1] = PartOf(word, groups) \o Rest(word, replace, w, before)

\* A word of a clean replacement gives way to its part.
LEMMA WordIsPut ==
    ASSUME NEW replace \in Text, NEW groups \in Seq(Text),
           NEW w \in Turns(replace, groups), NEW word \in Text,
           NEW before \in Nat, Stands(word, replace, before),
           GoesOn(word, replace, before)
    PROVE  GivesWay(word, groups, replace, w, before)
<1>1. CASE Len(word) = 1 /\ (word[1] # Backslash \/ before + 1 = Len(replace))
  <2>1. /\ word[1] # Backslash => w[before + 1] = word \o w[before + 2]
        /\ word[1] = Backslash =>
             word = <<Backslash>> /\ w[before + 1] = word \o <<NUL>>
    BY <1>1, CharacterIsPut
  <2>2. ~IsPlaceholder(word)
    BY <1>1 DEF IsPlaceholder
  <2>3. before + Len(word) + 1 = before + 2 /\ before + Len(word) = before + 1
    BY <1>1
  <2>4. CASE word[1] # Backslash
    <3>1. word # <<Backslash>>
      BY <2>4
    <3>2. Rest(word, replace, w, before) = w[before + 2]
      BY <2>2, <2>3, <3>1 DEF Rest, TakesEnd
    <3> QED
      BY <2>1, <2>2, <2>4, <3>2 DEF PartOf, GivesWay
  <2>5. CASE word[1] = Backslash
    <3>1. Rest(word, replace, w, before) = <<NUL>>
      BY <1>1, <2>1, <2>3, <2>5 DEF Rest, TakesEnd
    <3> QED
      BY <2>1, <2>2, <2>5, <3>1 DEF PartOf, GivesWay
  <2> QED
    BY <2>4, <2>5
<1>2. CASE IsEscape(word)
  <2>1. w[before + 1] = word \o w[before + 3]
    BY <1>2, EscapeIsPut
  <2>2. ~IsPlaceholder(word)
    BY <1>2 DEF IsPlaceholder, IsEscape
  <2>3. before + Len(word) + 1 = before + 3
    BY <1>2 DEF IsEscape
  <2>4. word # <<Backslash>>
    BY <1>2 DEF IsEscape
  <2>5. Rest(word, replace, w, before) = w[before + 3]
    BY <2>2, <2>3, <2>4 DEF Rest, TakesEnd
  <2> QED
    BY <2>1, <2>2, <2>5 DEF PartOf, GivesWay
<1>3. CASE IsPlaceholder(word) /\ IsPlain(replace, before + Len(word) + 1)
  <2>1. PICK all \in Nat, m \in Nat : all = Len(replace) /\ m = Len(word)
    BY LenProperties DEF Text
  <2> PICK at \in Nat : at = before + m + 1
    OBVIOUS
  <2>2. IsBehind(at, word, before) /\ IsPlain(replace, at)
    BY <1>3, <2>1 DEF IsBehind
  <2>3. /\ at \in 1..Len(replace) + 1
        /\ at <= Len(replace) =>
             w[before + 1] = Group(groups, Tail(word)) \o w[at]
        /\ at = Len(replace) + 1 =>
             w[before + 1] = Group(groups, Tail(word)) \o <<NUL>>
    BY <1>3, <2>2, PlaceholderIsPut
  <2>4. PartOf(word, groups) = Group(groups, Tail(word)) /\ TakesEnd(word)
    BY <1>3 DEF PartOf, TakesEnd
  <2>5. CASE before + m = all
    <3>1. Rest(word, replace, w, before) = <<NUL>>
      BY <2>1, <2>4, <2>5 DEF Rest
    <3>2. at = Len(replace) + 1
      BY <2>1, <2>5
    <3> QED
      BY <2>3, <2>4, <3>1, <3>2 DEF GivesWay
  <2>6. CASE before + m # all
    <3>1. Rest(word, replace, w, before) = w[at]
      BY <2>1, <2>6 DEF Rest
    <3>2. at <= Len(replace)
      BY <2>1, <2>3, <2>6
    <3> QED
      BY <2>3, <2>4, <3>1, <3>2 DEF GivesWay
  <2> QED
    BY <2>5, <2>6
<1> QED
  BY <1>1, <1>2, <1>3 DEF GoesOn

\* What a word needs of the words around it.
IsGood(words, k) ==
    \/ Len(words[k]) = 1 /\ (words[k][1] # Backslash \/ k = Len(words))
    \/ IsEscape(words[k])
    \/ /\ IsPlaceholder(words[k])
       /\ k < Len(words) => /\ words[k + 1][1] # Backslash
                            /\ ~IsDigit(words[k + 1][1])

\* The text goes on as the words do: the next word begins where this one ends.
LEMMA WordsGoOn ==
    ASSUME NEW words, NEW n \in Nat, n = Len(words), NEW k \in 1..n,
           IsGood(words, k), NEW replace, NEW all \in Nat, all = Len(replace),
           NEW before \in Nat, NEW m \in Nat, m = Len(words[k]),
           k = n => before + m = all,
           k < n => replace[before + m + 1] = words[k + 1][1]
    PROVE  GoesOn(words[k], replace, before)
<1>1. k = n \/ k < n
  OBVIOUS
<1>2. CASE Len(words[k]) = 1 /\ (words[k][1] # Backslash \/ k = Len(words))
  <2>1. words[k][1] # Backslash \/ before + 1 = Len(replace)
    BY <1>2
  <2> QED
    BY <1>2, <2>1 DEF GoesOn
<1>3. CASE IsEscape(words[k])
  BY <1>3 DEF GoesOn
<1>4. CASE /\ IsPlaceholder(words[k])
           /\ k < Len(words) => /\ words[k + 1][1] # Backslash
                                /\ ~IsDigit(words[k + 1][1])
  <2> PICK at : at = before + m + 1
    OBVIOUS
  <2>1. at <= all => replace[at] # Backslash /\ ~IsDigit(replace[at])
    <3>1. CASE k = n
      <4>1. ~(at <= all)
        BY <3>1
      <4> QED
        BY <4>1
    <3>2. CASE k < n
      BY <1>4, <3>2
    <3> QED
      BY <1>1, <3>1, <3>2
  <2>2. IsPlain(replace, at)
    BY <2>1 DEF IsPlain
  <2>3. IsPlain(replace, before + Len(words[k]) + 1)
    BY <2>2
  <2> QED
    BY <1>4, <2>3 DEF GoesOn
<1> QED
  BY <1>2, <1>3, <1>4 DEF IsGood

\* The words of a clean replacement are good, and not empty.
LEMMA WordsAreGood ==
    ASSUME NEW words \in Seq(Text), IsClean(words), NEW k \in 1..Len(words)
    PROVE  /\ IsGood(words, k)
           /\ words[k] \in Text
           /\ Len(words[k]) \in Nat
           /\ 1 \in 1..Len(words[k])
<1>1. k \in DOMAIN words /\ words[k] \in Text
  BY LenProperties, ElementOfSeq
<1>2. IsGood(words, k)
  BY <1>1 DEF IsClean, IsGood
<1>3. Len(words[k]) \in Nat
  BY <1>1, LenProperties DEF Text
<1>4. Len(words[k]) = 1 \/ Len(words[k]) = 2 \/ Len(words[k]) \in 2..5
  <2>1. IsEscape(words[k]) => Len(words[k]) = 2
    BY DEF IsEscape
  <2>2. IsPlaceholder(words[k]) => Len(words[k]) \in 2..5
    BY DEF IsPlaceholder, MAX_IDX_LEN
  <2> QED
    BY <1>2, <2>1, <2>2, Zenon DEF IsGood
<1>5. 1 \in 1..Len(words[k])
  <2>1. \A m \in Nat : m = 1 \/ m = 2 \/ m \in 2..5 => m > 0
    OBVIOUS
  <2>2. Len(words[k]) > 0
    BY <1>3, <1>4, <2>1
  <2> QED
    BY <1>3, <2>2
<1> QED
  BY <1>1, <1>2, <1>3, <1>5

\* What the loop puts behind a word: the rest, and behind the last word
\* nothing but the NUL.
Left(words, t, w, k) ==
    IF k = Len(words) /\ TakesEnd(words[k]) THEN <<NUL>>
    ELSE w[Len(t[k]) + 1]

\* Wherever the loop comes to a word, it goes on behind the word.
LEMMA WordsGiveWay ==
    ASSUME NEW words \in Seq(Text), IsClean(words),
           NEW groups \in Seq(Text),
           NEW t \in [0..Len(words) -> Text], Glues(t, words, Len(words)),
           NEW w \in Turns(t[Len(words)], groups), NEW k \in 1..Len(words)
    PROVE  w[Len(t[k - 1]) + 1]
             = PartOf(words[k], groups) \o Left(words, t, w, k)
<1> PICK n \in Nat : n = Len(words)
  BY LenProperties
<1> PICK replace : replace = t[n]
  OBVIOUS
<1>1. /\ k \in 1..n /\ n \in 0..n /\ k - 1 \in 0..n /\ k \in 0..n
      /\ k < n => k + 1 \in 1..n /\ k + 1 - 1 = k
  OBVIOUS
<1>2. /\ \A l \in 0..n : Len(t[l]) <= Len(replace)
      /\ \A l \in 1..n :
           /\ Len(t[l]) = Len(t[l - 1]) + Len(words[l])
           /\ \A j \in 1..Len(words[l]) :
                replace[Len(t[l - 1]) + j] = words[l][j]
  <2> PICK S : S = STRING \ {FAIL, STOP, NUL}
    OBVIOUS
  <2>1. words \in Seq(Seq(S)) /\ t \in [0..Len(words) -> Seq(S)]
    BY DEF Text
  <2>2. LaysOut(t, words)
    BY <2>1, WordsInText
  <2> QED
    BY <2>2 DEF LaysOut
<1>3. replace \in Text /\ t[k - 1] \in Text /\ t[k] \in Text
  BY <1>1
<1> PICK all \in Nat, before \in Nat, m \in Nat :
           all = Len(replace) /\ before = Len(t[k - 1]) /\ m = Len(words[k])
  BY <1>1, <1>3, WordsAreGood, LenProperties DEF Text
<1>4. Len(t[k]) = before + m /\ before + m <= all
  BY <1>1, <1>2
<1>5. Stands(words[k], replace, before)
  BY <1>1, <1>2, <1>4 DEF Stands
<1>6. k = n => before + m = all
  BY <1>4
<1>7. k < n => replace[before + m + 1] = words[k + 1][1]
  <2> SUFFICES ASSUME k < n PROVE replace[before + m + 1] = words[k + 1][1]
    OBVIOUS
  <2> PICK l \in 1..n : l = k + 1 /\ l - 1 = k
    BY <1>1
  <2>1. 1 \in 1..Len(words[l])
    BY WordsAreGood
  <2>2. replace[Len(t[l - 1]) + 1] = words[l][1]
    BY <1>2, <2>1
  <2> QED
    BY <1>4, <2>2
<1>8. IsGood(words, k) /\ words[k] \in Text
  BY <1>1, WordsAreGood
<1>9. GoesOn(words[k], replace, before)
  BY <1>1, <1>6, <1>7, <1>8, WordsGoOn
<1>10. w[before + 1]
         = PartOf(words[k], groups) \o Rest(words[k], replace, w, before)
  <2> PICK word \in Text : word = words[k]
    BY <1>8
  <2>1. w \in Turns(replace, groups) /\ Stands(word, replace, before)
        /\ GoesOn(word, replace, before)
    BY <1>5, <1>9
  <2>2. GivesWay(word, groups, replace, w, before)
    BY <1>3, <2>1, WordIsPut
  <2> QED
    BY <2>2 DEF GivesWay
<1>e. \A x, y \in Nat : x + y \in Nat
  OBVIOUS
<1> PICK end \in Nat : end = before + m
  BY <1>e, Zenon
<1>11. k < n => end < all
  <2> SUFFICES ASSUME k < n PROVE end < all
    OBVIOUS
  <2> PICK l \in 1..n : l = k + 1 /\ l - 1 = k
    BY <1>1
  <2>1. Len(words[l]) \in Nat /\ 1 \in 1..Len(words[l])
    BY WordsAreGood
  <2> PICK y \in Nat : y = Len(words[l])
    BY <2>1
  <2>2. 1 \in 1..y
    BY <2>1
  <2>3. /\ l \in 0..n
        /\ Len(t[l]) <= all
        /\ Len(t[l]) = Len(t[l - 1]) + Len(words[l])
    <3>1. \A x \in 1..n : x \in 0..n
      OBVIOUS
    <3> QED
      BY <1>2, <3>1, Zenon
  <2>4. Len(t[l]) = end + y
    <3>1. Len(t[l - 1]) = end /\ Len(words[l]) = y
      BY <1>4, Zenon
    <3> QED
      BY <2>3, <3>1, Zenon
  <2>5. end + y <= all
    BY <2>3, <2>4
  <2>6. \A x, z \in Nat : 1 \in 1..y /\ x + y <= z => x < z
    OBVIOUS
  <2> QED
    BY <2>2, <2>5, <2>6, Zenon
<1>12. Rest(words[k], replace, w, before) = Left(words, t, w, k)
  <2>1. end = all <=> k = n
    <3>1. CASE k = n
      BY <1>6, <3>1
    <3>2. CASE k # n
      <4>1. k < n
        BY <1>1, <3>2
      <4>2. end < all
        BY <1>11, <4>1
      <4>3. \A x, y \in Nat : x < y => x # y
        OBVIOUS
      <4> QED
        BY <3>2, <4>2, <4>3, Zenon
    <3> QED
      BY <3>1, <3>2
  <2>2. Rest(words[k], replace, w, before) =
          IF TakesEnd(words[k]) /\ end = all THEN <<NUL>>
          ELSE w[Len(t[k]) + 1]
    BY <1>4 DEF Rest
  <2>3. Left(words, t, w, k) =
          IF k = n /\ TakesEnd(words[k]) THEN <<NUL>>
          ELSE w[Len(t[k]) + 1]
    BY DEF Left
  <2> QED
    BY <2>1, <2>2, <2>3
<1> QED
  BY <1>10, <1>12

-----------------------------------------------------------------------------
(***************************************************************************)
(* What the loop makes of all the words.                                   *)
(***************************************************************************)
\* What the words of a replacement become.
PartsOf(words, groups) == [k \in DOMAIN words |-> PartOf(words[k], groups)]

\* They are as many as the words.
LEMMA PartsAreParts ==
    ASSUME NEW words \in Seq(Text), NEW groups \in Seq(Text)
    PROVE  /\ PartsOf(words, groups) \in Seq(Parts)
           /\ Len(PartsOf(words, groups)) = Len(words)
           /\ DOMAIN PartsOf(words, groups) = 1..Len(words)
           /\ \A k \in 1..Len(words) :
                PartsOf(words, groups)[k] = PartOf(words[k], groups)
<1>1. Len(words) \in Nat /\ DOMAIN words = 1..Len(words)
  BY LenProperties
<1>2. ASSUME NEW k \in 1..Len(words) PROVE PartOf(words[k], groups) \in Parts
  <2>1. words[k] \in Text
    BY ElementOfSeq
  <2>2. words[k] \in Parts
    BY <2>1, TextsAreParts
  <2>3. Group(groups, Tail(words[k])) \in Parts
    <3>1. 0 \in Nat
      OBVIOUS
    <3> QED
      BY <2>1, <3>1, PartsOfTurn
  <2> QED
    BY <2>2, <2>3 DEF PartOf
<1>3. PartsOf(words, groups) \in [1..Len(words) -> Parts]
  BY <1>1, <1>2 DEF PartsOf
<1>4. PartsOf(words, groups) \in Seq(Parts)
      /\ Len(PartsOf(words, groups)) = Len(words)
  BY <1>1, <1>3, LenProperties
<1> QED
  BY <1>1, <1>3, <1>4 DEF PartsOf

\* FlattenSeq puts texts together.
LEMMA TextsAreGlued ==
    ASSUME NEW words \in Seq(Text)
    PROVE  \E t \in [0..Len(words) -> Text] :
              Glues(t, words, Len(words)) /\ FlattenSeq(words) = t[Len(words)]
<1> PICK S : S = STRING \ {FAIL, STOP, NUL}
  OBVIOUS
<1>1. Text = Seq(S)
  BY DEF Text
<1>2. words \in Seq(Seq(S))
  BY <1>1
<1>3. \E t \in [0..Len(words) -> Seq(S)] :
         Glues(t, words, Len(words)) /\ FlattenSeq(words) = t[Len(words)]
  BY <1>2, FlattenedIsGlued
<1> QED
  BY <1>1, <1>3

\* FlattenSeq puts parts together.
LEMMA PartsAreGlued ==
    ASSUME NEW parts \in Seq(Parts)
    PROVE  \E p \in [0..Len(parts) -> Parts] :
              Glues(p, parts, Len(parts)) /\ FlattenSeq(parts) = p[Len(parts)]
<1> PICK S : S = STRING \cup {FAIL, STOP, NUL, Backslash}
  OBVIOUS
<1>1. Parts = Seq(S)
  BY DEF Parts
<1>2. parts \in Seq(Seq(S))
  BY <1>1
<1>3. \E p \in [0..Len(parts) -> Seq(S)] :
         Glues(p, parts, Len(parts)) /\ FlattenSeq(parts) = p[Len(parts)]
  BY <1>2, FlattenedIsGlued
<1> QED
  BY <1>1, <1>3

\* What the loop makes of a text is what the words before a place have become,
\* and what is left for it to do from there.
SoFar(words, w, p, t, k) == w[1] = p[k] \o Left(words, t, w, k)

\* That holds from any word on.
LEMMA LoopGoesOn ==
    ASSUME NEW words \in Seq(Text), IsClean(words),
           NEW groups \in Seq(Text),
           NEW t \in [0..Len(words) -> Text], Glues(t, words, Len(words)),
           NEW w \in Turns(t[Len(words)], groups), NEW k \in 1..Len(words),
           NEW p \in [0..Len(words) -> Parts],
           Glues(p, PartsOf(words, groups), Len(words)),
           SoFar(words, w, p, t, k - 1)
    PROVE  SoFar(words, w, p, t, k)
<1> PICK n \in Nat : n = Len(words)
  BY LenProperties
<1>1. k \in 1..n /\ k - 1 \in 0..n /\ k \in 0..n /\ n \in 0..n
  OBVIOUS
<1>2. w[Len(t[k - 1]) + 1] = PartOf(words[k], groups) \o Left(words, t, w, k)
  BY WordsGiveWay
<1>3. p[k] = p[k - 1] \o PartOf(words[k], groups)
  BY <1>1, PartsAreParts DEF Glues
<1>4. p[k - 1] \in Parts
  BY <1>1
<1>5. PartOf(words[k], groups) \in Parts
  BY PartsAreParts, ElementOfSeq
<1>6. Left(words, t, w, k) \in Parts
  <2> PICK replace \in Text, all \in Nat, m \in Nat :
             replace = t[n] /\ all = Len(replace) /\ m = Len(t[k])
    BY <1>1, LenProperties DEF Text
  <2>1. m <= all
    <3> PICK S : S = STRING \ {FAIL, STOP, NUL}
      OBVIOUS
    <3>1. words \in Seq(Seq(S)) /\ t \in [0..Len(words) -> Seq(S)]
      BY DEF Text
    <3>2. LaysOut(t, words)
      BY <3>1, WordsInText
    <3> QED
      BY <1>1, <3>2 DEF LaysOut
  <2>2. m + 1 \in 1..all + 2
    BY <2>1
  <2>3. w \in [1..all + 2 -> Parts]
    BY DEF Turns
  <2>4. <<NUL>> \in Parts
    BY DEF Parts
  <2> QED
    BY <2>2, <2>3, <2>4 DEF Left
<1>7. (p[k - 1] \o PartOf(words[k], groups)) \o Left(words, t, w, k)
        = p[k - 1] \o (PartOf(words[k], groups) \o Left(words, t, w, k))
  BY <1>4, <1>5, <1>6, PartsAssociate
<1>8. w[1] = p[k - 1] \o w[Len(t[k - 1]) + 1]
  <2>1. k - 1 # Len(words)
    BY <1>1
  <2>2. Left(words, t, w, k - 1) = w[Len(t[k - 1]) + 1]
    BY <2>1, Zenon DEF Left
  <2> QED
    BY <2>2 DEF SoFar
<1> QED
  BY <1>2, <1>3, <1>7, <1>8 DEF SoFar

\* What the loop copies from behind the text.
EndOf(words) == IF TakesEnd(words[Len(words)]) THEN <<NUL>> ELSE <<>>

\* The loop makes of every word of a clean replacement what becomes of it.
LEMMA SubstitutionIsGlued ==
    ASSUME NEW words \in Seq(Text), words # <<>>, IsClean(words),
           NEW groups \in Seq(Text)
    PROVE  Substitute(FlattenSeq(words), groups)
             = FlattenSeq(PartsOf(words, groups)) \o EndOf(words)
<1> PICK n \in Nat : n = Len(words) /\ n # 0
  BY LenProperties, EmptySeq
<1> PICK t \in [0..n -> Text] : Glues(t, words, n) /\ FlattenSeq(words) = t[n]
  BY TextsAreGlued
<1> PICK parts \in Seq(Parts) :
           parts = PartsOf(words, groups) /\ Len(parts) = n
  BY PartsAreParts
<1> PICK p \in [0..n -> Parts] : Glues(p, parts, n) /\ FlattenSeq(parts) = p[n]
  BY PartsAreGlued
<1> PICK replace \in Text : replace = t[n]
  OBVIOUS
<1>1. PICK w \in Turns(replace, groups) : Substitute(replace, groups) = w[1]
  BY SubstitutionTurns DEF Turns
<1> DEFINE Done == {k \in 0..n : SoFar(words, w, p, t, k)}
<1>2. w[Len(replace) + 1] = <<>> /\ w[1] \in Parts
  <2> PICK all \in Nat : all = Len(replace)
    BY LenProperties DEF Text
  <2>1. all + 1 \in 1..all + 1 /\ ~(all + 1 <= all) /\ 1 \in 1..all + 2
    OBVIOUS
  <2>2. w[all + 1] = <<>>
    BY <2>1, PlaceIsCopied
  <2>3. w \in [1..all + 2 -> Parts]
    BY DEF Turns
  <2> QED
    BY <2>1, <2>2, <2>3
<1>3. 0 \in Done
  <2>1. p[0] = <<>> /\ t[0] = <<>>
    BY DEF Glues
  <2>2. Len(t[0]) + 1 = 1
    BY <2>1, EmptySeq
  <2>3. <<>> \o w[1] = w[1]
    BY <1>2, ConcatEmptySeq DEF Parts
  <2>4. Left(words, t, w, 0) = w[1]
    BY <2>2 DEF Left
  <2>5. SoFar(words, w, p, t, 0)
    BY <2>1, <2>3, <2>4 DEF SoFar
  <2> QED
    BY <2>5
<1>4. \A k \in 0..n - 1 : k \in Done => k + 1 \in Done
  <2> SUFFICES ASSUME NEW k \in 0..n - 1, SoFar(words, w, p, t, k)
               PROVE  k + 1 \in Done
    OBVIOUS
  <2> PICK l \in 1..n : l = k + 1 /\ l - 1 = k
    OBVIOUS
  <2>1. SoFar(words, w, p, t, l - 1) /\ l \in 1..Len(words)
    OBVIOUS
  <2>2. SoFar(words, w, p, t, l)
    BY <2>1, LoopGoesOn
  <2> QED
    BY <2>2
<1>5. n \in Done
  <2> HIDE DEF Done
  <2>1. \A k \in 0..n : k \in Done
    BY <1>3, <1>4, BoundedInduction
  <2> QED
    BY <2>1
<1>6. Left(words, t, w, n) = EndOf(words)
  BY <1>2 DEF Left, EndOf
<1> QED
  BY <1>1, <1>5, <1>6 DEF SoFar

\* No text has a mark.
LEMMA TextsAreUnmarked ==
    ASSUME NEW t \in Text, NEW mark \in {FAIL, STOP, NUL}
    PROVE  ~IsMarked(t, mark)
<1> SUFFICES ASSUME NEW k \in DOMAIN t, t[k] = mark PROVE FALSE
  BY DEF IsMarked
<1>1. t[k] \in STRING \ {FAIL, STOP, NUL}
  BY LenProperties, ElementOfSeq DEF Text
<1> QED
  BY <1>1

\* What is put together has a mark if one of the two has.
LEMMA MarkOfTwo ==
    ASSUME NEW x \in Parts, NEW y \in Parts, NEW mark
    PROVE  IsMarked(x \o y, mark) <=> IsMarked(x, mark) \/ IsMarked(y, mark)
<1> PICK a \in Nat, b \in Nat : a = Len(x) /\ b = Len(y)
  BY LenProperties DEF Parts
<1> PICK z : z = x \o y
  OBVIOUS
<1>1. /\ Len(z) = a + b
      /\ \A k \in 1..a + b :
           z[k] = IF k <= a THEN x[k] ELSE y[k - a]
      /\ z \in Parts
  <2> PICK S : S = STRING \cup {FAIL, STOP, NUL, Backslash}
    OBVIOUS
  <2>1. x \in Seq(S) /\ y \in Seq(S)
    BY DEF Parts
  <2>2. /\ x \o y \in Seq(S)
        /\ Len(x \o y) = Len(x) + Len(y)
        /\ \A k \in 1..Len(x) + Len(y) :
             (x \o y)[k] = IF k <= Len(x) THEN x[k] ELSE y[k - Len(x)]
    BY <2>1, ConcatProperties
  <2> QED
    BY <2>2 DEF Parts
<1>2. DOMAIN x = 1..a /\ DOMAIN y = 1..b /\ DOMAIN z = 1..a + b
  BY <1>1, LenProperties DEF Parts
<1>3. ASSUME NEW k \in 1..a + b, z[k] = mark
      PROVE  IsMarked(x, mark) \/ IsMarked(y, mark)
  <2>1. CASE k <= a
    BY <1>1, <1>2, <1>3, <2>1 DEF IsMarked
  <2>2. CASE ~(k <= a)
    <3>1. k - a \in 1..b /\ y[k - a] = mark
      BY <1>1, <1>3, <2>2
    <3> QED
      BY <1>2, <3>1 DEF IsMarked
  <2> QED
    BY <2>1, <2>2
<1>4. ASSUME NEW k \in 1..a, x[k] = mark PROVE IsMarked(z, mark)
  <2>1. k \in 1..a + b /\ k <= a
    OBVIOUS
  <2> QED
    BY <1>1, <1>2, <1>4, <2>1 DEF IsMarked
<1>5. ASSUME NEW k \in 1..b, y[k] = mark PROVE IsMarked(z, mark)
  <2> PICK l \in 1..a + b : l = k + a /\ ~(l <= a) /\ l - a = k
    OBVIOUS
  <2>1. z[l] = mark
    BY <1>1, <1>5
  <2> QED
    BY <1>2, <2>1 DEF IsMarked
<1> QED
  BY <1>2, <1>3, <1>4, <1>5 DEF IsMarked

\* What is put together of parts has a mark if one of the parts has.
LEMMA MarkOfParts ==
    ASSUME NEW parts \in Seq(Parts), NEW n \in Nat, n = Len(parts),
           NEW p \in [0..n -> Parts], Glues(p, parts, n), NEW mark,
           NEW m \in 0..n
    PROVE  IsMarked(p[m], mark) <=> \E l \in 1..m : IsMarked(parts[l], mark)
<1> DEFINE Some(k) == \E l \in 1..k : IsMarked(parts[l], mark)
           Right   == {k \in 0..n : IsMarked(p[k], mark) <=> Some(k)}
<1>1. 0 \in Right
  <2>1. p[0] = <<>>
    BY DEF Glues
  <2>2. ~IsMarked(<<>>, mark)
    BY DEF IsMarked
  <2> QED
    BY <2>1, <2>2
<1>2. \A k \in 0..n - 1 : k \in Right => k + 1 \in Right
  <2> SUFFICES ASSUME NEW k \in 0..n - 1, IsMarked(p[k], mark) <=> Some(k)
               PROVE  k + 1 \in Right
    OBVIOUS
  <2> PICK l \in 1..n : l = k + 1 /\ l - 1 = k
    OBVIOUS
  <2>1. p[l] = p[k] \o parts[l]
    BY DEF Glues
  <2>2. p[k] \in Parts /\ parts[l] \in Parts
    BY ElementOfSeq
  <2>3. IsMarked(p[l], mark)
          <=> IsMarked(p[k], mark) \/ IsMarked(parts[l], mark)
    BY <2>1, <2>2, MarkOfTwo
  <2>4. 1..l = (1..k) \cup {l}
    OBVIOUS
  <2>5. Some(l) <=> Some(k) \/ IsMarked(parts[l], mark)
    BY <2>4
  <2> HIDE DEF Some
  <2> QED
    BY <2>3, <2>5
<1>3. \A k \in 0..n : k \in Right
  <2> HIDE DEF Right
  <2> QED
    BY <1>1, <1>2, BoundedInduction
<1> QED
  BY <1>3

\* A bad word stops the loop; any other becomes a group or stays.
LEMMA WordsAreParted ==
    ASSUME NEW word \in Text, NEW groups \in Seq(Text)
    PROVE  /\ IsBad(word, groups) => PartOf(word, groups) = <<STOP>>
           /\ ~IsBad(word, groups) =>
                /\ PartOf(word, groups) \in Text
                /\ PartOf(word, groups) = IF IsPlaceholder(word)
                                          THEN groups[atoi(Tail(word))]
                                          ELSE word
<1>1. CASE ~IsPlaceholder(word)
  BY <1>1 DEF PartOf, IsBad
<1>2. CASE IsPlaceholder(word)
  <2> PICK index : index = Tail(word)
    OBVIOUS
  <2> PICK number : number = atoi(index)
    OBVIOUS
  <2> PICK g \in Nat : g = Len(groups) /\ DOMAIN groups = 1..g
    BY LenProperties
  <2>2. CASE number \in (1..99) \cap (1..g)
    <3>1. number \in 1..99 /\ number <= g /\ number \in 1..Len(groups)
      BY <2>2
    <3>2. Group(groups, index) = groups[number]
      BY <3>1 DEF Group
    <3>3. groups[number] \in Text
      BY <3>1, ElementOfSeq
    <3>4. ~IsBad(word, groups)
      BY <2>2 DEF IsBad
    <3> QED
      BY <1>2, <3>2, <3>3, <3>4 DEF PartOf
  <2>3. CASE number \notin (1..99) \cap (1..g)
    <3>1. ~(number \in 1..99 /\ number <= g)
      <4>1. \A m \in 1..99 : m <= g => m \in (1..99) \cap (1..g)
        OBVIOUS
      <4> QED
        BY <2>3, <4>1, Zenon
    <3>2. Group(groups, index) = <<STOP>>
      BY <3>1 DEF Group
    <3>4. IsBad(word, groups)
      BY <1>2, <2>3 DEF IsBad
    <3> QED
      BY <1>2, <3>2, <3>4 DEF PartOf
  <2> QED
    BY <2>2, <2>3
<1> QED
  BY <1>1, <1>2

\* A clean replacement is no empty text.
LEMMA CleanIsNotEmpty ==
    ASSUME NEW words \in Seq(Text), words # <<>>, IsClean(words)
    PROVE  FlattenSeq(words) # <<>>
<1> PICK n \in Nat : n = Len(words)
  BY LenProperties
<1> PICK t \in [0..n -> Text] : Glues(t, words, n) /\ FlattenSeq(words) = t[n]
  BY TextsAreGlued
<1>1. n # 0
  BY EmptySeq
<1>2. 1 \in 1..n /\ 1 \in 0..n /\ 0 \in 0..n /\ n \in 0..n /\ 1 - 1 = 0
  BY <1>1
<1>3. LaysOut(t, words)
  <2> PICK S : S = STRING \ {FAIL, STOP, NUL}
    OBVIOUS
  <2>1. words \in Seq(Seq(S)) /\ t \in [0..Len(words) -> Seq(S)]
    BY DEF Text
  <2> QED
    BY <2>1, WordsInText
<1>4. /\ Len(t[0]) = 0 /\ Len(t[1]) <= Len(t[n])
      /\ Len(t[1]) = Len(t[0]) + Len(words[1])
  BY <1>2, <1>3 DEF LaysOut
<1>5. Len(words[1]) > 0 /\ Len(words[1]) \in Nat
  BY <1>2, WordsAreGood
<1>6. Len(t[n]) \in Nat
  BY <1>2, LenProperties DEF Text
<1>7. Len(t[n]) # 0
  BY <1>4, <1>5, <1>6
<1> QED
  BY <1>7, EmptySeq

\* What is written of what the loop makes: all of it up to a STOP.
LEMMA SizeUpTo ==
    ASSUME NEW made \in Parts, ~IsMarked(made, FAIL),
           NEW n \in Nat, n = Len(made), NEW m \in 0..n,
           \A k \in 1..m : made[k] # STOP,
           m < n => made[m + 1] = STOP
    PROVE  Size(made) = m
<1>1. DOMAIN made = 1..n
  BY LenProperties DEF Parts
<1> DEFINE written == {k \in DOMAIN made : /\ made[k] # FAIL
                                           /\ \A j \in 1..k : made[j] # STOP}
<1>2. written = 1..m
  <2>1. ASSUME NEW k \in written PROVE k \in 1..m
    <3> SUFFICES ASSUME m < k PROVE FALSE
      BY <1>1
    <3>1. m + 1 \in 1..k /\ m < n
      BY <1>1
    <3> QED
      BY <3>1
  <2>2. ASSUME NEW k \in 1..m PROVE k \in written
    <3>1. k \in DOMAIN made /\ \A j \in 1..k : j \in 1..m
      BY <1>1
    <3> QED
      BY <3>1 DEF IsMarked
  <2> QED
    BY <2>1, <2>2
<1>3. Cardinality(1..m) = m
  <2>1. Cardinality(1..m) = IF 1 > m THEN 0 ELSE m - 1 + 1
    BY FS_Interval
  <2> QED
    BY <2>1
<1> QED
  BY <1>2, <1>3 DEF Size

\* What the parts put together have at a place.
LEMMA BothParts ==
    ASSUME NEW x \in Parts, NEW y \in Parts
    PROVE  /\ x \o y \in Parts
           /\ Len(x \o y) = Len(x) + Len(y)
           /\ \A k \in 1..Len(x) : (x \o y)[k] = x[k]
<1> PICK a \in Nat, b \in Nat : a = Len(x) /\ b = Len(y)
  BY LenProperties DEF Parts
<1> PICK S : S = STRING \cup {FAIL, STOP, NUL, Backslash}
  OBVIOUS
<1>1. x \in Seq(S) /\ y \in Seq(S)
  BY DEF Parts
<1>2. /\ x \o y \in Seq(S)
      /\ Len(x \o y) = Len(x) + Len(y)
      /\ \A k \in 1..Len(x) + Len(y) :
           (x \o y)[k] = IF k <= Len(x) THEN x[k] ELSE y[k - Len(x)]
  BY <1>1, ConcatProperties
<1>3. \A k \in 1..a : k \in 1..a + b /\ k <= a
  OBVIOUS
<1> QED
  BY <1>2, <1>3 DEF Parts

\* A single character is marked if it is the mark.
LEMMA OneIsMarked ==
    ASSUME NEW x, NEW mark, x # mark
    PROVE  ~IsMarked(<<x>>, mark)
BY DEF IsMarked

\* What is copied from behind the text has no mark for the loop.
LEMMA EndIsPart ==
    ASSUME NEW words
    PROVE  /\ EndOf(words) \in Parts
           /\ ~IsMarked(EndOf(words), FAIL) /\ ~IsMarked(EndOf(words), STOP)
           /\ Len(EndOf(words)) = IF TakesEnd(words[Len(words)]) THEN 1 ELSE 0
<1>1. <<NUL>> \in Parts /\ <<>> \in Parts
  <2>1. 0 \in Nat /\ <<>> \in Text /\ <<>> \in Seq(Text)
    BY EmptySeq DEF Text
  <2> QED
    BY <2>1, PartsOfTurn
<1>2. ~IsMarked(<<NUL>>, FAIL) /\ ~IsMarked(<<NUL>>, STOP)
  <2>1. NUL # FAIL /\ NUL # STOP
    BY DEF NUL, FAIL, STOP
  <2> QED
    BY <2>1, OneIsMarked
<1>3. ~IsMarked(<<>>, FAIL) /\ ~IsMarked(<<>>, STOP)
  BY DEF IsMarked
<1> QED
  BY <1>1, <1>2, <1>3 DEF EndOf

\* Without a bad word, all the words are put.
LEMMA GoodArePut ==
    ASSUME NEW words \in Seq(Text), NEW groups \in Seq(Text),
           \A k \in 1..Len(words) : ~IsBad(words[k], groups)
    PROVE  /\ FlattenSeq(PartsOf(words, groups)) = Put(words, groups)
           /\ Put(words, groups) \in Text
           /\ ~SomeBad(words, Len(words), groups)
<1> PICK n \in Nat : n = Len(words) /\ DOMAIN words = 1..n
  BY LenProperties
<1>1. ASSUME NEW k \in 0..n PROVE ~SomeBad(words, k, groups)
  <2>1. \A j \in 1..k : j \in 1..n
    OBVIOUS
  <2> QED
    BY <2>1 DEF SomeBad
<1>2. ASSUME NEW k \in 1..n
      PROVE  /\ PartOf(words[k], groups) \in Text
             /\ PartOf(words[k], groups) =
                  IF SomeBad(words, k, groups) THEN <<>>
                  ELSE IF IsPlaceholder(words[k])
                  THEN groups[atoi(Tail(words[k]))]
                  ELSE words[k]
  <2>1. words[k] \in Text /\ k \in 0..n
    BY ElementOfSeq
  <2> QED
    BY <1>1, <2>1, WordsAreParted
<1>3. PartsOf(words, groups) =
        [k \in DOMAIN words |->
           IF SomeBad(words, k, groups) THEN <<>>
           ELSE IF IsPlaceholder(words[k]) THEN groups[atoi(Tail(words[k]))]
           ELSE words[k]]
  BY <1>2 DEF PartsOf
<1>4. FlattenSeq(PartsOf(words, groups)) = Put(words, groups)
  BY <1>3 DEF Put
<1> PICK parts : parts = PartsOf(words, groups)
  OBVIOUS
<1>5. parts \in Seq(Text)
  <2>1. parts \in [1..n -> Text]
    BY <1>2 DEF PartsOf
  <2> QED
    BY <2>1
<1>6. FlattenSeq(parts) \in Text
  <2> PICK m \in Nat : m = Len(parts)
    BY <1>5, LenProperties
  <2> PICK t \in [0..m -> Text] : FlattenSeq(parts) = t[m]
    BY <1>5, TextsAreGlued
  <2> QED
    OBVIOUS
<1> QED
  BY <1>1, <1>4, <1>6

\* The first bad word.
FirstBad(words, groups, f) ==
    /\ IsBad(words[f], groups)
    /\ \A k \in 1..f - 1 : ~IsBad(words[k], groups)

\* With a bad word, only those before it are put.
LEMMA BadEndsPut ==
    ASSUME NEW words \in Seq(Text), NEW groups \in Seq(Text),
           NEW f \in 1..Len(words), FirstBad(words, groups, f),
           NEW p \in [0..Len(words) -> Parts],
           Glues(p, PartsOf(words, groups), Len(words))
    PROVE  Put(words, groups) = p[f - 1]
<1> PICK n \in Nat : n = Len(words)
  BY LenProperties
<1>a. f \in 1..n /\ p \in [0..n -> Parts]
  OBVIOUS
<1>b. /\ IsBad(words[f], groups)
      /\ \A k \in 1..f - 1 : ~IsBad(words[k], groups)
  BY DEF FirstBad
<1>c. p[f - 1] \in Parts
  <2>1. f - 1 \in 0..n
    BY <1>a
  <2> QED
    BY <1>a, <2>1, Zenon
<1>1. DOMAIN words = 1..n
  BY LenProperties
<1> DEFINE q == [k \in DOMAIN words |->
                   IF SomeBad(words, k, groups) THEN <<>>
                   ELSE IF IsPlaceholder(words[k])
                   THEN groups[atoi(Tail(words[k]))]
                   ELSE words[k]]
<1>2. ASSUME NEW k \in 1..n
      PROVE  q[k] = IF k < f THEN PartOf(words[k], groups) ELSE <<>>
  <2>1. CASE k < f
    <3>1. ~SomeBad(words, k, groups)
      <4>1. \A j \in 1..k : j \in 1..f - 1
        BY <2>1
      <4> QED
        BY <1>b, <4>1 DEF SomeBad
    <3>2. words[k] \in Text /\ ~IsBad(words[k], groups)
      <4>1. k \in 1..f - 1
        BY <2>1
      <4> QED
        BY <1>b, <4>1, ElementOfSeq
    <3> QED
      BY <1>1, <2>1, <3>1, <3>2, WordsAreParted
  <2>2. CASE ~(k < f)
    <3>1. f \in 1..k
      BY <2>2
    <3>2. SomeBad(words, k, groups)
      BY <1>b, <3>1 DEF SomeBad
    <3> QED
      BY <1>1, <2>2, <3>2
  <2> QED
    BY <2>1, <2>2
<1>3. q \in Seq(Parts) /\ Len(q) = n
  <2>1. ASSUME NEW k \in 1..n PROVE q[k] \in Parts
    <3>1. PartOf(words[k], groups) \in Parts
      BY PartsAreParts, ElementOfSeq
    <3>2. <<>> \in Parts
      BY EmptySeq DEF Parts
    <3> HIDE DEF q
    <3> QED
      BY <1>2, <3>1, <3>2
  <2>2. q \in [1..n -> Parts]
    BY <1>1, <2>1
  <2> HIDE DEF q
  <2> QED
    BY <2>2, LenProperties
<1>4. Put(words, groups) = FlattenSeq(q)
  BY DEF Put
<1> HIDE DEF q
<1> PICK g \in [0..n -> Parts] : Glues(g, q, n) /\ FlattenSeq(q) = g[n]
  BY <1>3, PartsAreGlued
<1> DEFINE Same == {k \in 0..n : g[k] = IF k < f THEN p[k] ELSE p[f - 1]}
<1>5. 0 \in Same
  <2>1. g[0] = <<>> /\ p[0] = <<>>
    BY DEF Glues
  <2> QED
    BY <2>1
<1>6. ASSUME NEW k \in 0..n - 1, k \in Same PROVE k + 1 \in Same
  <2> PICK l \in 1..n : l = k + 1 /\ l - 1 = k
    OBVIOUS
  <2>1. g[l] = g[k] \o q[l]
    BY DEF Glues
  <2>2. CASE l < f
    <3>1. g[k] = p[k] /\ q[l] = PartOf(words[l], groups)
      BY <1>2, <1>6, <2>2
    <3>2. p[l] = p[k] \o PartOf(words[l], groups)
      BY PartsAreParts DEF Glues
    <3>3. g[l] = p[l]
      BY <2>1, <3>1, <3>2, Zenon
    <3> QED
      BY <2>2, <3>3
  <2>3. CASE ~(l < f)
    <3>1. g[k] = p[f - 1]
      <4>1. k < f => k = f - 1
        BY <2>3
      <4> QED
        BY <1>6, <4>1
    <3>2. q[l] = <<>>
      BY <1>2, <2>3
    <3>3. p[f - 1] \o <<>> = p[f - 1]
      BY <1>c, ConcatEmptySeq DEF Parts
    <3> QED
      BY <2>1, <2>3, <3>1, <3>2, <3>3
  <2> QED
    BY <2>2, <2>3
<1>7. n \in Same
  <2> HIDE DEF Same
  <2>1. \A k \in 0..n : k \in Same
    BY <1>5, <1>6, BoundedInduction
  <2> QED
    BY <2>1
<1> QED
  BY <1>4, <1>7

\* What is appended is the last, and the rest is the front.
LEMMA AppendedIsLast ==
    ASSUME NEW S, NEW s \in Seq(S), NEW e \in S
    PROVE  /\ Append(s, e) # <<>>
           /\ Last(Append(s, e)) = e
           /\ Front(Append(s, e)) = s
<1> PICK a \in Nat : a = Len(s)
  BY LenProperties
<1> PICK t \in Seq(S) : t = Append(s, e)
  BY AppendProperties
<1>1. /\ t # <<>> /\ Len(t) = a + 1 /\ t[a + 1] = e
      /\ \A k \in 1..a : t[k] = s[k]
  BY AppendProperties
<1>2. Last(t) = e
  BY <1>1 DEF Last
<1>3. Front(t) = SubSeq(t, 1, a)
  BY <1>1 DEF Front
<1>4. \A k \in 1..a : t[k] \in S
  BY <1>1, ElementOfSeq
<1>5. /\ SubSeq(t, 1, a) \in Seq(S)
      /\ Len(SubSeq(t, 1, a)) = IF 1 <= a THEN a - 1 + 1 ELSE 0
      /\ \A k \in 1..a - 1 + 1 : SubSeq(t, 1, a)[k] = t[1 + k - 1]
  BY <1>4, SubSeqProperties
<1>6. Len(SubSeq(t, 1, a)) = a
  BY <1>5
<1>7. \A k \in 1..a : SubSeq(t, 1, a)[k] = s[k]
  <2>1. \A k \in 1..a : k \in 1..a - 1 + 1 /\ 1 + k - 1 = k
    OBVIOUS
  <2> QED
    BY <1>1, <1>5, <2>1
<1>8. SubSeq(t, 1, a) = s
  BY <1>5, <1>6, <1>7, SeqEqual
<1> QED
  BY <1>1, <1>2, <1>3, <1>8

\* So it is with the NUL behind a part.
LEMMA NULIsLast ==
    ASSUME NEW s \in Parts
    PROVE  /\ Append(s, NUL) # <<>>
           /\ Last(Append(s, NUL)) = NUL
           /\ Front(Append(s, NUL)) = s
<1> DEFINE S == STRING \cup {FAIL, STOP, NUL, Backslash}
<1>1. s \in Seq(S) /\ NUL \in S
  BY DEF Parts
<1> HIDE DEF S
<1> QED
  BY <1>1, AppendedIsLast

\* Where the parts are in what they make.
LEMMA PartsLieThere ==
    ASSUME NEW parts \in Seq(Parts), NEW n \in Nat, n = Len(parts),
           NEW p \in [0..n -> Parts], Glues(p, parts, n)
    PROVE  /\ \A k \in 0..n : /\ Len(p[k]) <= Len(p[n])
                             /\ \A j \in 1..Len(p[k]) : p[n][j] = p[k][j]
           /\ \A k \in 1..n :
                /\ Len(p[k]) = Len(p[k - 1]) + Len(parts[k])
                /\ \A j \in 1..Len(parts[k]) :
                     p[n][Len(p[k - 1]) + j] = parts[k][j]
<1> PICK S : S = STRING \cup {FAIL, STOP, NUL, Backslash}
  OBVIOUS
<1>1. parts \in Seq(Seq(S)) /\ p \in [0..Len(parts) -> Seq(S)]
  BY DEF Parts
<1>2. LaysOut(p, parts)
  BY <1>1, WordsInText
<1> QED
  BY <1>2 DEF LaysOut

\* What the loop makes without a bad word is what is put, and the NUL.
LEMMA GoodAreMade ==
    ASSUME NEW words \in Seq(Text), words # <<>>, NEW groups \in Seq(Text),
           \A k \in 1..Len(words) : ~IsBad(words[k], groups),
           NEW made, made = Put(words, groups) \o EndOf(words)
    PROVE  /\ Size(made) = Len(Put(words, groups))
                              + (IF TakesNUL(words, groups) THEN 1 ELSE 0)
           /\ ~IsMarked(made, FAIL) /\ ~IsMarked(made, STOP)
           /\ WithoutNUL(made) = Put(words, groups)
<1> PICK put \in Text : put = Put(words, groups)
  BY GoodArePut
<1> PICK end : end = EndOf(words)
  OBVIOUS
<1> PICK a \in Nat, b \in Nat :
           /\ a = Len(put) /\ b = Len(end)
           /\ b = IF TakesNUL(words, groups) THEN 1 ELSE 0
  <2>1. Len(put) \in Nat
    BY LenProperties DEF Text
  <2>2. TakesNUL(words, groups) <=> TakesEnd(words[Len(words)])
    BY GoodArePut DEF TakesNUL, TakesEnd
  <2>3. Len(end) = IF TakesNUL(words, groups) THEN 1 ELSE 0
    BY <2>2, EndIsPart
  <2> QED
    BY <2>1, <2>3
<1>1. put \in Parts /\ end \in Parts
  BY TextsAreParts, EndIsPart
<1>m. made = put \o end
  OBVIOUS
<1>2. /\ made \in Parts /\ Len(made) = a + b
      /\ \A k \in 1..a : made[k] = put[k]
  <2>a. a = Len(put) /\ b = Len(end)
    OBVIOUS
  <2>1. /\ put \o end \in Parts /\ Len(put \o end) = Len(put) + Len(end)
        /\ \A k \in 1..Len(put) : (put \o end)[k] = put[k]
    BY <1>1, BothParts, Zenon
  <2> QED
    BY <1>m, <2>a, <2>1, Zenon
<1>3. ~IsMarked(made, FAIL) /\ ~IsMarked(made, STOP)
  <2>1. ~IsMarked(put, FAIL) /\ ~IsMarked(put, STOP)
    BY TextsAreUnmarked
  <2>2. ~IsMarked(end, FAIL) /\ ~IsMarked(end, STOP)
    BY EndIsPart
  <2> QED
    BY <1>1, <1>m, <2>1, <2>2, MarkOfTwo
<1>4. Size(made) = a + b
  <2> PICK n \in Nat : n = a + b /\ n = Len(made)
    BY <1>2
  <2>1. \A k \in 1..n : made[k] # STOP
    <3>1. DOMAIN made = 1..n
      BY <1>2, LenProperties DEF Parts
    <3> QED
      BY <1>3, <3>1 DEF IsMarked
  <2>2. n \in 0..n /\ ~(n < n)
    OBVIOUS
  <2>3. Size(made) = n
    BY <1>2, <1>3, <2>1, <2>2, SizeUpTo
  <2> QED
    BY <2>3
<1>5. WithoutNUL(made) = put
  <2>1. CASE end = <<NUL>>
    <3>1. made = Append(put, NUL)
      <4>1. put \in Seq(STRING \cup {FAIL, STOP, NUL, Backslash})
        BY <1>1 DEF Parts
      <4>2. Append(put, NUL) = put \o <<NUL>>
        BY <4>1, AppendIsConcat
      <4> QED
        BY <2>1, <4>2
    <3>2. made # <<>> /\ Last(made) = NUL /\ Front(made) = put
      <4>1. /\ Append(put, NUL) # <<>> /\ Last(Append(put, NUL)) = NUL
            /\ Front(Append(put, NUL)) = put
        BY <1>1, NULIsLast, Zenon
      <4> QED
        BY <3>1, <4>1, Zenon
    <3> QED
      BY <3>2 DEF WithoutNUL
  <2>2. CASE end = <<>>
    <3>1. made = put
      <4>1. put \o <<>> = put
        BY <1>1, ConcatEmptySeq DEF Parts
      <4> QED
        BY <2>2, <4>1
    <3>2. put # <<>> => Last(put) # NUL
      <4> SUFFICES ASSUME put # <<>> PROVE Last(put) # NUL
        OBVIOUS
      <4>1. a \in 1..a
        BY EmptySeq
      <4>2. Last(put) = put[a]
        BY DEF Last
      <4>3. put[a] \in STRING \ {FAIL, STOP, NUL}
        BY <4>1, ElementOfSeq DEF Text
      <4> QED
        BY <4>2, <4>3
    <3> QED
      BY <3>1, <3>2 DEF WithoutNUL
  <2> QED
    BY <2>1, <2>2 DEF EndOf
<1> QED
  BY <1>3, <1>4, <1>5

\* With a bad word, the loop stops where the words before it are put.
LEMMA BadStops ==
    ASSUME NEW words \in Seq(Text), NEW groups \in Seq(Text),
           \E k \in 1..Len(words) : IsBad(words[k], groups),
           NEW made, made = FlattenSeq(PartsOf(words, groups)) \o EndOf(words)
    PROVE  /\ Size(made) = Len(Put(words, groups))
           /\ Size(made) \in Nat
           /\ IsMarked(made, STOP)
<1> PICK n \in Nat : n = Len(words) /\ DOMAIN words = 1..n
  BY LenProperties
<1> PICK parts \in Seq(Parts) :
           parts = PartsOf(words, groups) /\ Len(parts) = n
  BY PartsAreParts
<1> PICK p \in [0..n -> Parts] : Glues(p, parts, n) /\ FlattenSeq(parts) = p[n]
  BY PartsAreGlued
<1>1. PICK f \in 1..n : /\ IsBad(words[f], groups)
                        /\ \A k \in 1..f - 1 : ~IsBad(words[k], groups)
  <2> DEFINE T == {k \in 1..n : IsBad(words[k], groups)}
  <2>a. \E k \in 1..n : IsBad(words[k], groups)
    BY Zenon
  <2>1. T \subseteq Nat /\ T # {}
    BY <2>a
  <2>2. PICK x \in T : \A y \in T : x <= y
    BY <2>1, Least
  <2>3. ASSUME NEW k \in 1..x - 1 PROVE ~IsBad(words[k], groups)
    <3>1. k \in 1..n /\ ~(x <= k)
      OBVIOUS
    <3> QED
      BY <2>2, <3>1
  <2> QED
    BY <2>3
<1> PICK before \in 0..n : before = f - 1
  OBVIOUS
<1>2. Put(words, groups) = p[before]
  <2>1. Glues(p, PartsOf(words, groups), n)
    BY Zenon
  <2>2. FirstBad(words, groups, f)
    BY <1>1 DEF FirstBad
  <2>3. Put(words, groups) = p[f - 1]
    BY <2>1, <2>2, BadEndsPut
  <2> QED
    BY <2>3
<1>3. ASSUME NEW k \in 1..n
      PROVE  /\ parts[k] = PartOf(words[k], groups)
             /\ IsBad(words[k], groups) => parts[k] = <<STOP>>
             /\ ~IsBad(words[k], groups) => parts[k] \in Text
  <2>1. words[k] \in Text
    BY ElementOfSeq
  <2> QED
    BY <2>1, PartsAreParts, WordsAreParted
<1> PICK whole \in Parts : whole = p[n]
  OBVIOUS
<1> PICK m \in Nat, all \in Nat, b \in Nat :
           m = Len(p[before]) /\ all = Len(whole) /\ b = Len(EndOf(words))
  <2>1. p[before] \in Parts
    OBVIOUS
  <2>2. EndOf(words) \in Parts
    BY EndIsPart
  <2> QED
    BY <2>1, <2>2, LenProperties DEF Parts
<1>4. /\ m + 1 \in 1..all
      /\ whole[m + 1] = STOP
      /\ \A k \in 1..m : whole[k] = p[before][k]
  <2>1. /\ \A k \in 0..n : /\ Len(p[k]) <= Len(p[n])
                           /\ \A j \in 1..Len(p[k]) : p[n][j] = p[k][j]
        /\ \A k \in 1..n :
             /\ Len(p[k]) = Len(p[k - 1]) + Len(parts[k])
             /\ \A j \in 1..Len(parts[k]) :
                  p[n][Len(p[k - 1]) + j] = parts[k][j]
    BY PartsLieThere
  <2>2. parts[f] = <<STOP>>
    BY <1>1, <1>3
  <2>3. Len(parts[f]) = 1 /\ parts[f][1] = STOP
    BY <2>2
  <2>4. /\ Len(p[f]) = Len(p[f - 1]) + Len(parts[f])
        /\ \A j \in 1..Len(parts[f]) :
             p[n][Len(p[f - 1]) + j] = parts[f][j]
    BY <2>1, Zenon
  <2>5. f \in 0..n
    OBVIOUS
  <2>6. Len(p[f]) <= all
    BY <2>1, <2>5
  <2>7. Len(p[f]) = m + 1
    BY <2>3, <2>4, Zenon
  <2>8. 1 \in 1..Len(parts[f])
    BY <2>3
  <2>9. whole[m + 1] = STOP
    BY <2>3, <2>4, <2>8, Zenon
  <2>10. \A k \in 1..m : whole[k] = p[before][k]
    BY <2>1, Zenon
  <2>11. m + 1 <= all
    BY <2>6, <2>7
  <2>12. \A x, y \in Nat : x + 1 <= y => x + 1 \in 1..y
    OBVIOUS
  <2> QED
    BY <2>9, <2>10, <2>11, <2>12, Zenon
<1>5. /\ made \in Parts /\ Len(made) = all + b
      /\ \A k \in 1..all : made[k] = whole[k]
  BY BothParts, EndIsPart
<1>6. ~IsMarked(made, FAIL)
  <2>1. ASSUME NEW k \in 1..n PROVE ~IsMarked(parts[k], FAIL)
    <3>1. ~IsMarked(<<STOP>>, FAIL)
      <4>1. STOP # FAIL
        BY DEF STOP, FAIL
      <4> QED
        BY <4>1, OneIsMarked
    <3> QED
      BY <1>3, <3>1, TextsAreUnmarked
  <2>2. n \in 0..n
    OBVIOUS
  <2>3. ~IsMarked(p[n], FAIL)
    BY <2>1, <2>2, MarkOfParts
  <2>4. ~IsMarked(EndOf(words), FAIL) /\ EndOf(words) \in Parts
    BY EndIsPart
  <2> QED
    BY <2>3, <2>4, MarkOfTwo
<1>7. \A k \in 1..m : made[k] # STOP
  <2>1. ASSUME NEW k \in 1..before PROVE ~IsMarked(parts[k], STOP)
    <3>1. k \in 1..f - 1 /\ k \in 1..n
      OBVIOUS
    <3>2. parts[k] \in Text
      BY <1>1, <1>3, <3>1
    <3> QED
      BY <3>2, TextsAreUnmarked
  <2>a. \A x \in 0..n : IsMarked(p[x], STOP) <=>
                           \E l \in 1..x : IsMarked(parts[l], STOP)
    BY MarkOfParts
  <2>2. ~IsMarked(p[before], STOP)
    BY <2>1, <2>a, Zenon
  <2>3. DOMAIN p[before] = 1..m
    <3>1. p[before] \in Parts
      OBVIOUS
    <3> QED
      BY <3>1, LenProperties DEF Parts
  <2>4. ASSUME NEW k \in 1..m PROVE made[k] # STOP
    <3>1. k \in 1..all
      BY <1>4
    <3>2. made[k] = p[before][k]
      BY <1>4, <1>5, <3>1
    <3> QED
      BY <2>2, <2>3, <3>2 DEF IsMarked
  <2> QED
    BY <2>4
<1>8. made[m + 1] = STOP
  BY <1>4, <1>5
<1>9. Size(made) = m
  <2> PICK n1 \in Nat : n1 = Len(made) /\ m \in 0..n1
    BY <1>4, <1>5
  <2> QED
    BY <1>5, <1>6, <1>7, <1>8, SizeUpTo
<1>10. IsMarked(made, STOP)
  <2>1. DOMAIN made = 1..all + b /\ m + 1 \in 1..all + b
    BY <1>4, <1>5, LenProperties DEF Parts
  <2> QED
    BY <1>8, <2>1 DEF IsMarked
<1> QED
  BY <1>2, <1>9, <1>10

\* performRegexReplace and the words of a clean replacement.
LEMMA CleanIsReplaced ==
    ASSUME NEW words \in Seq(Text), words # <<>>, IsClean(words),
           NEW str, NEW pattern, str # NULL, pattern # NULL,
           Captures(pattern, str) \in Seq(Text)
    PROVE  performRegexReplace(str, pattern, FlattenSeq(words)) =
             IF Captures(pattern, str) = <<>> THEN NULL
             ELSE Replacement(words, Captures(pattern, str))
<1> PICK groups \in Seq(Text) : groups = Captures(pattern, str)
  OBVIOUS
<1> PICK all : all = FlattenSeq(words)
  OBVIOUS
<1> PICK made : made = Substitute(all, groups)
  OBVIOUS
<1>1. made = FlattenSeq(PartsOf(words, groups)) \o EndOf(words)
  BY SubstitutionIsGlued
<1>2. NULL \notin {str, pattern, all}
  BY CleanIsNotEmpty DEF NULL
<1>3. performRegexReplace(str, pattern, all) =
        IF groups = <<>> THEN NULL
        ELSE IF Size(made) >= MAX_SUBST_LEN THEN OVERRUN
        ELSE IF IsMarked(made, FAIL) \/ IsMarked(made, STOP) THEN NULL
        ELSE WithoutNUL(made)
  BY <1>2, Zenon DEF performRegexReplace
<1>4. CASE \A k \in 1..Len(words) : ~IsBad(words[k], groups)
  <2>1. made = Put(words, groups) \o EndOf(words)
    BY <1>1, <1>4, GoodArePut
  <2>2. /\ Size(made) = Len(Put(words, groups))
                           + (IF TakesNUL(words, groups) THEN 1 ELSE 0)
        /\ ~IsMarked(made, FAIL) /\ ~IsMarked(made, STOP)
        /\ WithoutNUL(made) = Put(words, groups)
    BY <1>4, <2>1, GoodAreMade
  <2>3. ~SomeBad(words, Len(words), groups)
    BY <1>4, GoodArePut
  <2> QED
    BY <1>3, <2>2, <2>3, Zenon DEF Replacement
<1>5. CASE \E k \in 1..Len(words) : IsBad(words[k], groups)
  <2>1. /\ Size(made) = Len(Put(words, groups)) /\ Size(made) \in Nat
        /\ IsMarked(made, STOP)
    BY <1>1, <1>5, BadStops
  <2>2. SomeBad(words, Len(words), groups) /\ ~TakesNUL(words, groups)
    BY <1>5 DEF SomeBad, TakesNUL
  <2>3. Len(Put(words, groups)) + 0 = Len(Put(words, groups))
    BY <2>1
  <2> QED
    BY <1>3, <2>1, <2>2, <2>3, Zenon DEF Replacement
<1> QED
  BY <1>4, <1>5

\* The items of the list have a URL, and what is captured in it are texts.
LEMMA UrlsAreRewritten ==
    ASSUME Reading, RewritesOf(input), IsClean(input.feed.url_replace),
           NEW k \in 1..Len(itemList)
    PROVE  RewrittenOf(input, itemList[k]) =
             IF Captures(input.feed.url_pattern, itemList[k].url) = <<>>
             THEN NULL
             ELSE Replacement(input.feed.url_replace,
                    Captures(input.feed.url_pattern, itemList[k].url))
<1>1. input \in Inputs /\ i <= Len(input.nodes) + 1 /\ i \in Nat
  BY DEF Reading
<1>2. itemList \in Seq({Described(input.nodes[l]) :
                         l \in CompleteBefore(input.nodes, i)})
  BY DEF Reading, IsListOf
<1>3. PICK l \in CompleteBefore(input.nodes, i) :
              itemList[k] = Described(input.nodes[l])
  BY <1>2, ElementOfSeq
<1>4. l \in DOMAIN input.nodes /\ IsComplete(input.nodes[l])
  BY <1>1, InputsHaveNodes, LenProperties DEF CompleteBefore
<1> PICK url : url = itemList[k].url
  OBVIOUS
<1> PICK pattern : pattern = input.feed.url_pattern
  OBVIOUS
<1> PICK words : words = input.feed.url_replace
  OBVIOUS
<1>5. url # NULL
  BY <1>3, <1>4 DEF IsComplete
<1>6. input.feed # NoFeed /\ pattern # NULL /\ words # NULL
  BY DEF RewritesOf
<1>7. Captures(pattern, url) \in Seq(Text)
  BY <1>1, <1>3, <1>4, <1>6, CapturesAssumption
<1>8. words \in Seq(Text) /\ words # <<>>
  BY <1>1, <1>6, InputsAssumption DEF NULL
<1>9. performRegexReplace(url, pattern, FlattenSeq(words)) =
        IF Captures(pattern, url) = <<>> THEN NULL
        ELSE Replacement(words, Captures(pattern, url))
  BY <1>5, <1>6, <1>7, <1>8, CleanIsReplaced
<1> QED
  BY <1>9 DEF RewrittenOf

\* For any replacement that is put together from words, groups of any length
\* that a pattern captures in the URL of an item, and any size of the buffer:
\* performRegexReplace, which works character by character, writes behind its
\* buffer if what is put, and the NUL that it may copy, leaves no room for the
\* NUL it adds, and not otherwise.  It puts the groups in the place of the
\* placeholders then and changes nothing else, or returns nothing when a group
\* is asked for that there is not.
THEOREM RewritesAreWritten == Spec => []RewritesAsWritten
<1>1. Reading => RewritesAsWritten
  <2> SUFFICES ASSUME Reading, Rewrites, IsClean(input.feed.url_replace),
                      NEW it \in Range(itemList)
               PROVE  Rewritten(it) =
                        IF Captures(input.feed.url_pattern, it.url) = <<>>
                        THEN NULL
                        ELSE Replacement(input.feed.url_replace,
                               Captures(input.feed.url_pattern, it.url))
    BY DEF RewritesAsWritten
  <2>1. DOMAIN itemList = 1..Len(itemList)
    BY LenProperties DEF Reading, IsListOf
  <2>2. PICK k \in 1..Len(itemList) : it = itemList[k]
    BY <2>1 DEF Range
  <2>3. RewritesOf(input)
    BY OfTheInput
  <2>4. Rewritten(it) = RewrittenOf(input, it)
    BY <2>3 DEF Rewritten, RewrittenOf
  <2> QED
    BY <2>2, <2>3, <2>4, UrlsAreRewritten
<1> QED
  BY <1>1, ReadingInvariant, PTL
=============================================================================
