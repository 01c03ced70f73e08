------------------------------- MODULE Lists -------------------------------
(***************************************************************************)
(* The linked lists of src/list.c, as operators on a heap.  A heap maps    *)
(* the addresses that are allocated to what is there: a node, or a text.   *)
(* An operation takes a list l = [heap, head] and returns it; the memory   *)
(* is never short: the address that is free is the least one.              *)
(***************************************************************************)
EXTENDS SequencesExt, Integers

NULL == 0

NewAddress(heap) ==
    Min((1..Cardinality(DOMAIN heap) + 1) \ DOMAIN heap)

Store(heap, at, what) ==
    [a \in DOMAIN heap \cup {at} |-> IF a = at THEN what ELSE heap[a]]

am_free(heap, at) == Restrict(heap, DOMAIN heap \ {at})

\* The nodes that a walk from the head visits; it ends at NULL, or where it
\* would read what is not allocated, or have seen every node.
Walk(l) ==
    LET walk[n \in Nat] ==
          IF n = 0 THEN l.head
          ELSE LET p == walk[n - 1] IN
               IF p \in DOMAIN l.heap THEN l.heap[p].next ELSE NULL
    IN  walk

Nodes(l) ==
    LET ends == {n \in 0..Cardinality(DOMAIN l.heap) :
                   Walk(l)[n] \notin DOMAIN l.heap}
    IN  [n \in 1..(IF ends = {} THEN 0 ELSE Min(ends)) |-> Walk(l)[n - 1]]

listCount(l) == Len(Nodes(l))

\* The texts in a list.
Contents(l) ==
    [n \in 1..listCount(l) |-> l.heap[l.heap[Nodes(l)[n]].data]]

NewNode(data) == [data |-> data, next |-> NULL]

\* addToHead and addNodeFirst.  Without data nothing is added.
addToHead(l, data) ==
    IF data = NULL THEN l
    ELSE LET new == NewAddress(l.heap)
             node == [NewNode(data) EXCEPT !.next = l.head]
         IN  [heap |-> Store(l.heap, new, node), head |-> new]

\* addToTail and addNodeLast.
addToTail(l, data) ==
    IF data = NULL THEN l
    ELSE LET new  == NewAddress(l.heap)
             heap == Store(l.heap, new, NewNode(data))
         IN  IF l.head = NULL THEN [heap |-> heap, head |-> new]
             ELSE [l EXCEPT !.heap =
                     [heap EXCEPT ![Last(Nodes(l))].next = new]]

\* removeLast and deleteLast: the caller keeps its head, also when that was
\* the node removed.
removeLast(l) ==
    LET nodes == Nodes(l)
        n     == Len(nodes)
        freed == am_free(am_free(l.heap, l.heap[nodes[n]].data), nodes[n])
    IN  CASE n = 0 -> l
          [] n = 1 -> [l EXCEPT !.heap = freed]
          [] n > 1 ->
               [l EXCEPT !.heap = [freed EXCEPT ![nodes[n - 1]].next = NULL]]

\* removeFirst and deleteFirst.
removeFirst(l) ==
    IF l.head = NULL THEN l
    ELSE [heap |-> am_free(am_free(l.heap, l.heap[l.head].data), l.head),
          head |-> l.heap[l.head].next]

\* Seeded bug: the node that becomes the last one keeps its successor.
ReverseStepKeeping(l, node) ==
    [heap |-> IF l.head = NULL THEN l.heap
              ELSE [l.heap EXCEPT ![node].next = l.head],
     head |-> node]

\* One turn of the loop of reverseList: node goes in front of the result.
ReverseStep(l, node) ==
    [heap |-> [l.heap EXCEPT ![node].next = l.head], head |-> node]

\* The loop of reverseList, over the nodes of l.
Reversal(l) ==
    LET turn[n \in 0..listCount(l)] ==
          IF n = 0 THEN [l EXCEPT !.head = NULL]
          ELSE ReverseStep(turn[n - 1], Nodes(l)[n])
    IN  turn

reverseList(l) == Reversal(l)[listCount(l)]

\* Seeded bug: the nodes are freed and what they hold is not.
FreeNodesOnly(l, node) ==
    [heap |-> am_free(l.heap, node), head |-> l.heap[node].next]

FreeStep(l, node) ==
    [heap |-> am_free(am_free(l.heap, l.heap[node].data), node),
     head |-> l.heap[node].next]

Freeing(l) ==
    LET turn[n \in 0..listCount(l)] ==
          IF n = 0 THEN l ELSE FreeStep(turn[n - 1], Nodes(l)[n])
    IN  turn

freeList(l) == Freeing(l)[listCount(l)]
=============================================================================
