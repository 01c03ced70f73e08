-------------------------- MODULE StateFileProofs --------------------------
(***************************************************************************)
(* What holds of the linked lists of list.c and of the state file for any  *)
(* ids, maxima and line lengths: memory stays in order, the operations on  *)
(* lists are those on sequences, and what is read back is what was saved.  *)
(***************************************************************************)
EXTENDS StateFile, Induction, FiniteSetTheorems, SequenceTheorems

-----------------------------------------------------------------------------
(***************************************************************************)
(* Lists in memory.                                                        *)
(***************************************************************************)
\* l is a list of m nodes: the nodes are at the addresses p and their texts
\* at q, all of them different, and besides there is something at others.
IsList(l, m, p, q, others) ==
    /\ m \in Nat
    /\ p \in [1..m -> Nat \ {0}] /\ q \in [1..m -> Nat \ {0}]
    /\ others \subseteq Nat \ {0} /\ IsFiniteSet(others)
    /\ \A i, j \in 1..m : p[i] = p[j] => i = j
    /\ \A i, j \in 1..m : q[i] = q[j] => i = j
    /\ \A i, j \in 1..m : p[i] # q[j]
    /\ \A i \in 1..m : p[i] \notin others /\ q[i] \notin others
    /\ l = [heap |-> l.heap, head |-> l.head]
    /\ l.heap = [a \in DOMAIN l.heap |-> l.heap[a]]
    /\ DOMAIN l.heap =
         {p[i] : i \in 1..m} \cup {q[i] : i \in 1..m} \cup others
    /\ \A i \in 1..m : l.heap[p[i]] =
         [data |-> q[i], next |-> IF i < m THEN p[i + 1] ELSE NULL]
    /\ l.head = IF m = 0 THEN NULL ELSE p[1]

\* The one address of a text beside the list.
Only(t) == {t}

\* What is at a node, field by field.
LEMMA NodeOfList ==
    ASSUME NEW l, NEW m, NEW p, NEW q, NEW others, IsList(l, m, p, q, others),
           NEW i \in 1..m
    PROVE  /\ p[i] \in DOMAIN l.heap /\ q[i] \in DOMAIN l.heap
           /\ l.heap[p[i]].data = q[i]
           /\ l.heap[p[i]].next = IF i < m THEN p[i + 1] ELSE NULL
<1>1. l.heap[p[i]] = [data |-> q[i],
                      next |-> IF i < m THEN p[i + 1] ELSE NULL]
  BY DEF IsList
<1>2. p[i] \in DOMAIN l.heap /\ q[i] \in DOMAIN l.heap
  BY DEF IsList
<1> QED
  BY <1>1, <1>2

\* A walk visits the nodes in order and then stays at NULL.
LEMMA WalkOfList ==
    ASSUME NEW l, NEW m, NEW p, NEW q, NEW others, IsList(l, m, p, q, others)
    PROVE  \A n \in Nat : Walk(l)[n] = IF n < m THEN p[n + 1] ELSE NULL
<1> DEFINE W(w) == w = [n \in Nat |->
                      IF n = 0 THEN l.head
                      ELSE IF w[n - 1] \in DOMAIN l.heap
                           THEN l.heap[w[n - 1]].next ELSE NULL]
           w0 == [n \in Nat |-> IF n < m THEN p[n + 1] ELSE NULL]
<1>1. Walk(l) = CHOOSE w : W(w)
  BY DEF Walk
<1>2. W(w0)
  <2> SUFFICES ASSUME NEW n \in Nat
               PROVE  w0[n] = IF n = 0 THEN l.head
                              ELSE IF w0[n - 1] \in DOMAIN l.heap
                                   THEN l.heap[w0[n - 1]].next ELSE NULL
    OBVIOUS
  <2>1. CASE n = 0
    BY <2>1 DEF IsList
  <2>2. CASE n > 0 /\ n - 1 < m
    <3>1. w0[n - 1] = p[n] /\ n \in 1..m
      BY <2>2 DEF IsList
    <3> QED
      BY <2>2, <3>1, NodeOfList
  <2>3. CASE n > 0 /\ ~(n - 1 < m)
    <3>1. w0[n - 1] = NULL /\ w0[n] = NULL
      BY <2>3 DEF IsList
    <3>2. NULL \notin DOMAIN l.heap
      BY DEF IsList, NULL
    <3> QED
      BY <2>3, <3>1, <3>2
  <2> QED
    BY <2>1, <2>2, <2>3
<1>3. W(Walk(l))
  BY <1>1, <1>2
<1> HIDE DEF w0
<1> DEFINE T == {n \in Nat : Walk(l)[n] = w0[n]}
<1>4. 0 \in T
  BY <1>2, <1>3
<1>5. ASSUME NEW n \in Nat, n \in T PROVE n + 1 \in T
  <2>1. n + 1 # 0 /\ n + 1 - 1 = n /\ n + 1 \in Nat
    OBVIOUS
  <2>2. Walk(l)[n] = w0[n]
    BY <1>5
  <2> HIDE DEF T
  <2>3. Walk(l)[n + 1] = IF Walk(l)[n] \in DOMAIN l.heap
                         THEN l.heap[Walk(l)[n]].next ELSE NULL
    BY <1>3, <2>1
  <2>4. w0[n + 1] = IF w0[n] \in DOMAIN l.heap
                    THEN l.heap[w0[n]].next ELSE NULL
    BY <1>2, <2>1
  <2> QED
    BY <2>1, <2>2, <2>3, <2>4 DEF T
<1>6. \A n \in Nat : n \in T
  <2> HIDE DEF T
  <2> QED
    BY <1>4, <1>5, SetInduction
<1> QED
  BY <1>6 DEF w0

\* The memory that a list takes: a node and a text for each entry.
LEMMA SizeOfList ==
    ASSUME NEW l, NEW m, NEW p, NEW q, NEW others, IsList(l, m, p, q, others)
    PROVE  /\ IsFiniteSet(DOMAIN l.heap)
           /\ Cardinality(DOMAIN l.heap) = 2 * m + Cardinality(others)
           /\ Cardinality(others) \in Nat
<1> DEFINE P == {p[i] : i \in 1..m}
           Q == {q[i] : i \in 1..m}
<1>1. IsFiniteSet(1..m) /\ Cardinality(1..m) = m
  BY FS_Interval DEF IsList
<1>2. IsFiniteSet(P) /\ Cardinality(P) = m
  <2>1. p \in Bijection(1..m, P)
    BY DEF IsList, Bijection, Injection, Surjection, IsInjective
  <2> QED
    BY <1>1, <2>1, FS_Bijection DEF ExistsBijection
<1>3. IsFiniteSet(Q) /\ Cardinality(Q) = m
  <2>1. q \in Bijection(1..m, Q)
    BY DEF IsList, Bijection, Injection, Surjection, IsInjective
  <2> QED
    BY <1>1, <2>1, FS_Bijection DEF ExistsBijection
<1>4. P \cap Q = {} /\ (P \cup Q) \cap others = {}
  BY DEF IsList
<1>5. DOMAIN l.heap = (P \cup Q) \cup others /\ IsFiniteSet(others)
  BY DEF IsList
<1>6. m \in Nat
  BY DEF IsList
<1>7. Cardinality(others) \in Nat
  BY <1>5, FS_CardinalityType
<1> HIDE DEF P, Q
<1>8. IsFiniteSet(P \cup Q) /\ Cardinality(P \cup Q) = 2 * m
  BY <1>2, <1>3, <1>4, <1>6, FS_Union, FS_EmptySet
<1> DEFINE R == P \cup Q
<1> HIDE DEF R
<1>9. IsFiniteSet(R \cup others)
      /\ Cardinality(R \cup others) = Cardinality(R) + Cardinality(others)
  <2>1. IsFiniteSet(R) /\ Cardinality(R \cap others) = 0
    BY <1>4, <1>8, FS_EmptySet DEF R
  <2>2. Cardinality(R) \in Nat
    BY <1>6, <1>8 DEF R
  <2>3. Cardinality(R \cup others)
          = Cardinality(R) + Cardinality(others) - Cardinality(R \cap others)
        /\ IsFiniteSet(R \cup others)
    BY <1>5, <2>1, FS_Union
  <2> QED
    BY <1>7, <2>1, <2>2, <2>3
<1>10. DOMAIN l.heap = R \cup others /\ Cardinality(R) = 2 * m
  BY <1>5, <1>8 DEF R
<1> QED
  BY <1>7, <1>9, <1>10

\* So the nodes of a list are those at p.
LEMMA NodesOfList ==
    ASSUME NEW l, NEW m, NEW p, NEW q, NEW others, IsList(l, m, p, q, others)
    PROVE  /\ Nodes(l) = p /\ listCount(l) = m /\ Len(p) = m
           /\ Contents(l) = [n \in 1..m |-> l.heap[q[n]]]
           /\ p \in Seq(Nat)
<1> DEFINE ends == {n \in 0..Cardinality(DOMAIN l.heap) :
                      Walk(l)[n] \notin DOMAIN l.heap}
<1>1. m \in Nat /\ NULL \notin DOMAIN l.heap
      /\ \A n \in 1..m : p[n] \in DOMAIN l.heap
  BY DEF IsList, NULL
<1>2. Cardinality(DOMAIN l.heap) \in Nat /\ m <= Cardinality(DOMAIN l.heap)
  BY <1>1, SizeOfList
<1>3. m \in ends
  BY <1>1, <1>2, WalkOfList
<1>4. \A n \in ends : m <= n
  <2> SUFFICES ASSUME NEW n \in 0..Cardinality(DOMAIN l.heap), n < m
               PROVE  Walk(l)[n] \in DOMAIN l.heap
    BY <1>1, <1>2
  <2>1. Walk(l)[n] = p[n + 1] /\ n + 1 \in 1..m
    BY <1>1, <1>2, WalkOfList
  <2> QED
    BY <1>1, <2>1
<1>5. Min(ends) = m
  <2>1. ends \subseteq Nat
    BY <1>2
  <2>2. Min(ends) \in ends /\ Min(ends) <= m
    <3> HIDE DEF ends
    <3> QED
      BY <1>3, <2>1, MinIsLeast
  <2> HIDE DEF ends
  <2>3. m <= Min(ends) /\ Min(ends) \in Nat
    BY <1>4, <2>1, <2>2
  <2> QED
    BY <1>1, <2>2, <2>3
<1>6. Nodes(l) = [n \in 1..m |-> Walk(l)[n - 1]]
  BY <1>3, <1>5 DEF Nodes
<1>7. \A n \in 1..m : Walk(l)[n - 1] = p[n]
  <2> TAKE n \in 1..m
  <2>1. n - 1 \in Nat /\ n - 1 < m /\ n - 1 + 1 = n
    BY <1>1
  <2> QED
    BY <2>1, WalkOfList
<1>8. Nodes(l) = p
  BY <1>6, <1>7 DEF IsList
<1>9. p \in [1..m -> Nat]
  BY DEF IsList
<1>10. p \in Seq(Nat) /\ Len(p) = m
  BY <1>1, <1>9, LenProperties
<1>11. \A n \in 1..m : l.heap[p[n]].data = q[n]
  BY NodeOfList
<1> QED
  BY <1>8, <1>10, <1>11 DEF listCount, Contents

\* Memory is never short.
LEMMA NewAddressIsFree ==
    ASSUME NEW heap, IsFiniteSet(DOMAIN heap)
    PROVE  NewAddress(heap) \in Nat \ ({0} \cup DOMAIN heap)
<1> DEFINE n == Cardinality(DOMAIN heap)
           free == (1..n + 1) \ DOMAIN heap
<1>1. n \in Nat
  BY FS_CardinalityType
<1> HIDE DEF n
<1>2. free # {}
  <2> SUFFICES ASSUME 1..n + 1 \in SUBSET DOMAIN heap PROVE FALSE
    OBVIOUS
  <2>1. Cardinality(1..n + 1) <= n
    BY FS_Subset DEF n
  <2>2. Cardinality(1..n + 1) = n + 1
    BY <1>1, FS_Interval
  <2> QED
    BY <1>1, <2>1, <2>2
<1>3. free \subseteq Nat
  BY <1>1
<1>4. Min(free) \in free
  BY <1>2, <1>3, MinIsLeast
<1> QED
  BY <1>1, <1>4 DEF NewAddress, n

\* A text is stored beside a list.
Beside(l, text) ==
    [l EXCEPT !.heap = Store(@, NewAddress(l.heap), text)]

\* It does not touch the list.
LEMMA StoreBeside ==
    ASSUME NEW l, NEW m, NEW p, NEW q, IsList(l, m, p, q, {}), NEW text
    PROVE  /\ IsList(Beside(l, text), m, p, q, Only(NewAddress(l.heap)))
           /\ Beside(l, text).heap[NewAddress(l.heap)] = text
           /\ \A i \in 1..m : Beside(l, text).heap[q[i]] = l.heap[q[i]]
<1> DEFINE at == NewAddress(l.heap)
           k  == Beside(l, text)
<1>1. at \in Nat \ {0} /\ at \notin DOMAIN l.heap
  BY SizeOfList, NewAddressIsFree
<1> HIDE DEF at
<1>2. \A i \in 1..m : p[i] # at /\ q[i] # at
  BY <1>1, NodeOfList
<1>3. l = [heap |-> l.heap, head |-> l.head]
  BY DEF IsList, Only
<1>4. k = [heap |-> Store(l.heap, at, text), head |-> l.head]
  BY <1>3 DEF Beside, at
<1> HIDE DEF k
<1>5. DOMAIN k.heap = DOMAIN l.heap \cup {at}
      /\ k.heap = [a \in DOMAIN k.heap |-> k.heap[a]]
  BY <1>4 DEF Store
<1>6. k.heap[at] = text /\ \A a \in DOMAIN l.heap : k.heap[a] = l.heap[a]
  BY <1>1, <1>4 DEF Store
<1>7. k.head = l.head /\ k = [heap |-> k.heap, head |-> k.head]
  BY <1>4
<1>8. \A i \in 1..m : k.heap[p[i]] = l.heap[p[i]]
                      /\ k.heap[q[i]] = l.heap[q[i]]
  BY <1>6, NodeOfList
<1>9. IsFiniteSet(Only(at))
  BY FS_Singleton DEF Only
<1>10. IsList(k, m, p, q, Only(at))
  BY <1>1, <1>2, <1>5, <1>7, <1>8, <1>9 DEF IsList, Only
<1> QED
  BY <1>6, <1>8, <1>10 DEF k, at

\* addToHead makes a new first node for the text at t.
LEMMA AddedToHead ==
    ASSUME NEW l, NEW m, NEW p, NEW q, NEW t, IsList(l, m, p, q, Only(t))
    PROVE  \E p1, q1 :
             /\ IsList(addToHead(l, t), m + 1, p1, q1, {})
             /\ addToHead(l, t).heap[q1[1]] = l.heap[t]
             /\ \A i \in 1..m :
                  addToHead(l, t).heap[q1[i + 1]] = l.heap[q[i]]
<1> DEFINE new == NewAddress(l.heap)
           k   == addToHead(l, t)
           p1  == [i \in 1..m + 1 |-> IF i = 1 THEN new ELSE p[i - 1]]
           q1  == [i \in 1..m + 1 |-> IF i = 1 THEN t ELSE q[i - 1]]
<1>1. new \in Nat \ {0} /\ new \notin DOMAIN l.heap
  BY SizeOfList, NewAddressIsFree
<1>2. m \in Nat /\ t \in Nat \ {0} /\ t \in DOMAIN l.heap
  BY DEF IsList, Only
<1> HIDE DEF new
<1>3. k = [heap |-> Store(l.heap, new, [data |-> t, next |-> l.head]),
           head |-> new]
  BY <1>2 DEF addToHead, NewNode, NULL, new
<1> HIDE DEF k
<1>4. /\ k = [heap |-> k.heap, head |-> k.head] /\ k.head = new
      /\ DOMAIN k.heap = DOMAIN l.heap \cup {new}
      /\ k.heap = [a \in DOMAIN k.heap |-> k.heap[a]]
      /\ k.heap[new] = [data |-> t, next |-> l.head]
      /\ \A a \in DOMAIN l.heap : k.heap[a] = l.heap[a]
  BY <1>1, <1>3 DEF Store
<1>5. \A i \in 1..m : /\ p[i] # new /\ q[i] # new /\ p[i] # t /\ q[i] # t
                      /\ p[i] \in Nat \ {0} /\ q[i] \in Nat \ {0}
                      /\ k.heap[p[i]] = l.heap[p[i]]
                      /\ k.heap[q[i]] = l.heap[q[i]]
  <2>1. \A i \in 1..m : p[i] \in DOMAIN l.heap /\ q[i] \in DOMAIN l.heap
    BY NodeOfList
  <2>2. \A i \in 1..m : /\ p[i] # t /\ q[i] # t
                         /\ p[i] \in Nat \ {0} /\ q[i] \in Nat \ {0}
    BY DEF IsList, Only
  <2> HIDE DEF p1, q1
  <2> QED
    BY <1>1, <1>4, <2>1, <2>2
<1>6. \A i \in 1..m + 1 : i = 1 \/ (i > 1 /\ i - 1 \in 1..m)
  BY <1>2
<1>7. p1 \in [1..m + 1 -> Nat \ {0}] /\ q1 \in [1..m + 1 -> Nat \ {0}]
  BY <1>1, <1>2, <1>5, <1>6
<1>8. /\ \A i \in 1..m + 1 : p1[i] = IF i = 1 THEN new ELSE p[i - 1]
      /\ \A i \in 1..m + 1 : q1[i] = IF i = 1 THEN t ELSE q[i - 1]
  OBVIOUS
<1>9. /\ p1[1] = new /\ q1[1] = t
      /\ \A i \in 1..m : p1[i + 1] = p[i] /\ q1[i + 1] = q[i]
  BY <1>2
<1> HIDE DEF p1, q1
<1>10. /\ \A i, j \in 1..m + 1 : p1[i] = p1[j] => i = j
       /\ \A i, j \in 1..m + 1 : q1[i] = q1[j] => i = j
       /\ \A i, j \in 1..m + 1 : p1[i] # q1[j]
  <2>1. /\ \A i, j \in 1..m : p[i] = p[j] => i = j
        /\ \A i, j \in 1..m : q[i] = q[j] => i = j
        /\ \A i, j \in 1..m : p[i] # q[j]
    BY DEF IsList, Only
  <2>2. new # t
    BY <1>1, <1>2
  <2>3. ASSUME NEW i \in 1..m + 1, NEW j \in 1..m + 1
        PROVE  /\ p1[i] = p1[j] => i = j
               /\ q1[i] = q1[j] => i = j
               /\ p1[i] # q1[j]
    <3>1. CASE i = 1 /\ j = 1
      BY <1>8, <2>2, <3>1
    <3>2. CASE i = 1 /\ j > 1
      BY <1>5, <1>6, <1>8, <3>2
    <3>3. CASE i > 1 /\ j = 1
      BY <1>5, <1>6, <1>8, <3>3
    <3>4. CASE i > 1 /\ j > 1
      <4>1. i - 1 \in 1..m /\ j - 1 \in 1..m
        BY <1>2, <3>4
      <4>2. p1[i] = p[i - 1] /\ p1[j] = p[j - 1]
            /\ q1[i] = q[i - 1] /\ q1[j] = q[j - 1]
        BY <1>8, <3>4
      <4> QED
        BY <1>2, <2>1, <4>1, <4>2
    <3> QED
      BY <1>6, <3>1, <3>2, <3>3, <3>4
  <2> QED
    BY <2>3
<1>11. DOMAIN k.heap =
         {p1[i] : i \in 1..m + 1} \cup {q1[i] : i \in 1..m + 1}
  <2>1. DOMAIN l.heap = {p[i] : i \in 1..m} \cup {q[i] : i \in 1..m} \cup {t}
    BY DEF IsList, Only
  <2>2. {p1[i] : i \in 1..m + 1} = {p[i] : i \in 1..m} \cup {new}
    BY <1>2, <1>6, <1>8, <1>9
  <2>3. {q1[i] : i \in 1..m + 1} = {q[i] : i \in 1..m} \cup {t}
    BY <1>2, <1>6, <1>8, <1>9
  <2> QED
    BY <1>4, <2>1, <2>2, <2>3
<1>12. \A i \in 1..m + 1 : k.heap[p1[i]] =
         [data |-> q1[i], next |-> IF i < m + 1 THEN p1[i + 1] ELSE NULL]
  <2> TAKE i \in 1..m + 1
  <2>1. CASE i = 1
    <3>1. l.head = IF 1 < m + 1 THEN p1[2] ELSE NULL
      <4>1. l.head = IF m = 0 THEN NULL ELSE p[1]
        BY DEF IsList, Only
      <4>2. m # 0 => p1[2] = p[1]
        BY <1>2, <1>9
      <4> QED
        BY <1>2, <4>1, <4>2
    <3> QED
      BY <1>4, <1>9, <2>1, <3>1
  <2>2. CASE i > 1
    <3>1. i - 1 \in 1..m /\ i - 1 + 1 = i /\ (i - 1 < m <=> i < m + 1)
      BY <1>2, <2>2
    <3>2. k.heap[p[i - 1]] = [data |-> q[i - 1],
                              next |-> IF i - 1 < m THEN p[i] ELSE NULL]
      BY <1>5, <3>1 DEF IsList, Only
    <3>3. i < m + 1 => p1[i + 1] = p[i]
      BY <1>2, <1>9, <2>2
    <3>4. p1[i] = p[i - 1] /\ q1[i] = q[i - 1]
      BY <1>8, <2>2
    <3> QED
      BY <3>1, <3>2, <3>3, <3>4
  <2> QED
    BY <1>2, <2>1, <2>2
<1>13. IsList(k, m + 1, p1, q1, {})
  <2>1. m + 1 \in Nat /\ m + 1 # 0 /\ IsFiniteSet({})
    BY <1>2, FS_EmptySet
  <2> QED
    BY <1>4, <1>7, <1>9, <1>10, <1>11, <1>12, <2>1 DEF IsList, Only
<1>14. k.heap[q1[1]] = l.heap[t]
  BY <1>2, <1>4, <1>9
<1>15. \A i \in 1..m : k.heap[q1[i + 1]] = l.heap[q[i]]
  BY <1>5, <1>9
<1> QED
  BY <1>13, <1>14, <1>15 DEF k

\* addToTail makes a new last node for the text at t.
LEMMA AddedToTail ==
    ASSUME NEW l, NEW m, NEW p, NEW q, NEW t, IsList(l, m, p, q, Only(t))
    PROVE  \E p1, q1 :
             /\ IsList(addToTail(l, t), m + 1, p1, q1, {})
             /\ addToTail(l, t).heap[q1[m + 1]] = l.heap[t]
             /\ \A i \in 1..m :
                  addToTail(l, t).heap[q1[i]] = l.heap[q[i]]
<1> DEFINE new == NewAddress(l.heap)
           k   == addToTail(l, t)
           p1  == [i \in 1..m + 1 |-> IF i = m + 1 THEN new ELSE p[i]]
           q1  == [i \in 1..m + 1 |-> IF i = m + 1 THEN t ELSE q[i]]
<1>1. new \in Nat \ {0} /\ new \notin DOMAIN l.heap
  BY SizeOfList, NewAddressIsFree
<1>2. m \in Nat /\ t \in Nat \ {0} /\ t \in DOMAIN l.heap
  BY DEF IsList, Only
<1>3. /\ \A i \in 1..m : p[i] \in DOMAIN l.heap /\ q[i] \in DOMAIN l.heap
      /\ \A i \in 1..m : /\ p[i] # t /\ q[i] # t
                         /\ p[i] \in Nat \ {0} /\ q[i] \in Nat \ {0}
  <2>1. \A i \in 1..m : p[i] \in DOMAIN l.heap /\ q[i] \in DOMAIN l.heap
    BY NodeOfList
  <2>2. \A i \in 1..m : /\ p[i] # t /\ q[i] # t
                         /\ p[i] \in Nat \ {0} /\ q[i] \in Nat \ {0}
    BY DEF IsList, Only
  <2> QED
    BY <2>1, <2>2
<1>4. /\ \A i \in 1..m + 1 : p1[i] = IF i = m + 1 THEN new ELSE p[i]
      /\ \A i \in 1..m + 1 : q1[i] = IF i = m + 1 THEN t ELSE q[i]
  OBVIOUS
<1>5. /\ p1[m + 1] = new /\ q1[m + 1] = t
      /\ \A i \in 1..m : p1[i] = p[i] /\ q1[i] = q[i]
  BY <1>2
<1>6. \A i \in 1..m + 1 : i = m + 1 \/ i \in 1..m
  BY <1>2
<1>7. p1 \in [1..m + 1 -> Nat \ {0}] /\ q1 \in [1..m + 1 -> Nat \ {0}]
  <2> HIDE DEF new
  <2> QED
    BY <1>1, <1>2, <1>3, <1>6
<1> HIDE DEF new, p1, q1
<1>8. /\ k = [heap |-> k.heap, head |-> k.head]
      /\ k.head = p1[1]
      /\ DOMAIN k.heap = DOMAIN l.heap \cup {new}
      /\ k.heap = [a \in DOMAIN k.heap |-> k.heap[a]]
      /\ k.heap[new] = [data |-> t, next |-> NULL]
      /\ \A a \in DOMAIN l.heap :
           (m > 0 => a # p[m]) => k.heap[a] = l.heap[a]
      /\ m > 0 => k.heap[p[m]] = [data |-> q[m], next |-> new]
  <2> DEFINE h == Store(l.heap, new, [data |-> t, next |-> NULL])
  <2>1. /\ DOMAIN h = DOMAIN l.heap \cup {new}
        /\ h[new] = [data |-> t, next |-> NULL]
        /\ h = [a \in DOMAIN h |-> h[a]]
        /\ \A a \in DOMAIN l.heap : h[a] = l.heap[a]
    BY <1>1 DEF Store
  <2>2. CASE m = 0
    <3>1. l.head = NULL
      BY <2>2 DEF IsList, Only
    <3>2. k = [heap |-> h, head |-> new]
      BY <1>2, <3>1 DEF addToTail, NewNode, NULL, new
    <3>3. p1[1] = new
      BY <1>5, <2>2
    <3> HIDE DEF h, k
    <3> QED
      BY <2>1, <2>2, <3>2, <3>3
  <2>3. CASE m > 0
    <3>1. l.head = p[1] /\ l.head # NULL
      BY <1>3, <2>3 DEF IsList, Only, NULL
    <3>2. Last(Nodes(l)) = p[m]
      BY NodesOfList DEF Last
    <3>3. l = [heap |-> l.heap, head |-> l.head]
      BY DEF IsList, Only
    <3>4. k = [heap |-> [h EXCEPT ![p[m]].next = new], head |-> l.head]
      BY <1>2, <3>1, <3>2, <3>3 DEF addToTail, NewNode, NULL, new
    <3>5. m \in 1..m /\ p[m] \in DOMAIN l.heap /\ p[m] # new
      BY <1>1, <1>2, <1>3, <2>3
    <3>6. h[p[m]] = [data |-> q[m], next |-> NULL]
      <4>1. l.heap[p[m]] = [data |-> q[m],
                            next |-> IF m < m THEN p[m + 1] ELSE NULL]
        BY <3>5 DEF IsList, Only
      <4>2. ~(m < m)
        BY <1>2
      <4> HIDE DEF h
      <4> QED
        BY <2>1, <3>5, <4>1, <4>2
    <3>7. [h[p[m]] EXCEPT !.next = new] = [data |-> q[m], next |-> new]
      BY <3>6
    <3> DEFINE g == [h EXCEPT ![p[m]].next = new]
    <3> HIDE DEF h, k
    <3>8. /\ DOMAIN g = DOMAIN h /\ g = [a \in DOMAIN g |-> g[a]]
          /\ g[p[m]] = [data |-> q[m], next |-> new]
          /\ \A a \in DOMAIN h : a # p[m] => g[a] = h[a]
      BY <2>1, <3>5, <3>7
    <3>9. k.heap = g /\ k.head = p1[1] /\ k = [heap |-> g, head |-> k.head]
      BY <1>2, <1>5, <2>3, <3>1, <3>4
    <3> HIDE DEF g
    <3> QED
      BY <2>1, <2>3, <3>5, <3>8, <3>9
  <2> QED
    BY <1>2, <2>2, <2>3
<1> HIDE DEF k
<1>9. \A i, j \in 1..m : /\ p[i] = p[j] => i = j
                         /\ q[i] = q[j] => i = j
                         /\ p[i] # q[j]
  BY DEF IsList, Only
<1>10. /\ \A i, j \in 1..m + 1 : p1[i] = p1[j] => i = j
       /\ \A i, j \in 1..m + 1 : q1[i] = q1[j] => i = j
       /\ \A i, j \in 1..m + 1 : p1[i] # q1[j]
  <2>1. \A i \in 1..m : p[i] # new /\ q[i] # new /\ new # t
    BY <1>1, <1>2, <1>3
  <2>2. ASSUME NEW i \in 1..m + 1, NEW j \in 1..m + 1
        PROVE  /\ p1[i] = p1[j] => i = j
               /\ q1[i] = q1[j] => i = j
               /\ p1[i] # q1[j]
    <3>1. CASE i = m + 1 /\ j = m + 1
      BY <1>1, <1>2, <1>5, <3>1
    <3>2. CASE i = m + 1 /\ j \in 1..m
      BY <1>3, <1>5, <2>1, <3>2
    <3>3. CASE i \in 1..m /\ j = m + 1
      BY <1>3, <1>5, <2>1, <3>3
    <3>4. CASE i \in 1..m /\ j \in 1..m
      BY <1>5, <1>9, <3>4
    <3> QED
      BY <1>6, <3>1, <3>2, <3>3, <3>4
  <2> QED
    BY <2>2
<1>11. DOMAIN k.heap =
         {p1[i] : i \in 1..m + 1} \cup {q1[i] : i \in 1..m + 1}
  <2>1. DOMAIN l.heap = {p[i] : i \in 1..m} \cup {q[i] : i \in 1..m} \cup {t}
    BY DEF IsList, Only
  <2>2. m + 1 \in 1..m + 1 /\ 1..m \subseteq 1..m + 1
    BY <1>2
  <2>3. {p1[i] : i \in 1..m + 1} = {p[i] : i \in 1..m} \cup {new}
    BY <1>5, <1>6, <2>2
  <2>4. {q1[i] : i \in 1..m + 1} = {q[i] : i \in 1..m} \cup {t}
    BY <1>5, <1>6, <2>2
  <2> QED
    BY <1>8, <2>1, <2>3, <2>4
<1>12. \A i \in 1..m + 1 : k.heap[p1[i]] =
         [data |-> q1[i], next |-> IF i < m + 1 THEN p1[i + 1] ELSE NULL]
  <2> TAKE i \in 1..m + 1
  <2>1. CASE i = m + 1
    BY <1>2, <1>5, <1>8, <2>1
  <2>2. CASE i = m /\ m > 0
    BY <1>2, <1>5, <1>8, <2>2
  <2>3. CASE i \in 1..m /\ i # m
    <3>1. p[i] \in DOMAIN l.heap /\ p[i] # p[m] /\ i + 1 \in 1..m /\ i < m
      BY <1>2, <1>3, <1>9, <2>3
    <3>2. l.heap[p[i]] = [data |-> q[i], next |-> p[i + 1]]
      BY <2>3, <3>1 DEF IsList, Only
    <3> QED
      BY <1>2, <1>5, <1>8, <2>3, <3>1, <3>2
  <2> QED
    BY <1>2, <1>6, <2>1, <2>2, <2>3
<1>13. IsList(k, m + 1, p1, q1, {})
  <2>1. m + 1 \in Nat /\ m + 1 # 0 /\ IsFiniteSet({})
    BY <1>2, FS_EmptySet
  <2> QED
    BY <1>7, <1>8, <1>10, <1>11, <1>12, <2>1 DEF IsList, Only
<1>14. m > 0 => m \in 1..m
  BY <1>2
<1>15. k.heap[q1[m + 1]] = l.heap[t]
  BY <1>2, <1>3, <1>5, <1>8, <1>14
<1>16. \A i \in 1..m : k.heap[q1[i]] = l.heap[q[i]]
  BY <1>3, <1>5, <1>8, <1>9, <1>14
<1> QED
  BY <1>13, <1>15, <1>16 DEF k

\* removeLast frees the last node and its text, if there is another.
LEMMA RemovedLast ==
    ASSUME NEW l, NEW m, NEW p, NEW q, IsList(l, m, p, q, {}), m > 1
    PROVE  \E p1, q1 :
             /\ IsList(removeLast(l), m - 1, p1, q1, {})
             /\ \A i \in 1..m - 1 :
                  removeLast(l).heap[q1[i]] = l.heap[q[i]]
<1> DEFINE k  == removeLast(l)
           p1 == [i \in 1..m - 1 |-> p[i]]
           q1 == [i \in 1..m - 1 |-> q[i]]
           f  == am_free(am_free(l.heap, q[m]), p[m])
<1>1. m \in Nat /\ m - 1 \in Nat /\ m - 1 # 0 /\ m # 0
      /\ m - 1 \in 1..m /\ m \in 1..m
      /\ 1..m = 1..(m - 1) \cup {m}
  BY DEF IsList
<1>2. \A i, j \in 1..m : /\ p[i] = p[j] => i = j
                         /\ q[i] = q[j] => i = j
                         /\ p[i] # q[j]
  BY DEF IsList
<1>3. \A i \in 1..m : /\ p[i] \in DOMAIN l.heap /\ q[i] \in DOMAIN l.heap
                      /\ p[i] \in Nat \ {0} /\ q[i] \in Nat \ {0}
  <2>1. \A i \in 1..m : p[i] \in DOMAIN l.heap /\ q[i] \in DOMAIN l.heap
    BY NodeOfList
  <2>2. \A i \in 1..m : p[i] \in Nat \ {0} /\ q[i] \in Nat \ {0}
    BY DEF IsList
  <2> QED
    BY <2>1, <2>2
<1>4. /\ DOMAIN f = DOMAIN l.heap \ {q[m], p[m]}
      /\ f = [a \in DOMAIN f |-> f[a]]
      /\ \A a \in DOMAIN f : f[a] = l.heap[a]
  BY DEF am_free, Restrict
<1>5. k = [heap |-> [f EXCEPT ![p[m - 1]].next = NULL], head |-> l.head]
  <2>1. Nodes(l) = p /\ Len(p) = m
    BY NodesOfList
  <2>2. l.heap[p[m]].data = q[m]
    BY <1>1, NodeOfList
  <2>3. l = [heap |-> l.heap, head |-> l.head]
    BY DEF IsList
  <2> HIDE DEF f
  <2>4. k = [l EXCEPT !.heap = [f EXCEPT ![p[m - 1]].next = NULL]]
    BY <1>1, <2>1, <2>2 DEF removeLast, f
  <2> HIDE DEF k
  <2> QED
    BY <2>3, <2>4
<1> HIDE DEF f, k
<1>6. p[m - 1] \in DOMAIN f /\ q[m - 1] \in DOMAIN f
  BY <1>1, <1>2, <1>3, <1>4
<1>7. f[p[m - 1]] = [data |-> q[m - 1], next |-> p[m]]
  <2>1. l.heap[p[m - 1]] = [data |-> q[m - 1],
                 next |-> IF m - 1 < m THEN p[m - 1 + 1] ELSE NULL]
    BY <1>1 DEF IsList
  <2>2. m - 1 < m /\ m - 1 + 1 = m
    BY <1>1
  <2> QED
    BY <1>4, <1>6, <2>1, <2>2
<1>8. [f[p[m - 1]] EXCEPT !.next = NULL] = [data |-> q[m - 1], next |-> NULL]
  BY <1>7
<1>9. /\ DOMAIN k.heap = DOMAIN f
      /\ k.heap = [a \in DOMAIN k.heap |-> k.heap[a]]
      /\ k.heap[p[m - 1]] = [data |-> q[m - 1], next |-> NULL]
      /\ \A a \in DOMAIN f : a # p[m - 1] => k.heap[a] = l.heap[a]
      /\ k = [heap |-> k.heap, head |-> k.head]
      /\ k.head = l.head
  <2> DEFINE g == [f EXCEPT ![p[m - 1]].next = NULL]
  <2>1. /\ DOMAIN g = DOMAIN f /\ g = [a \in DOMAIN g |-> g[a]]
        /\ g[p[m - 1]] = [data |-> q[m - 1], next |-> NULL]
        /\ \A a \in DOMAIN f : a # p[m - 1] => g[a] = f[a]
    BY <1>4, <1>6, <1>8
  <2>2. k.heap = g /\ k.head = l.head /\ k = [heap |-> g, head |-> l.head]
    BY <1>5
  <2> HIDE DEF g
  <2> QED
    BY <1>4, <2>1, <2>2
<1>10. p1 \in [1..m - 1 -> Nat \ {0}] /\ q1 \in [1..m - 1 -> Nat \ {0}]
  BY <1>1, <1>3
<1>11. \A i \in 1..m - 1 : p1[i] = p[i] /\ q1[i] = q[i]
  OBVIOUS
<1> HIDE DEF p1, q1
<1>12. DOMAIN k.heap =
         {p1[i] : i \in 1..m - 1} \cup {q1[i] : i \in 1..m - 1}
  <2>1. DOMAIN l.heap = {p[i] : i \in 1..m} \cup {q[i] : i \in 1..m}
    BY DEF IsList
  <2>2. {p[i] : i \in 1..m} = {p1[i] : i \in 1..m - 1} \cup {p[m]}
    BY <1>1, <1>11
  <2>3. {q[i] : i \in 1..m} = {q1[i] : i \in 1..m - 1} \cup {q[m]}
    BY <1>1, <1>11
  <2>4. p[m] \notin {p1[i] : i \in 1..m - 1} \cup {q1[i] : i \in 1..m - 1}
    BY <1>1, <1>2, <1>11
  <2>5. q[m] \notin {p1[i] : i \in 1..m - 1} \cup {q1[i] : i \in 1..m - 1}
    BY <1>1, <1>2, <1>11
  <2> QED
    BY <1>4, <1>9, <2>1, <2>2, <2>3, <2>4, <2>5
<1>13. \A i \in 1..m - 1 : k.heap[p1[i]] =
         [data |-> q1[i], next |-> IF i < m - 1 THEN p1[i + 1] ELSE NULL]
  <2> TAKE i \in 1..m - 1
  <2>1. CASE i = m - 1
    BY <1>1, <1>9, <1>11, <2>1
  <2>2. CASE i # m - 1
    <3>1. i \in 1..m /\ i < m /\ i < m - 1 /\ i + 1 \in 1..m - 1
      BY <1>1, <2>2
    <3>2. l.heap[p[i]] = [data |-> q[i], next |-> p[i + 1]]
      BY <3>1 DEF IsList
    <3>3. p[i] \in DOMAIN f /\ p[i] # p[m - 1]
      BY <1>1, <1>2, <1>3, <1>4, <2>2, <3>1
    <3> QED
      BY <1>9, <1>11, <3>1, <3>2, <3>3
  <2> QED
    BY <2>1, <2>2
<1>14. IsList(k, m - 1, p1, q1, {})
  <2>1. /\ \A i, j \in 1..m - 1 : p1[i] = p1[j] => i = j
        /\ \A i, j \in 1..m - 1 : q1[i] = q1[j] => i = j
        /\ \A i, j \in 1..m - 1 : p1[i] # q1[j]
    BY <1>1, <1>2, <1>11
  <2>2. l.head = p[1] /\ p1[1] = p[1]
    BY <1>1, <1>11 DEF IsList
  <2> QED
    BY <1>1, <1>9, <1>10, <1>12, <1>13, <2>1, <2>2, FS_EmptySet DEF IsList
<1>15. \A i \in 1..m - 1 : k.heap[q1[i]] = l.heap[q[i]]
  <2> TAKE i \in 1..m - 1
  <2>1. i \in 1..m /\ i # m
    BY <1>1
  <2>2. q[i] \in DOMAIN f /\ q[i] # p[m - 1]
    BY <1>1, <1>2, <1>3, <1>4, <2>1
  <2> QED
    BY <1>9, <1>11, <2>2
<1> QED
  BY <1>14, <1>15 DEF k

\* removeFirst frees the first node and its text.
LEMMA RemovedFirst ==
    ASSUME NEW l, NEW m, NEW p, NEW q, IsList(l, m, p, q, {}), m > 0
    PROVE  \E p1, q1 :
             /\ IsList(removeFirst(l), m - 1, p1, q1, {})
             /\ \A i \in 1..m - 1 :
                  removeFirst(l).heap[q1[i]] = l.heap[q[i + 1]]
<1> DEFINE k  == removeFirst(l)
           p1 == [i \in 1..m - 1 |-> p[i + 1]]
           q1 == [i \in 1..m - 1 |-> q[i + 1]]
           f  == am_free(am_free(l.heap, q[1]), p[1])
<1>1. /\ m \in Nat /\ m - 1 \in Nat /\ m # 0 /\ 1 \in 1..m
      /\ \A i \in 1..m - 1 : i + 1 \in 1..m /\ i + 1 # 1
      /\ \A i \in 1..m : i = 1 \/ (i - 1 \in 1..m - 1 /\ i - 1 + 1 = i)
  BY DEF IsList
<1>2. \A i, j \in 1..m : /\ p[i] = p[j] => i = j
                         /\ q[i] = q[j] => i = j
                         /\ p[i] # q[j]
  BY DEF IsList
<1>3. \A i \in 1..m : /\ p[i] \in DOMAIN l.heap /\ q[i] \in DOMAIN l.heap
                      /\ p[i] \in Nat \ {0} /\ q[i] \in Nat \ {0}
  <2>1. \A i \in 1..m : p[i] \in DOMAIN l.heap /\ q[i] \in DOMAIN l.heap
    BY NodeOfList
  <2>2. \A i \in 1..m : p[i] \in Nat \ {0} /\ q[i] \in Nat \ {0}
    BY DEF IsList
  <2> QED
    BY <2>1, <2>2
<1>4. /\ DOMAIN f = DOMAIN l.heap \ {q[1], p[1]}
      /\ f = [a \in DOMAIN f |-> f[a]]
      /\ \A a \in DOMAIN f : f[a] = l.heap[a]
  BY DEF am_free, Restrict
<1>5. k = [heap |-> f, head |-> IF 1 < m THEN p[2] ELSE NULL]
  <2>1. l.head = p[1] /\ p[1] # NULL
    BY <1>1, <1>3 DEF IsList, NULL
  <2>2. l.heap[p[1]].data = q[1]
        /\ l.heap[p[1]].next = IF 1 < m THEN p[1 + 1] ELSE NULL
    BY <1>1, NodeOfList
  <2> QED
    BY <2>1, <2>2 DEF removeFirst
<1> HIDE DEF f, k
<1>6. p1 \in [1..m - 1 -> Nat \ {0}] /\ q1 \in [1..m - 1 -> Nat \ {0}]
  BY <1>1, <1>3
<1>7. \A i \in 1..m - 1 : p1[i] = p[i + 1] /\ q1[i] = q[i + 1]
  OBVIOUS
<1> HIDE DEF p1, q1
<1>8. DOMAIN f = {p1[i] : i \in 1..m - 1} \cup {q1[i] : i \in 1..m - 1}
  <2>1. DOMAIN l.heap = {p[i] : i \in 1..m} \cup {q[i] : i \in 1..m}
    BY DEF IsList
  <2>2. {p[i] : i \in 1..m} = {p1[i] : i \in 1..m - 1} \cup {p[1]}
    BY <1>1, <1>7
  <2>3. {q[i] : i \in 1..m} = {q1[i] : i \in 1..m - 1} \cup {q[1]}
    BY <1>1, <1>7
  <2>4. p[1] \notin {p1[i] : i \in 1..m - 1} \cup {q1[i] : i \in 1..m - 1}
    BY <1>1, <1>2, <1>7
  <2>5. q[1] \notin {p1[i] : i \in 1..m - 1} \cup {q1[i] : i \in 1..m - 1}
    BY <1>1, <1>2, <1>7
  <2> QED
    BY <1>4, <2>1, <2>2, <2>3, <2>4, <2>5
<1>9. \A i \in 1..m - 1 : p1[i] \in DOMAIN f /\ q1[i] \in DOMAIN f
  BY <1>8
<1>10. \A i \in 1..m - 1 : f[p1[i]] =
         [data |-> q1[i], next |-> IF i < m - 1 THEN p1[i + 1] ELSE NULL]
  <2> TAKE i \in 1..m - 1
  <2>1. l.heap[p[i + 1]] = [data |-> q[i + 1],
                  next |-> IF i + 1 < m THEN p[i + 1 + 1] ELSE NULL]
    BY <1>1 DEF IsList
  <2>2. f[p1[i]] = l.heap[p[i + 1]]
    BY <1>4, <1>7, <1>9
  <2>3. i + 1 < m <=> i < m - 1
    BY <1>1
  <2>4. i < m - 1 => p1[i + 1] = p[i + 1 + 1]
    BY <1>1, <1>7
  <2> QED
    BY <1>7, <2>1, <2>2, <2>3, <2>4
<1>11. IsList(k, m - 1, p1, q1, {})
  <2>1. /\ \A i, j \in 1..m - 1 : p1[i] = p1[j] => i = j
        /\ \A i, j \in 1..m - 1 : q1[i] = q1[j] => i = j
        /\ \A i, j \in 1..m - 1 : p1[i] # q1[j]
    <3> SUFFICES ASSUME NEW i \in 1..m - 1, NEW j \in 1..m - 1
                 PROVE  /\ p1[i] = p1[j] => i = j
                        /\ q1[i] = q1[j] => i = j
                        /\ p1[i] # q1[j]
      OBVIOUS
    <3>1. i + 1 \in 1..m /\ j + 1 \in 1..m /\ (i + 1 = j + 1 => i = j)
      BY <1>1
    <3> QED
      BY <1>2, <1>7, <3>1
  <2>2. k.heap = f /\ k.head = IF m - 1 = 0 THEN NULL ELSE p1[1]
    BY <1>1, <1>5, <1>7
  <2>3. k = [heap |-> k.heap, head |-> k.head]
    BY <1>5
  <2>4. k.heap = [a \in DOMAIN k.heap |-> k.heap[a]]
    BY <1>4, <2>2
  <2>5. DOMAIN k.heap = {p1[i] : i \in 1..m - 1} \cup {q1[i] : i \in 1..m - 1}
    BY <1>8, <2>2
  <2>6. \A i \in 1..m - 1 : k.heap[p1[i]] =
          [data |-> q1[i], next |-> IF i < m - 1 THEN p1[i + 1] ELSE NULL]
    BY <1>10, <2>2
  <2> QED
    BY <1>1, <1>6, <2>1, <2>2, <2>3, <2>4, <2>5, <2>6, FS_EmptySet
    DEF IsList
<1>12. \A i \in 1..m - 1 : k.heap[q1[i]] = l.heap[q[i + 1]]
  <2>1. k.heap = f
    BY <1>5
  <2> QED
    BY <1>4, <1>7, <1>9, <2>1
<1> QED
  BY <1>11, <1>12 DEF k

\* reverseList: the loop over the nodes exists, and what a turn makes of the
\* turn before.
LEMMA ReversalTurns ==
    ASSUME NEW l, NEW m, NEW p, NEW q, IsList(l, m, p, q, {})
    PROVE  /\ Reversal(l)[0] = [heap |-> l.heap, head |-> NULL]
           /\ \A n \in 0..m - 1 :
                Reversal(l)[n + 1] = ReverseStep(Reversal(l)[n], p[n + 1])
<1> DEFINE first == [l EXCEPT !.head = NULL]
           Turns(w, b) == w = [n \in 0..b |->
               IF n = 0 THEN first ELSE ReverseStep(w[n - 1], p[n])]
           Some == {b \in Nat : \E w : Turns(w, b)}
<1>1. m \in Nat /\ listCount(l) = m /\ Nodes(l) = p
  <2>1. m \in Nat
    BY DEF IsList
  <2> QED
    BY <2>1, NodesOfList
<1> HIDE DEF first
<1>2. 0 \in Some
  <2>1. Turns([n \in 0..0 |-> first], 0)
    OBVIOUS
  <2> QED
    BY <2>1
<1>3. ASSUME NEW b \in Nat, b \in Some PROVE b + 1 \in Some
  <2>1. PICK w : Turns(w, b)
    BY <1>3
  <2> DEFINE v == [n \in 0..b + 1 |->
                     IF n = b + 1 THEN ReverseStep(w[b], p[b + 1]) ELSE w[n]]
  <2>2. ASSUME NEW n \in 0..b + 1
        PROVE  v[n] = IF n = 0 THEN first ELSE ReverseStep(v[n - 1], p[n])
    <3>1. CASE n = 0
      BY <2>1, <3>1
    <3>2. CASE n \in 1..b
      BY <2>1, <3>2
    <3>3. CASE n = b + 1
      BY <2>1, <3>3
    <3> QED
      BY <3>1, <3>2, <3>3
  <2>3. Turns(v, b + 1)
    BY <2>2
  <2> HIDE DEF Turns, v
  <2> QED
    BY <2>3
<1>4. m \in Some
  <2> HIDE DEF Some
  <2> QED
    BY <1>1, <1>2, <1>3, SetInduction
<1>5. Reversal(l) = CHOOSE w : Turns(w, m)
  BY <1>1 DEF Reversal, first
<1>6. Turns(Reversal(l), m)
  BY <1>4, <1>5
<1>7. first = [heap |-> l.heap, head |-> NULL]
  <2>1. l = [heap |-> l.heap, head |-> l.head]
    BY DEF IsList
  <2> QED
    BY <2>1 DEF first
<1> HIDE DEF Some
<1>8. ASSUME NEW n \in 0..m - 1
      PROVE  Reversal(l)[n + 1] = ReverseStep(Reversal(l)[n], p[n + 1])
  <2> DEFINE k == n + 1
  <2>1. k \in 0..m /\ k # 0 /\ k - 1 = n
    BY <1>1
  <2> HIDE DEF k
  <2>2. Reversal(l)[k] = ReverseStep(Reversal(l)[k - 1], p[k])
    BY <1>6, <2>1
  <2>3. Reversal(l)[k] = ReverseStep(Reversal(l)[n], p[k])
    BY <2>1, <2>2
  <2> QED
    BY <2>3 DEF k
<1> QED
  BY <1>1, <1>6, <1>7, <1>8

\* Where the loop of reverseList is after its k-th turn: the nodes up to the
\* k-th are turned around, the others are as they were.
TurnedAround(l, r, m, p, q, k) ==
    /\ r = [heap |-> r.heap, head |-> r.head]
    /\ r.heap = [a \in DOMAIN l.heap |-> r.heap[a]]
    /\ r.head = IF k = 0 THEN NULL ELSE p[k]
    /\ \A i \in 1..k : r.heap[p[i]] =
         [data |-> q[i], next |-> IF i > 1 THEN p[i - 1] ELSE NULL]
    /\ \A a \in DOMAIN l.heap :
         (\A i \in 1..k : a # p[i]) => r.heap[a] = l.heap[a]

\* A turn of that loop.
LEMMA TurnAround ==
    ASSUME NEW l, NEW m, NEW p, NEW q, IsList(l, m, p, q, {}), NEW r,
           NEW k \in 0..m - 1, TurnedAround(l, r, m, p, q, k)
    PROVE  TurnedAround(l, ReverseStep(r, p[k + 1]), m, p, q, k + 1)
<1> DEFINE s == ReverseStep(r, p[k + 1])
<1>1. /\ m \in Nat /\ k \in Nat /\ k + 1 \in 1..m /\ k + 1 # 0
      /\ k \in 0..m /\ (k > 0 => k \in 1..m)
  BY DEF IsList
<1>2. p[k + 1] \in DOMAIN l.heap
  BY <1>1, NodeOfList
<1>3. \A i \in 1..k : p[k + 1] # p[i]
  BY <1>1 DEF IsList
<1>4. /\ r.heap = [a \in DOMAIN l.heap |-> r.heap[a]]
      /\ r.head = IF k = 0 THEN NULL ELSE p[k]
  BY DEF TurnedAround
<1>5. r.heap[p[k + 1]] = l.heap[p[k + 1]]
  BY <1>2, <1>3 DEF TurnedAround
<1>6. l.heap[p[k + 1]] = [data |-> q[k + 1],
         next |-> IF k + 1 < m THEN p[k + 1 + 1] ELSE NULL]
  BY <1>1 DEF IsList
<1>7. [r.heap[p[k + 1]] EXCEPT !.next = r.head] =
        [data |-> q[k + 1], next |-> r.head]
  BY <1>5, <1>6
<1>8. s = [heap |-> [r.heap EXCEPT ![p[k + 1]].next = r.head],
           head |-> p[k + 1]]
  BY DEF ReverseStep
<1> HIDE DEF s
<1>9. /\ s = [heap |-> s.heap, head |-> s.head] /\ s.head = p[k + 1]
      /\ s.heap = [a \in DOMAIN l.heap |-> s.heap[a]]
      /\ s.heap[p[k + 1]] = [data |-> q[k + 1], next |-> r.head]
      /\ \A a \in DOMAIN l.heap : a # p[k + 1] => s.heap[a] = r.heap[a]
  <2> DEFINE g == [r.heap EXCEPT ![p[k + 1]].next = r.head]
  <2>1. /\ g = [a \in DOMAIN l.heap |-> g[a]]
        /\ g[p[k + 1]] = [data |-> q[k + 1], next |-> r.head]
        /\ \A a \in DOMAIN l.heap : a # p[k + 1] => g[a] = r.heap[a]
    BY <1>2, <1>4, <1>7
  <2>2. s.heap = g /\ s.head = p[k + 1] /\ s = [heap |-> g, head |-> s.head]
    BY <1>8
  <2> HIDE DEF g
  <2> QED
    BY <2>1, <2>2
<1>10. \A i \in 1..k : p[i] \in DOMAIN l.heap
  <2> TAKE i \in 1..k
  <2>1. i \in 1..m
    BY <1>1
  <2> QED
    BY <2>1, NodeOfList
<1>11. ASSUME NEW i \in 1..k + 1
       PROVE  s.heap[p[i]] =
                [data |-> q[i], next |-> IF i > 1 THEN p[i - 1] ELSE NULL]
  <2>1. CASE i = k + 1
    <3>1. r.head = IF i > 1 THEN p[i - 1] ELSE NULL
      BY <1>1, <1>4, <2>1
    <3> QED
      BY <1>9, <2>1, <3>1
  <2>2. CASE i \in 1..k
    <3>1. r.heap[p[i]] =
            [data |-> q[i], next |-> IF i > 1 THEN p[i - 1] ELSE NULL]
      BY <2>2 DEF TurnedAround
    <3> QED
      BY <1>3, <1>9, <1>10, <2>2, <3>1
  <2> QED
    BY <1>1, <2>1, <2>2
<1>12. ASSUME NEW a \in DOMAIN l.heap, \A i \in 1..k + 1 : a # p[i]
       PROVE  s.heap[a] = l.heap[a]
  <2>1. a # p[k + 1] /\ \A i \in 1..k : a # p[i]
    BY <1>1, <1>12
  <2>2. r.heap[a] = l.heap[a]
    BY <2>1 DEF TurnedAround
  <2> QED
    BY <1>9, <2>1, <2>2
<1> QED
  BY <1>1, <1>9, <1>11, <1>12 DEF TurnedAround, s

\* reverseList leaves every text where it is and turns the order around.
LEMMA Reversed ==
    ASSUME NEW l, NEW m, NEW p, NEW q, IsList(l, m, p, q, {})
    PROVE  \E p1, q1 :
             /\ IsList(reverseList(l), m, p1, q1, {})
             /\ \A i \in 1..m :
                  reverseList(l).heap[q1[i]] = l.heap[q[m + 1 - i]]
<1>0. \A n \in 0..m - 1 :
        Reversal(l)[n + 1] = ReverseStep(Reversal(l)[n], p[n + 1])
  BY ZenonT(30), ReversalTurns
<1> DEFINE r == reverseList(l)
           p1 == [i \in 1..m |-> p[m + 1 - i]]
           q1 == [i \in 1..m |-> q[m + 1 - i]]
           T  == {k \in 0..m : TurnedAround(l, Reversal(l)[k], m, p, q, k)}
<1>1. m \in Nat /\ r = Reversal(l)[m]
  <2>1. m \in Nat
    BY DEF IsList
  <2> QED
    BY <2>1, NodesOfList DEF reverseList
<1>2. 0 \in T
  <2>1. Reversal(l)[0] = [heap |-> l.heap, head |-> NULL]
    BY ReversalTurns
  <2>2. l.heap = [a \in DOMAIN l.heap |-> l.heap[a]]
    BY DEF IsList
  <2>3. 1..0 = {}
    OBVIOUS
  <2> HIDE DEF r
  <2>4. TurnedAround(l, [heap |-> l.heap, head |-> NULL], m, p, q, 0)
    BY <2>2, <2>3 DEF TurnedAround
  <2> QED
    BY <1>1, <2>1, <2>4
<1>3. ASSUME NEW k \in 0..m - 1, k \in T PROVE k + 1 \in T
  <2>1. k + 1 \in 0..m
    BY <1>1
  <2>2. Reversal(l)[k + 1] = ReverseStep(Reversal(l)[k], p[k + 1])
    BY <1>0
  <2>3. TurnedAround(l, ReverseStep(Reversal(l)[k], p[k + 1]), m, p, q, k + 1)
    BY <1>3, TurnAround
  <2> QED
    BY <2>1, <2>2, <2>3
<1>4. TurnedAround(l, r, m, p, q, m)
  <2> HIDE DEF T
  <2>1. m \in T
    BY <1>1, <1>2, <1>3, BoundedInduction
  <2> QED
    BY <1>1, <2>1 DEF T
<1> HIDE DEF r
<1>5. /\ r = [heap |-> r.heap, head |-> r.head]
      /\ r.heap = [a \in DOMAIN l.heap |-> r.heap[a]]
      /\ r.head = IF m = 0 THEN NULL ELSE p[m]
      /\ \A i \in 1..m : r.heap[p[i]] =
           [data |-> q[i], next |-> IF i > 1 THEN p[i - 1] ELSE NULL]
      /\ \A a \in DOMAIN l.heap :
           (\A i \in 1..m : a # p[i]) => r.heap[a] = l.heap[a]
  BY <1>4 DEF TurnedAround
<1>6. \A i, j \in 1..m : /\ p[i] = p[j] => i = j
                         /\ q[i] = q[j] => i = j
                         /\ p[i] # q[j]
  BY DEF IsList
<1>7. \A i \in 1..m : m + 1 - i \in 1..m /\ m + 1 - (m + 1 - i) = i
  BY <1>1
<1>8. \A i \in 1..m : p[i] \in Nat \ {0} /\ q[i] \in Nat \ {0}
  BY DEF IsList
<1>9. p1 \in [1..m -> Nat \ {0}] /\ q1 \in [1..m -> Nat \ {0}]
  BY <1>7, <1>8
<1>10. \A i \in 1..m : p1[i] = p[m + 1 - i] /\ q1[i] = q[m + 1 - i]
  OBVIOUS
<1> HIDE DEF p1, q1
<1>11. /\ \A i, j \in 1..m : p1[i] = p1[j] => i = j
       /\ \A i, j \in 1..m : q1[i] = q1[j] => i = j
       /\ \A i, j \in 1..m : p1[i] # q1[j]
  <2> SUFFICES ASSUME NEW i \in 1..m, NEW j \in 1..m
               PROVE  /\ p1[i] = p1[j] => i = j
                      /\ q1[i] = q1[j] => i = j
                      /\ p1[i] # q1[j]
    OBVIOUS
  <2>1. m + 1 - i = m + 1 - j => i = j
    BY <1>1
  <2> QED
    BY <1>6, <1>7, <1>10, <2>1
<1>12. DOMAIN r.heap = {p1[i] : i \in 1..m} \cup {q1[i] : i \in 1..m}
  <2>1. DOMAIN r.heap = {p[i] : i \in 1..m} \cup {q[i] : i \in 1..m}
    BY <1>5 DEF IsList
  <2>2. \A i \in 1..m : p[i] = p1[m + 1 - i] /\ q[i] = q1[m + 1 - i]
    BY <1>7, <1>10
  <2>3. {p[i] : i \in 1..m} = {p1[i] : i \in 1..m}
    BY <1>7, <1>10, <2>2
  <2>4. {q[i] : i \in 1..m} = {q1[i] : i \in 1..m}
    BY <1>7, <1>10, <2>2
  <2> QED
    BY <2>1, <2>3, <2>4
<1>13. \A i \in 1..m : r.heap[p1[i]] =
         [data |-> q1[i], next |-> IF i < m THEN p1[i + 1] ELSE NULL]
  <2> TAKE i \in 1..m
  <2>1. m + 1 - i \in 1..m /\ (m + 1 - i > 1 <=> i < m)
    BY <1>1
  <2>2. i < m => p1[i + 1] = p[m + 1 - i - 1]
    <3> HAVE i < m
    <3>1. i + 1 \in 1..m /\ m + 1 - (i + 1) = m + 1 - i - 1
      BY <1>1
    <3> QED
      BY <1>10, <3>1
  <2>3. r.heap[p[m + 1 - i]] = [data |-> q[m + 1 - i],
          next |-> IF m + 1 - i > 1 THEN p[m + 1 - i - 1] ELSE NULL]
    <3>1. \A j \in 1..m : r.heap[p[j]] =
            [data |-> q[j], next |-> IF j > 1 THEN p[j - 1] ELSE NULL]
      BY <1>5
    <3> DEFINE j == m + 1 - i
    <3>2. j \in 1..m
      BY <2>1
    <3> HIDE DEF T, j
    <3>3. r.heap[p[j]] =
            [data |-> q[j], next |-> IF j > 1 THEN p[j - 1] ELSE NULL]
      BY <3>1, <3>2
    <3> QED
      BY <1>1, <2>1, <3>3 DEF j
  <2> QED
    BY <1>10, <2>1, <2>2, <2>3
<1>14. r.head = IF m = 0 THEN NULL ELSE p1[1]
  <2>1. m # 0 => 1 \in 1..m /\ m + 1 - 1 = m
    BY <1>1
  <2> QED
    BY <1>5, <1>10, <2>1
<1>15. IsList(r, m, p1, q1, {})
  <2>1. r.heap = [a \in DOMAIN r.heap |-> r.heap[a]]
    BY <1>5
  <2> QED
    BY <1>1, <1>5, <1>9, <1>11, <1>12, <1>13, <1>14, <2>1, FS_EmptySet
    DEF IsList
<1>16. \A i \in 1..m : r.heap[q1[i]] = l.heap[q[m + 1 - i]]
  <2> TAKE i \in 1..m
  <2>1. q[m + 1 - i] \in DOMAIN l.heap /\ \A j \in 1..m : q[m + 1 - i] # p[j]
    BY <1>6, <1>7, NodeOfList
  <2> QED
    BY <1>5, <1>10, <2>1
<1> QED
  BY <1>15, <1>16 DEF r

\* freeList: its loop over the nodes exists.
LEMMA FreeingTurns ==
    ASSUME NEW l, NEW m, NEW p, NEW q, IsList(l, m, p, q, {})
    PROVE  /\ Freeing(l)[0] = l
           /\ \A n \in 0..m - 1 :
                Freeing(l)[n + 1] = FreeStep(Freeing(l)[n], p[n + 1])
<1> DEFINE Turns(w, b) == w = [n \in 0..b |->
               IF n = 0 THEN l ELSE FreeStep(w[n - 1], p[n])]
           Some == {b \in Nat : \E w : Turns(w, b)}
<1>1. m \in Nat /\ listCount(l) = m /\ Nodes(l) = p
  <2>1. m \in Nat
    BY DEF IsList
  <2> QED
    BY <2>1, NodesOfList
<1>2. 0 \in Some
  <2>1. Turns([n \in 0..0 |-> l], 0)
    OBVIOUS
  <2> QED
    BY <2>1
<1>3. ASSUME NEW b \in Nat, b \in Some PROVE b + 1 \in Some
  <2>1. PICK w : Turns(w, b)
    BY <1>3
  <2> DEFINE v == [n \in 0..b + 1 |->
                     IF n = b + 1 THEN FreeStep(w[b], p[b + 1]) ELSE w[n]]
  <2>2. ASSUME NEW n \in 0..b + 1
        PROVE  v[n] = IF n = 0 THEN l ELSE FreeStep(v[n - 1], p[n])
    <3>1. CASE n = 0
      BY <2>1, <3>1
    <3>2. CASE n \in 1..b
      BY <2>1, <3>2
    <3>3. CASE n = b + 1
      BY <2>1, <3>3
    <3> QED
      BY <3>1, <3>2, <3>3
  <2>3. Turns(v, b + 1)
    BY <2>2
  <2> HIDE DEF Turns, v
  <2> QED
    BY <2>3
<1>4. m \in Some
  <2> HIDE DEF Some
  <2> QED
    BY <1>1, <1>2, <1>3, SetInduction
<1>5. Freeing(l) = CHOOSE w : Turns(w, m)
  BY <1>1 DEF Freeing
<1>6. Turns(Freeing(l), m)
  BY <1>4, <1>5
<1> HIDE DEF Some
<1>7. ASSUME NEW n \in 0..m - 1
      PROVE  Freeing(l)[n + 1] = FreeStep(Freeing(l)[n], p[n + 1])
  <2> DEFINE k == n + 1
  <2>1. k \in 0..m /\ k # 0 /\ k - 1 = n
    BY <1>1
  <2> HIDE DEF k
  <2>2. Freeing(l)[k] = FreeStep(Freeing(l)[k - 1], p[k])
    BY <1>6, <2>1
  <2>3. Freeing(l)[k] = FreeStep(Freeing(l)[n], p[k])
    BY <2>1, <2>2
  <2> QED
    BY <2>3 DEF k
<1> QED
  BY <1>1, <1>6, <1>7

\* Where the loop of freeList is after its k-th turn: what is left are the
\* nodes behind the k-th and their texts.
FreedUpTo(l, r, m, p, q, k) ==
    /\ r = [heap |-> r.heap, head |-> r.head]
    /\ r.heap = [a \in DOMAIN r.heap |-> r.heap[a]]
    /\ r.head = IF k < m THEN p[k + 1] ELSE NULL
    /\ DOMAIN r.heap = {p[i] : i \in k + 1..m} \cup {q[i] : i \in k + 1..m}
    /\ \A i \in k + 1..m : r.heap[p[i]] = l.heap[p[i]]

\* A turn of that loop.
LEMMA FreeOne ==
    ASSUME NEW l, NEW m, NEW p, NEW q, IsList(l, m, p, q, {}), NEW r,
           NEW k \in 0..m - 1, FreedUpTo(l, r, m, p, q, k)
    PROVE  FreedUpTo(l, FreeStep(r, p[k + 1]), m, p, q, k + 1)
<1> DEFINE s == FreeStep(r, p[k + 1])
           j == k + 1
<1>1. /\ m \in Nat /\ j \in 1..m /\ j \in j..m
      /\ j..m = (j + 1..m) \cup {j} /\ j \notin j + 1..m
      /\ j..m \subseteq 1..m
  BY DEF IsList
<1> HIDE DEF j
<1>2. l.heap[p[j]].data = q[j]
      /\ l.heap[p[j]].next = IF j < m THEN p[j + 1] ELSE NULL
  BY <1>1, NodeOfList
<1>3. /\ DOMAIN r.heap = {p[i] : i \in j..m} \cup {q[i] : i \in j..m}
      /\ \A i \in j..m : r.heap[p[i]] = l.heap[p[i]]
  BY DEF FreedUpTo, j
<1>4. s = [heap |-> am_free(am_free(r.heap, q[j]), p[j]),
           head |-> IF j < m THEN p[j + 1] ELSE NULL]
  <2>1. r.heap[p[j]] = l.heap[p[j]]
    BY <1>1, <1>3
  <2> QED
    BY <1>2, <2>1 DEF FreeStep, j
<1> HIDE DEF s
<1>5. /\ DOMAIN s.heap = DOMAIN r.heap \ {q[j], p[j]}
      /\ s.heap = [a \in DOMAIN s.heap |-> s.heap[a]]
      /\ \A a \in DOMAIN s.heap : s.heap[a] = r.heap[a]
  BY <1>4 DEF am_free, Restrict
<1>6. \A h, i \in 1..m : /\ p[h] = p[i] => h = i
                         /\ q[h] = q[i] => h = i
                         /\ p[h] # q[i]
  BY DEF IsList
<1>7. DOMAIN s.heap = {p[i] : i \in j + 1..m} \cup {q[i] : i \in j + 1..m}
  <2>1. {p[i] : i \in j..m} = {p[i] : i \in j + 1..m} \cup {p[j]}
    BY <1>1
  <2>2. {q[i] : i \in j..m} = {q[i] : i \in j + 1..m} \cup {q[j]}
    BY <1>1
  <2>3. p[j] \notin {p[i] : i \in j + 1..m} \cup {q[i] : i \in j + 1..m}
    BY <1>1, <1>6
  <2>4. q[j] \notin {p[i] : i \in j + 1..m} \cup {q[i] : i \in j + 1..m}
    BY <1>1, <1>6
  <2> QED
    BY <1>3, <1>5, <2>1, <2>2, <2>3, <2>4
<1>8. \A i \in j + 1..m : s.heap[p[i]] = l.heap[p[i]]
  <2> TAKE i \in j + 1..m
  <2>1. i \in j..m
    BY <1>1
  <2>2. p[i] \in DOMAIN s.heap
    BY <1>7
  <2> QED
    BY <1>3, <1>5, <2>1, <2>2
<1>9. s = [heap |-> s.heap, head |-> s.head]
      /\ s.head = IF j < m THEN p[j + 1] ELSE NULL
  BY <1>4
<1>10. FreedUpTo(l, s, m, p, q, j)
  BY <1>5, <1>7, <1>8, <1>9 DEF FreedUpTo
<1> QED
  BY <1>10 DEF s, j

\* freeList leaves nothing behind.
LEMMA FreedList ==
    ASSUME NEW l, NEW m, NEW p, NEW q, IsList(l, m, p, q, {})
    PROVE  freeList(l) = Empty
<1>1. /\ Freeing(l)[0] = l
      /\ \A n \in 0..m - 1 :
           Freeing(l)[n + 1] = FreeStep(Freeing(l)[n], p[n + 1])
  BY FreeingTurns
<1> DEFINE r == freeList(l)
           T == {k \in 0..m : FreedUpTo(l, Freeing(l)[k], m, p, q, k)}
<1>2. m \in Nat /\ r = Freeing(l)[m]
  <2>1. m \in Nat
    BY DEF IsList
  <2> QED
    BY <2>1, NodesOfList DEF freeList
<1>3. 0 \in T
  <2>1. /\ l = [heap |-> l.heap, head |-> l.head]
        /\ l.heap = [a \in DOMAIN l.heap |-> l.heap[a]]
        /\ l.head = IF m = 0 THEN NULL ELSE p[1]
        /\ DOMAIN l.heap = {p[i] : i \in 1..m} \cup {q[i] : i \in 1..m}
    BY DEF IsList
  <2> HIDE DEF r
  <2>2. FreedUpTo(l, l, m, p, q, 0)
    BY <1>2, <2>1 DEF FreedUpTo
  <2> QED
    BY <1>1, <1>2, <2>2
<1>4. ASSUME NEW k \in 0..m - 1, k \in T PROVE k + 1 \in T
  <2>1. k + 1 \in 0..m
    BY <1>2
  <2>2. Freeing(l)[k + 1] = FreeStep(Freeing(l)[k], p[k + 1])
    BY <1>1
  <2>3. FreedUpTo(l, FreeStep(Freeing(l)[k], p[k + 1]), m, p, q, k + 1)
    BY <1>4, FreeOne
  <2> QED
    BY <2>1, <2>2, <2>3
<1>5. FreedUpTo(l, r, m, p, q, m)
  <2> HIDE DEF T
  <2>1. m \in T
    BY <1>2, <1>3, <1>4, BoundedInduction
  <2> QED
    BY <1>2, <2>1 DEF T
<1> HIDE DEF r
<1>6. /\ r = [heap |-> r.heap, head |-> r.head]
      /\ r.heap = [a \in DOMAIN r.heap |-> r.heap[a]]
      /\ r.head = NULL
      /\ DOMAIN r.heap = {}
  <2>1. m + 1..m = {} /\ ~(m < m)
    BY <1>2
  <2> QED
    BY <1>5, <2>1 DEF FreedUpTo
<1>7. r.heap = <<>>
  <2>1. r.heap = [a \in {} |-> r.heap[a]]
    BY <1>6
  <2> QED
    BY <2>1
<1> QED
  BY <1>6, <1>7 DEF Empty, r

-----------------------------------------------------------------------------
(***************************************************************************)
(* Lists of texts.                                                         *)
(***************************************************************************)
\* The characters of the ids, the line break and the "x" of
\* ListsAreSequences.
Chars == {Nl, "x"} \cup UNION {ToSet(g) : g \in Guids}

Texts == Seq(Chars)

\* Ids are texts of these characters.
LEMMA GuidsAreTexts == Guids \subseteq Texts
<1> SUFFICES ASSUME NEW g \in Guids PROVE g \in Texts
  OBVIOUS
<1>1. g \in Seq(STRING)
  BY FileAssumption
<1>2. Len(g) \in Nat /\ DOMAIN g = 1..Len(g)
  BY <1>1
<1>3. g = [n \in 1..Len(g) |-> g[n]]
  BY <1>1
<1>4. ToSet(g) \subseteq Chars
  BY DEF Chars
<1>5. \A n \in 1..Len(g) : g[n] \in Chars
  BY <1>2, <1>4 DEF ToSet
<1> HIDE DEF Chars
<1>6. g \in [1..Len(g) -> Chars]
  BY <1>3, <1>5
<1> QED
  BY <1>2, <1>6 DEF Texts

\* The list l is in order and its texts are those of the sequence c.
Holds(l, c) ==
    \E p, q : /\ IsList(l, Len(c), p, q, {})
              /\ \A i \in 1..Len(c) : l.heap[q[i]] = c[i]

\* Then Contents is that sequence.
LEMMA ContentsOfList ==
    ASSUME NEW l, NEW c \in Seq(Texts), Holds(l, c)
    PROVE  Contents(l) = c /\ listCount(l) = Len(c) /\ Len(Nodes(l)) = Len(c)
<1>1. PICK p, q : /\ IsList(l, Len(c), p, q, {})
                  /\ \A i \in 1..Len(c) : l.heap[q[i]] = c[i]
  BY DEF Holds
<1>2. /\ Contents(l) = [n \in 1..Len(c) |-> l.heap[q[n]]]
      /\ listCount(l) = Len(c) /\ Len(Nodes(l)) = Len(c)
  BY <1>1, NodesOfList
<1>3. c = [n \in 1..Len(c) |-> c[n]]
  OBVIOUS
<1> QED
  BY <1>1, <1>2, <1>3

\* The empty list.
LEMMA EmptyHolds == Holds(Empty, <<>>)
<1> DEFINE p == [i \in 1..0 |-> 1]
<1>1. /\ Empty.heap = [a \in {} |-> Empty.heap[a]] /\ DOMAIN Empty.heap = {}
      /\ Empty.head = NULL
      /\ Empty = [heap |-> Empty.heap, head |-> Empty.head]
  BY DEF Empty
<1>2. 1..0 = {} /\ Len(<<>>) = 0 /\ IsFiniteSet({})
  BY FS_EmptySet
<1>3. p \in [1..0 -> Nat \ {0}]
  OBVIOUS
<1>4. {p[i] : i \in 1..0} = {}
  BY <1>2
<1> HIDE DEF p
<1>5. DOMAIN Empty.heap = {p[i] : i \in 1..0} \cup {p[i] : i \in 1..0} \cup {}
  BY <1>1, <1>4
<1>6. IsList(Empty, 0, p, p, {})
  BY <1>1, <1>2, <1>3, <1>5 DEF IsList
<1> QED
  BY <1>2, <1>6 DEF Holds

\* A text that is stored and added at the head is the first, ...
LEMMA HeadHolds ==
    ASSUME NEW l, NEW c \in Seq(Texts), Holds(l, c), NEW text \in Texts
    PROVE  Holds(addToHead(Beside(l, text), NewAddress(l.heap)),
                 <<text>> \o c)
<1> DEFINE at == NewAddress(l.heap)
           k  == Beside(l, text)
           m  == Len(c)
           r  == addToHead(k, at)
           d  == <<text>> \o c
<1>1. PICK p, q : /\ IsList(l, m, p, q, {})
                  /\ \A i \in 1..m : l.heap[q[i]] = c[i]
  BY DEF Holds
<1> HIDE DEF m
<1>2. /\ IsList(k, m, p, q, Only(at))
      /\ k.heap[at] = text
      /\ \A i \in 1..m : k.heap[q[i]] = l.heap[q[i]]
  BY <1>1, StoreBeside
<1> HIDE DEF k, at
<1>3. PICK p1, q1 :
        /\ IsList(r, m + 1, p1, q1, {})
        /\ r.heap[q1[1]] = k.heap[at]
        /\ \A i \in 1..m : r.heap[q1[i + 1]] = k.heap[q[i]]
  BY <1>2, AddedToHead
<1> HIDE DEF r
<1>4. /\ Len(d) = m + 1 /\ d[1] = text
      /\ \A i \in 1..Len(d) : i = 1 \/ (i - 1 \in 1..m /\ d[i] = c[i - 1])
  BY DEF m
<1> HIDE DEF d
<1>5. ASSUME NEW i \in 1..Len(d) PROVE r.heap[q1[i]] = d[i]
  <2>1. CASE i = 1
    BY <1>2, <1>3, <1>4, <2>1
  <2>2. CASE i # 1
    <3> DEFINE j == i - 1
    <3>1. j \in 1..m /\ d[i] = c[j] /\ i = j + 1
      BY <1>4, <2>2
    <3> HIDE DEF j
    <3> QED
      BY <1>1, <1>2, <1>3, <3>1
  <2> QED
    BY <2>1, <2>2
<1> QED
  BY <1>3, <1>4, <1>5 DEF Holds, r, k, at, d, m

\* ... and at the tail the last.
LEMMA TailHolds ==
    ASSUME NEW l, NEW c \in Seq(Texts), Holds(l, c), NEW text \in Texts
    PROVE  Holds(addToTail(Beside(l, text), NewAddress(l.heap)),
                 Append(c, text))
<1> DEFINE at == NewAddress(l.heap)
           k  == Beside(l, text)
           m  == Len(c)
           r  == addToTail(k, at)
           d  == Append(c, text)
<1>1. PICK p, q : /\ IsList(l, m, p, q, {})
                  /\ \A i \in 1..m : l.heap[q[i]] = c[i]
  BY DEF Holds
<1> HIDE DEF m
<1>2. /\ IsList(k, m, p, q, Only(at))
      /\ k.heap[at] = text
      /\ \A i \in 1..m : k.heap[q[i]] = l.heap[q[i]]
  BY <1>1, StoreBeside
<1> HIDE DEF k, at
<1>3. PICK p1, q1 :
        /\ IsList(r, m + 1, p1, q1, {})
        /\ r.heap[q1[m + 1]] = k.heap[at]
        /\ \A i \in 1..m : r.heap[q1[i]] = k.heap[q[i]]
  BY <1>2, AddedToTail
<1> HIDE DEF r
<1>4. /\ Len(d) = m + 1 /\ d[m + 1] = text
      /\ \A i \in 1..Len(d) :
           i = m + 1 \/ (i \in 1..m /\ d[i] = c[i])
  BY DEF m
<1> HIDE DEF d
<1>5. \A i \in 1..Len(d) : r.heap[q1[i]] = d[i]
  BY <1>1, <1>2, <1>3, <1>4
<1> QED
  BY <1>3, <1>4, <1>5 DEF Holds, r, k, at, d, m

\* removeLast drops the last text of several, ...
LEMMA FrontHolds ==
    ASSUME NEW l, NEW c \in Seq(Texts), Holds(l, c), Len(c) > 1
    PROVE  Holds(removeLast(l), Front(c))
<1> DEFINE r == removeLast(l)
<1>1. PICK p, q : /\ IsList(l, Len(c), p, q, {})
                  /\ \A i \in 1..Len(c) : l.heap[q[i]] = c[i]
  BY DEF Holds
<1>2. PICK p1, q1 :
        /\ IsList(r, Len(c) - 1, p1, q1, {})
        /\ \A i \in 1..Len(c) - 1 : r.heap[q1[i]] = l.heap[q[i]]
  BY <1>1, RemovedLast
<1> HIDE DEF r
<1>3. /\ Len(Front(c)) = Len(c) - 1
      /\ \A i \in 1..Len(c) - 1 : Front(c)[i] = c[i] /\ i \in 1..Len(c)
  BY DEF Front
<1> QED
  BY <1>1, <1>2, <1>3 DEF Holds, r

\* ... and removeFirst the first.
LEMMA RestHolds ==
    ASSUME NEW l, NEW c \in Seq(Texts), Holds(l, c), c # <<>>
    PROVE  Holds(removeFirst(l), Tail(c))
<1> DEFINE r == removeFirst(l)
<1>1. PICK p, q : /\ IsList(l, Len(c), p, q, {})
                  /\ \A i \in 1..Len(c) : l.heap[q[i]] = c[i]
  BY DEF Holds
<1>2. Len(c) \in Nat /\ Len(c) > 0
  OBVIOUS
<1>3. PICK p1, q1 :
        /\ IsList(r, Len(c) - 1, p1, q1, {})
        /\ \A i \in 1..Len(c) - 1 : r.heap[q1[i]] = l.heap[q[i + 1]]
  BY <1>1, <1>2, RemovedFirst
<1> HIDE DEF r
<1>4. /\ Len(Tail(c)) = Len(c) - 1
      /\ \A i \in 1..Len(c) - 1 :
           Tail(c)[i] = c[i + 1] /\ i + 1 \in 1..Len(c)
  BY <1>2
<1> QED
  BY <1>1, <1>3, <1>4 DEF Holds, r

\* reverseList turns the sequence around.
LEMMA ReverseHolds ==
    ASSUME NEW l, NEW c \in Seq(Texts), Holds(l, c)
    PROVE  Holds(reverseList(l), Reverse(c))
<1> DEFINE r == reverseList(l)
           m == Len(c)
<1>1. PICK p, q : /\ IsList(l, m, p, q, {})
                  /\ \A i \in 1..m : l.heap[q[i]] = c[i]
  BY DEF Holds
<1>2. PICK p1, q1 :
        /\ IsList(r, m, p1, q1, {})
        /\ \A i \in 1..m : r.heap[q1[i]] = l.heap[q[m + 1 - i]]
  BY <1>1, Reversed
<1>3. /\ m \in Nat /\ Len(Reverse(c)) = m
      /\ \A i \in 1..m : m + 1 - i \in 1..m /\ (m - i) + 1 = m + 1 - i
      /\ \A i \in 1..m : Reverse(c)[i] = c[(m - i) + 1]
  BY DEF Reverse
<1> HIDE DEF r, m
<1>4. \A i \in 1..m : r.heap[q1[i]] = Reverse(c)[i]
  <2> TAKE i \in 1..m
  <2> DEFINE j == m + 1 - i
  <2>1. j \in 1..m /\ Reverse(c)[i] = c[j] /\ r.heap[q1[i]] = l.heap[q[j]]
    BY <1>2, <1>3
  <2> HIDE DEF j
  <2> QED
    BY <1>1, <2>1
<1> QED
  BY <1>2, <1>3, <1>4 DEF Holds, r, m

\* freeList leaves the empty list.
LEMMA FreeHolds ==
    ASSUME NEW l, NEW c \in Seq(Texts), Holds(l, c)
    PROVE  freeList(l) = Empty
BY FreedList DEF Holds

\* The entry at the k-th node.
LEMMA EntryOfList ==
    ASSUME NEW l, NEW c \in Seq(Texts), Holds(l, c), NEW k \in 1..Len(c)
    PROVE  /\ l.heap[l.heap[Nodes(l)[k]].data] = c[k]
           /\ l.heap[Nodes(l)[k]].next =
                IF k < Len(c) THEN Nodes(l)[k + 1] ELSE NULL
           /\ Nodes(l)[k] # NULL
           /\ \A j \in 1..Len(c) : Nodes(l)[j] = Nodes(l)[k] => j = k
<1>1. PICK p, q : /\ IsList(l, Len(c), p, q, {})
                  /\ \A i \in 1..Len(c) : l.heap[q[i]] = c[i]
  BY DEF Holds
<1>2. Nodes(l) = p
  BY <1>1, NodesOfList
<1>3. /\ l.heap[p[k]].data = q[k]
      /\ l.heap[p[k]].next = IF k < Len(c) THEN p[k + 1] ELSE NULL
  BY <1>1, NodeOfList
<1>4. p[k] # NULL /\ \A j \in 1..Len(c) : p[j] = p[k] => j = k
  BY <1>1 DEF IsList, NULL
<1> QED
  BY <1>1, <1>2, <1>3, <1>4

\* The head is the first node.
LEMMA HeadOfList ==
    ASSUME NEW l, NEW c \in Seq(Texts), Holds(l, c)
    PROVE  l.head = IF c = <<>> THEN NULL ELSE Nodes(l)[1]
<1>1. PICK p, q : IsList(l, Len(c), p, q, {})
  BY DEF Holds
<1>2. Nodes(l) = p
  BY <1>1, NodesOfList
<1>3. l.head = IF Len(c) = 0 THEN NULL ELSE p[1]
  BY <1>1 DEF IsList
<1>4. Len(c) = 0 <=> c = <<>>
  OBVIOUS
<1> QED
  BY <1>2, <1>3, <1>4

\* am_strdup and addToHead: a text becomes the first entry, unless it is
\* empty.
LEMMA CopyHolds ==
    ASSUME NEW l, NEW c \in Seq(Texts), Holds(l, c), NEW text \in Texts
    PROVE  Holds(addToHead(CopyOf(text, l).list, CopyOf(text, l).data),
                 IF text = <<>> THEN c ELSE <<text>> \o c)
<1>1. CASE text = <<>>
  BY <1>1 DEF CopyOf, addToHead
<1>2. CASE text # <<>>
  <2>1. CopyOf(text, l) =
          [list |-> Beside(l, text), data |-> NewAddress(l.heap)]
    BY <1>2 DEF CopyOf, Beside
  <2> QED
    BY <1>2, <2>1, HeadHolds
<1> QED
  BY <1>1, <1>2

\* The bucket in memory is the bucket of Downloads.
LEMMA BucketHolds ==
    ASSUME NEW l, NEW c \in Seq(Texts), Holds(l, c), NEW text \in Texts,
           NEW max \in Nat
    PROVE  LET r == Cut(addToHead(CopyOf(text, l).list,
                                  CopyOf(text, l).data), max)
           IN  /\ text # <<>> => Holds(r, D!addToBucket(text, c, max))
               /\ text # <<>> => D!addToBucket(text, c, max) \in Seq(Texts)
               /\ \E d \in Seq(Texts) : Holds(r, d)
<1> DEFINE a == addToHead(CopyOf(text, l).list, CopyOf(text, l).data)
           d == IF text = <<>> THEN c ELSE <<text>> \o c
           e == IF max > 0 /\ Len(d) > max THEN Front(d) ELSE d
<1>1. d \in Seq(Texts)
  OBVIOUS
<1>2. Holds(a, d)
  BY CopyHolds
<1>3. text # <<>> => e = D!addToBucket(text, c, max)
  BY DEF D!addToBucket, D!removeLast, Front
<1> HIDE DEF a, d
<1>4. listCount(a) = Len(d)
  BY <1>1, <1>2, ContentsOfList
<1>5. Holds(Cut(a, max), e)
  <2>1. CASE max > 0 /\ Len(d) > max
    <3>1. Len(d) > 1
      BY <1>1, <2>1
    <3> QED
      BY <1>1, <1>2, <1>4, <2>1, <3>1, FrontHolds DEF Cut
  <2>2. CASE ~(max > 0 /\ Len(d) > max)
    BY <1>2, <1>4, <2>2 DEF Cut
  <2> QED
    BY <2>1, <2>2
<1>6. e \in Seq(Texts)
  BY <1>1 DEF Front
<1> QED
  BY <1>3, <1>5, <1>6 DEF a

-----------------------------------------------------------------------------
(***************************************************************************)
(* The invariant: the list is in order in every state, the entry that is   *)
(* saved next is one of it, and the file is read inside of its bounds.     *)
(***************************************************************************)
InOrder == \E c \in Seq(Texts) : Holds(downloads, c)

Places ==
    /\ pc \in {"down", "loading", "restored", "idle", "saving"}
    /\ pc = "down" => downloads = Empty
    /\ \/ current = NULL
       \/ /\ pc = "saving"
          /\ \E k \in 1..listCount(downloads) :
               current = Nodes(downloads)[k]
    /\ place \in 0..Len(file)
    /\ pc # "loading" => place = 0

Characters == file \in Seq(Chars) /\ saved \in Seq(Texts) /\ whole \in BOOLEAN

MemoryInv == InOrder /\ Places /\ Characters

\* The invariant holds at the start.
LEMMA InitMemory == Init => MemoryInv
<1> SUFFICES ASSUME Init PROVE MemoryInv
  OBVIOUS
<1>1. InOrder
  <2>1. <<>> \in Seq(Texts)
    OBVIOUS
  <2> QED
    BY <2>1, EmptyHolds DEF InOrder, Init
<1>2. Places
  BY DEF Places, Init
<1>3. Characters
  BY DEF Characters, Init
<1> QED
  BY <1>1, <1>2, <1>3 DEF MemoryInv

\* fgets reads at least one character, and none behind the end.
LEMMA LineEndInFile ==
    ASSUME file \in Seq(Chars), place \in Nat, place < Len(file)
    PROVE  LineEnd \in place + 1..Len(file)
<1> DEFINE breaks == {n \in place + 1..Len(file) : file[n] = Nl}
           limits == {place + MAX_LINE_LEN - 1, Len(file)}
           T == limits \cup breaks
<1>1. Len(file) \in Nat
  OBVIOUS
<1>2. T \subseteq Nat /\ Len(file) \in T /\ \A n \in T : place + 1 <= n
  BY <1>1, FileAssumption
<1>3. LineEnd = Min(T)
  BY DEF LineEnd
<1> HIDE DEF T
<1>4. Min(T) \in T /\ Min(T) <= Len(file)
  BY <1>2, MinIsLeast
<1>5. LineEnd \in Nat /\ place + 1 <= LineEnd /\ LineEnd <= Len(file)
  BY <1>2, <1>3, <1>4
<1> QED
  BY <1>1, <1>5

\* A step that leaves the list alone leaves it in order.
LEMMA SameList ==
    ASSUME InOrder, downloads' = downloads
    PROVE  InOrder'
BY DEF InOrder

\* Every step preserves the invariant.
LEMMA StepMemory == MemoryInv /\ [Next]_vars => MemoryInv'
<1> SUFFICES ASSUME MemoryInv, [Next]_vars PROVE MemoryInv'
  OBVIOUS
<1>0. InOrder /\ Places /\ Characters
  BY DEF MemoryInv
<1>1. ASSUME NEW guid \in Guids, NEW max \in Maxima, addToBucket(guid, max)
      PROVE  MemoryInv'
  <2>1. PICK c \in Seq(Texts) : Holds(downloads, c)
    BY <1>0 DEF InOrder
  <2>2. guid \in Texts /\ max \in Nat
    BY FileAssumption, GuidsAreTexts
  <2>3. downloads' =
          Cut(addToHead(CopyOf(guid, downloads).list,
                        CopyOf(guid, downloads).data), max)
    BY <1>1 DEF addToBucket
  <2>4. InOrder'
    <3>1. \E d \in Seq(Texts) : Holds(downloads', d)
      BY <2>1, <2>2, <2>3, BucketHolds
    <3> QED
      BY <3>1 DEF InOrder
  <2>5. Places'
    BY <1>0, <1>1 DEF addToBucket, Places
  <2>6. Characters'
    BY <1>0, <1>1 DEF addToBucket, Characters
  <2> QED
    BY <2>4, <2>5, <2>6 DEF MemoryInv
<1>2. CASE BeginSave
  <2>1. PICK c \in Seq(Texts) : Holds(downloads, c)
    BY <1>0 DEF InOrder
  <2>2. Contents(downloads) = c /\ listCount(downloads) = Len(c)
    BY <2>1, ContentsOfList
  <2>3. InOrder'
    BY <1>0, <1>2, SameList DEF BeginSave
  <2>4. current' = NULL
        \/ \E k \in 1..listCount(downloads) : current' = Nodes(downloads)[k]
    BY <1>2, <2>1, <2>2, HeadOfList DEF BeginSave
  <2>5. Places'
    <3>1. place' = 0 /\ file' = <<>> /\ pc' = "saving"
          /\ downloads' = downloads
      BY <1>0, <1>2 DEF BeginSave, Places
    <3> QED
      BY <2>4, <3>1 DEF Places
  <2>6. Characters'
    <3>1. saved' = c /\ file' = <<>> /\ whole' = FALSE
      BY <1>2, <2>2 DEF BeginSave
    <3>2. <<>> \in Seq(Chars)
      OBVIOUS
    <3> QED
      BY <3>1, <3>2 DEF Characters
  <2> QED
    BY <2>3, <2>5, <2>6 DEF MemoryInv
<1>3. CASE SaveEntry
  <2>1. PICK c \in Seq(Texts) : Holds(downloads, c)
    BY <1>0 DEF InOrder
  <2>2. listCount(downloads) = Len(c)
    BY <2>1, ContentsOfList
  <2>3. pc = "saving" /\ current # NULL /\ place = 0
    BY <1>0, <1>3 DEF SaveEntry, Places
  <2>4. PICK k \in 1..Len(c) : current = Nodes(downloads)[k]
    BY <1>0, <2>2, <2>3 DEF Places
  <2>5. /\ downloads.heap[downloads.heap[current].data] = c[k]
        /\ downloads.heap[current].next =
             IF k < Len(c) THEN Nodes(downloads)[k + 1] ELSE NULL
    BY <2>1, <2>4, EntryOfList
  <2>6. Append(c[k], Nl) \in Seq(Chars)
    <3>1. c[k] \in Seq(Chars)
      BY DEF Texts
    <3>2. Nl \in Chars
      BY DEF Chars
    <3> QED
      BY <3>1, <3>2
  <2>7. UNCHANGED <<downloads, place, saved, whole>>
    BY <1>3 DEF SaveEntry
  <2>8. /\ file' \in Seq(Chars)
        /\ \/ pc' = "idle" /\ current' = NULL
           \/ pc' = pc /\ current' = downloads.heap[current].next
    <3> DEFINE line == Append(c[k], Nl)
    <3>1. \/ /\ file' = file \o line
             /\ current' = downloads.heap[current].next
             /\ UNCHANGED pc
          \/ /\ \E n \in 0..Len(line) - 1 : file' = file \o SubSeq(line, 1, n)
             /\ pc' = "idle" /\ current' = NULL
      BY <1>3, <2>5 DEF SaveEntry
    <3>2. line \in Seq(Chars) /\ file \in Seq(Chars)
      BY <1>0, <2>6 DEF Characters
    <3> HIDE DEF line
    <3>3. CASE file' = file \o line
      BY <3>1, <3>2, <3>3
    <3>4. ASSUME NEW n \in 0..Len(line) - 1, file' = file \o SubSeq(line, 1, n)
          PROVE  file' \in Seq(Chars)
      <4>1. SubSeq(line, 1, n) \in Seq(Chars)
        BY <3>2
      <4> QED
        BY <3>2, <3>4, <4>1
    <3>5. file' \in Seq(Chars)
      BY <3>1, <3>3, <3>4
    <3> QED
      BY <3>1, <3>5
  <2>9. Places'
    <3>1. current' = NULL
          \/ (pc' = "saving" /\ \E j \in 1..listCount(downloads) :
                                  current' = Nodes(downloads)[j])
      <4>1. k < Len(c) => k + 1 \in 1..Len(c)
        OBVIOUS
      <4> QED
        BY <2>2, <2>3, <2>5, <2>8, <4>1
    <3>2. place' \in 0..Len(file')
      BY <2>3, <2>7, <2>8
    <3>3. pc' \in {"idle", "saving"}
      BY <2>3, <2>8
    <3> QED
      BY <2>3, <2>7, <3>1, <3>2, <3>3 DEF Places
  <2> QED
    BY <1>0, <2>7, <2>8, <2>9, SameList DEF MemoryInv, Characters
<1>4. CASE EndSave
  <2>1. file' \in Seq(Chars)
    BY <1>0, <1>4 DEF EndSave, Characters
  <2>2. place' = 0 /\ current' = NULL /\ pc' = "idle"
        /\ UNCHANGED <<downloads, saved>> /\ whole' \in BOOLEAN
    BY <1>0, <1>4 DEF EndSave, Places, Characters
  <2>3. Places'
    BY <2>1, <2>2 DEF Places
  <2> QED
    BY <1>0, <2>1, <2>2, <2>3, SameList DEF MemoryInv, Characters
<1>5. CASE Kill
  <2>1. file' \in Seq(Chars)
    BY <1>0, <1>5 DEF Kill, Characters
  <2>2. downloads' = Empty /\ pc' = "down" /\ current' = NULL /\ place' = 0
        /\ UNCHANGED <<saved, whole>>
    BY <1>5 DEF Kill
  <2>3. InOrder'
    <3>1. <<>> \in Seq(Texts)
      OBVIOUS
    <3> QED
      BY <2>2, <3>1, EmptyHolds DEF InOrder
  <2>4. Places'
    BY <2>1, <2>2 DEF Places
  <2> QED
    BY <1>0, <2>1, <2>2, <2>3, <2>4 DEF MemoryInv, Characters
<1>6. CASE BeginLoad
  <2>1. InOrder'
    BY <1>0, <1>6, SameList DEF BeginLoad
  <2>2. Places'
    BY <1>0, <1>6 DEF BeginLoad, Places, Characters
  <2> QED
    BY <1>0, <1>6, <2>1, <2>2 DEF BeginLoad, MemoryInv, Characters
<1>7. CASE SessionFree
  <2>1. PICK c \in Seq(Texts) : Holds(downloads, c)
    BY <1>0 DEF InOrder
  <2>2. downloads' = Empty
    BY <1>7, <2>1, FreeHolds DEF SessionFree
  <2>3. InOrder'
    <3>1. <<>> \in Seq(Texts)
      OBVIOUS
    <3> QED
      BY <2>2, <3>1, EmptyHolds DEF InOrder
  <2>4. Places'
    <3>1. pc' = "down" /\ current' = NULL /\ place' = 0 /\ file' = file
      BY <1>0, <1>7 DEF SessionFree, Places
    <3> QED
      BY <1>0, <2>2, <3>1 DEF Places
  <2> QED
    BY <1>0, <1>7, <2>3, <2>4 DEF SessionFree, MemoryInv, Characters
<1>8. CASE LoadLine
  <2>1. PICK c \in Seq(Texts) : Holds(downloads, c)
    BY <1>0 DEF InOrder
  <2>2. pc = "loading" /\ place < Len(file) /\ place \in Nat
        /\ file \in Seq(Chars)
    BY <1>0, <1>8 DEF LoadLine, Places, Characters
  <2>3. LineEnd \in place + 1..Len(file)
    BY <2>2, LineEndInFile
  <2> DEFINE text == WithoutLast(SubSeq(file, place + 1, LineEnd))
  <2>4. text \in Texts
    BY <2>2, <2>3 DEF WithoutLast, Texts
  <2>5. downloads' =
          addToTail(Beside(downloads, text), NewAddress(downloads.heap))
    BY <1>8 DEF LoadLine, Beside
  <2>6. Append(c, text) \in Seq(Texts)
    BY <2>4
  <2>7. InOrder'
    <3> HIDE DEF text
    <3>1. Holds(downloads', Append(c, text))
      BY <2>1, <2>4, <2>5, TailHolds
    <3> QED
      BY <2>6, <3>1 DEF InOrder
  <2>8. place' = LineEnd /\ UNCHANGED <<file, pc, current, saved, whole>>
    BY <1>8 DEF LoadLine
  <2>9. Places'
    BY <1>0, <2>2, <2>3, <2>8 DEF Places
  <2> QED
    BY <1>0, <2>7, <2>8, <2>9 DEF MemoryInv, Characters
<1>9. CASE EndLoad
  <2>1. InOrder'
    BY <1>0, <1>9, SameList DEF EndLoad
  <2>2. Places'
    BY <1>0, <1>9 DEF EndLoad, Places, Characters
  <2> QED
    BY <1>0, <1>9, <2>1, <2>2 DEF EndLoad, MemoryInv, Characters
<1>10. CASE Start
  <2>1. InOrder'
    BY <1>0, <1>10, SameList DEF Start
  <2>2. Places'
    BY <1>0, <1>10 DEF Start, Places
  <2> QED
    BY <1>0, <1>10, <2>1, <2>2 DEF Start, MemoryInv, Characters
<1>11. CASE UNCHANGED vars
  <2>1. InOrder'
    BY <1>0, <1>11, SameList DEF vars
  <2> QED
    BY <1>0, <1>11, <2>1 DEF vars, MemoryInv, Places, Characters
<1> QED
  BY <1>1, <1>2, <1>3, <1>4, <1>5, <1>6, <1>7, <1>8, <1>9, <1>10, <1>11
  DEF Next

\* The invariant holds in every state.
LEMMA MemoryInvariant == Spec => []MemoryInv
<1> QED
  BY InitMemory, StepMemory, PTL DEF Spec

-----------------------------------------------------------------------------
(***************************************************************************)
(* Memory, and the lists as sequences.                                     *)
(***************************************************************************)
\* A list that is in order takes a node and a text for each entry.
LEMMA MemoryOfList ==
    ASSUME NEW l, NEW c \in Seq(Texts), Holds(l, c)
    PROVE  LET nodes == Nodes(l)
               texts == {l.heap[n].data : n \in ToSet(nodes)}
           IN  /\ DOMAIN l.heap = ToSet(nodes) \cup texts
               /\ Cardinality(DOMAIN l.heap) = 2 * Len(nodes)
<1>1. PICK p, q : IsList(l, Len(c), p, q, {})
  BY DEF Holds
<1>2. Nodes(l) = p /\ Len(p) = Len(c) /\ p \in Seq(Nat)
  BY <1>1, NodesOfList
<1>3. ToSet(p) = {p[i] : i \in 1..Len(c)}
  BY <1>2 DEF ToSet
<1>4. \A i \in 1..Len(c) : l.heap[p[i]].data = q[i]
  BY <1>1, NodeOfList
<1>5. {l.heap[n].data : n \in ToSet(p)} = {q[i] : i \in 1..Len(c)}
  BY <1>3, <1>4
<1>6. DOMAIN l.heap = {p[i] : i \in 1..Len(c)} \cup {q[i] : i \in 1..Len(c)}
  BY <1>1 DEF IsList
<1>7. Cardinality(DOMAIN l.heap) = 2 * Len(c)
  <2>1. Cardinality(DOMAIN l.heap) = 2 * Len(c) + Cardinality({})
        /\ Cardinality({}) = 0 /\ Len(c) \in Nat
    BY <1>1, SizeOfList, FS_EmptySet
  <2> QED
    BY <2>1
<1> QED
  BY <1>2, <1>3, <1>5, <1>6, <1>7

\* Whatever is called in whatever order, and wherever the process is killed:
\* the memory in use is the list's nodes and a text for each, so that none
\* leaks and none is used twice, and save_state's pointer is a node of the
\* list.
THEOREM MemoryInOrder == Spec => []HeapInOrder
<1>1. MemoryInv => HeapInOrder
  <2> SUFFICES ASSUME MemoryInv PROVE HeapInOrder
    OBVIOUS
  <2>1. PICK c \in Seq(Texts) : Holds(downloads, c)
    BY DEF MemoryInv, InOrder
  <2> DEFINE nodes == Nodes(downloads)
  <2>2. Len(nodes) = Len(c) /\ listCount(downloads) = Len(c)
    BY <2>1, ContentsOfList
  <2>3. /\ DOMAIN downloads.heap =
             ToSet(nodes) \cup {downloads.heap[n].data : n \in ToSet(nodes)}
        /\ Cardinality(DOMAIN downloads.heap) = 2 * Len(nodes)
    BY <2>1, MemoryOfList
  <2>4. \A k \in 1..Len(c) : nodes[k] \in ToSet(nodes)
    <3>1. PICK p, q : IsList(downloads, Len(c), p, q, {})
      BY <2>1 DEF Holds
    <3>2. nodes = p /\ p \in Seq(Nat) /\ Len(p) = Len(c)
      BY <3>1, NodesOfList
    <3> HIDE DEF nodes
    <3> QED
      BY <3>2 DEF ToSet
  <2>5. current = NULL \/ current \in ToSet(nodes)
    BY <2>2, <2>4 DEF MemoryInv, Places
  <2>6. downloads.head = IF c = <<>> THEN NULL ELSE nodes[1]
    BY <2>1, HeadOfList
  <2>7. c # <<>> => 1 \in 1..Len(c)
    OBVIOUS
  <2>8. c # <<>> => nodes[1] # NULL
    BY <2>1, <2>7, EntryOfList
  <2>9. nodes = <<>> <=> c = <<>>
    <3>1. PICK p, q : IsList(downloads, Len(c), p, q, {})
      BY <2>1 DEF Holds
    <3>2. nodes = p /\ p \in Seq(Nat) /\ Len(p) = Len(c)
      BY <3>1, NodesOfList
    <3> HIDE DEF nodes
    <3> QED
      BY <3>2
  <2>10. downloads.head \in ToSet(nodes) \cup {NULL}
    BY <2>4, <2>6, <2>7
  <2> HIDE DEF nodes
  <2> QED
    BY <2>3, <2>5, <2>6, <2>8, <2>9, <2>10 DEF HeapInOrder, nodes
<1> QED
  BY <1>1, MemoryInvariant, PTL

\* The operations of list.c on any list that comes about are those on
\* sequences, and freeList frees everything.
THEOREM OperationsOnLists == Spec => []ListsAreSequences
<1>1. MemoryInv => ListsAreSequences
  <2> SUFFICES ASSUME MemoryInv PROVE ListsAreSequences
    OBVIOUS
  <2>1. PICK c \in Seq(Texts) : Holds(downloads, c)
    BY DEF MemoryInv, InOrder
  <2> DEFINE l == downloads
             x == <<"x">>
             copy == CopyOf(x, l)
  <2>2. Contents(l) = c
    BY <2>1, ContentsOfList
  <2>3. x \in Texts /\ x # <<>>
    BY DEF Texts, Chars
  <2> HIDE DEF x
  <2>4. Contents(addToHead(copy.list, copy.data)) = <<x>> \o c
    <3>1. Holds(addToHead(copy.list, copy.data), <<x>> \o c)
      BY <2>1, <2>3, CopyHolds
    <3>2. <<x>> \o c \in Seq(Texts)
      BY <2>3
    <3> QED
      BY <3>1, <3>2, ContentsOfList
  <2>5. Contents(addToTail(copy.list, copy.data)) = c \o <<x>>
    <3>1. copy = [list |-> Beside(l, x), data |-> NewAddress(l.heap)]
      BY <2>3 DEF CopyOf, Beside
    <3>2. Holds(addToTail(copy.list, copy.data), Append(c, x))
      BY <2>1, <2>3, <3>1, TailHolds
    <3>3. Append(c, x) \in Seq(Texts) /\ Append(c, x) = c \o <<x>>
      BY <2>3
    <3> QED
      BY <3>2, <3>3, ContentsOfList
  <2>6. Contents(reverseList(l)) = Reverse(c)
    <3>1. Reverse(c) \in Seq(Texts)
      <4>1. \A n \in 1..Len(c) : c[(Len(c) - n) + 1] \in Texts
        OBVIOUS
      <4>2. Len(c) \in Nat /\ Reverse(c) \in [1..Len(c) -> Texts]
        BY <4>1 DEF Reverse
      <4> QED
        BY <4>2
    <3> QED
      BY <2>1, <3>1, ReverseHolds, ContentsOfList
  <2>7. c # <<>> => Contents(removeFirst(l)) = Tail(c)
    <3> HAVE c # <<>>
    <3>1. Tail(c) \in Seq(Texts)
      OBVIOUS
    <3> QED
      BY <2>1, <3>1, RestHolds, ContentsOfList
  <2>8. Len(c) > 1 => Contents(removeLast(l)) = Front(c)
    <3> HAVE Len(c) > 1
    <3>1. Front(c) \in Seq(Texts)
      BY DEF Front
    <3> QED
      BY <2>1, <3>1, FrontHolds, ContentsOfList
  <2>9. freeList(l) = Empty
    BY <2>1, FreeHolds
  <2> QED
    BY <2>2, <2>4, <2>5, <2>6, <2>7, <2>8, <2>9 DEF ListsAreSequences, x
<1> QED
  BY <1>1, MemoryInvariant, PTL

\* addToBucket does to the list in memory what Downloads says of the
\* sequence, for every id that is not empty and any maximum.
THEOREM BucketInMemory == Spec => KeepsBucket
<1> DEFINE Keeps == \A guid \in Guids \ {<<>>}, max \in Maxima :
                      addToBucket(guid, max) =>
                        Contents(downloads') =
                          D!addToBucket(guid, Contents(downloads), max)
<1>1. MemoryInv => Keeps
  <2> SUFFICES ASSUME MemoryInv, NEW guid \in Guids \ {<<>>},
                      NEW max \in Maxima, addToBucket(guid, max)
               PROVE  Contents(downloads') =
                        D!addToBucket(guid, Contents(downloads), max)
    OBVIOUS
  <2>1. PICK c \in Seq(Texts) : Holds(downloads, c)
    BY DEF MemoryInv, InOrder
  <2>2. guid \in Texts /\ guid # <<>> /\ max \in Nat
    BY FileAssumption, GuidsAreTexts
  <2>3. downloads' =
          Cut(addToHead(CopyOf(guid, downloads).list,
                        CopyOf(guid, downloads).data), max)
    BY DEF addToBucket
  <2>4. /\ Holds(downloads', D!addToBucket(guid, c, max))
        /\ D!addToBucket(guid, c, max) \in Seq(Texts)
    BY <2>1, <2>2, <2>3, BucketHolds
  <2>5. Contents(downloads) = c
    BY <2>1, ContentsOfList
  <2> QED
    BY <2>4, <2>5, ContentsOfList
<1> HIDE DEF Keeps
<1>2. MemoryInv /\ [Next]_vars => [Keeps]_vars
  BY <1>1
<1>3. Spec => [][Keeps]_vars
  BY <1>2, MemoryInvariant, PTL DEF Spec
<1> QED
  BY <1>3 DEF KeepsBucket, Keeps

-----------------------------------------------------------------------------
(***************************************************************************)
(* The state file.  It is the beginning of the lines of what was saved     *)
(* last; load_state takes them one after the other.                        *)
(***************************************************************************)
\* The text f is the beginning of the first k entries of s, each with its
\* line break; the i-th ends at off[i].
Written(f, s, k, off) ==
    /\ k \in 0..Len(s)
    /\ off \in [0..k -> Nat] /\ off[0] = 0
    /\ \A i \in 1..k : off[i] = off[i - 1] + Len(s[i]) + 1
    /\ \A i, j \in 0..k : i < j => off[i] < off[j]
    /\ Len(f) <= off[k]
    /\ \A i \in 1..k : \A j \in 1..Len(s[i]) :
         off[i - 1] + j <= Len(f) => f[off[i - 1] + j] = s[i][j]
    /\ \A i \in 1..k : off[i] <= Len(f) => f[off[i]] = Nl

\* A file that loses its end is still such a beginning.
LEMMA Shortened ==
    ASSUME NEW f \in Seq(Chars), NEW s \in Seq(Texts), NEW k, NEW off,
           Written(f, s, k, off), NEW n \in 0..Len(f)
    PROVE  Written(SubSeq(f, 1, n), s, k, off)
<1> DEFINE g == SubSeq(f, 1, n)
<1>1. /\ Len(g) = n /\ n \in Nat /\ Len(f) \in Nat /\ n <= Len(f)
      /\ \A j \in 1..n : g[j] = f[j]
  OBVIOUS
<1> HIDE DEF g
<1>2. k \in Nat /\ \A i \in 0..k : off[i] \in Nat
  BY DEF Written
<1>3. Len(g) <= off[k]
  BY <1>1, <1>2 DEF Written
<1>4. ASSUME NEW i \in 1..k, NEW j \in 1..Len(s[i]),
             off[i - 1] + j <= Len(g)
      PROVE  g[off[i - 1] + j] = s[i][j]
  <2>1. off[i - 1] \in Nat /\ j \in Nat /\ j >= 1
    BY <1>2
  <2>2. off[i - 1] + j \in 1..n /\ off[i - 1] + j <= Len(f)
    BY <1>1, <1>4, <2>1
  <2>3. f[off[i - 1] + j] = s[i][j]
    BY <2>2 DEF Written
  <2> QED
    BY <1>1, <2>2, <2>3
<1>5. ASSUME NEW i \in 1..k, off[i] <= Len(g) PROVE g[off[i]] = Nl
  <2>1. off[i] \in Nat /\ off[i] > 0
    BY <1>2 DEF Written
  <2>2. off[i] \in 1..n /\ off[i] <= Len(f)
    BY <1>1, <1>5, <2>1
  <2>3. f[off[i]] = Nl
    BY <2>2 DEF Written
  <2> QED
    BY <1>1, <2>2, <2>3
<1> QED
  BY <1>3, <1>4, <1>5 DEF Written, g

\* What is added to a text stands behind it.
LEMMA BehindPrefix ==
    ASSUME NEW f \in Seq(Chars), NEW t \in Seq(Chars), NEW j \in 1..Len(t)
    PROVE  (f \o t)[Len(f) + j] = t[j]
<1> DEFINE i == Len(f) + j
<1>1. i \in 1..Len(f) + Len(t) /\ ~(i <= Len(f)) /\ i - Len(f) = j
  OBVIOUS
<1> HIDE DEF i
<1>2. (f \o t)[i] = t[i - Len(f)]
  BY <1>1, ConcatProperties
<1> QED
  BY <1>1, <1>2 DEF i

\* A file to which the next line is added, or the beginning of it, is one
\* with that entry.
LEMMA Extended ==
    ASSUME NEW f \in Seq(Chars), NEW s \in Seq(Texts), NEW k, NEW off,
           Written(f, s, k, off), Len(f) = off[k], k < Len(s),
           NEW text, text = s[k + 1], NEW n \in 0..Len(text) + 1
    PROVE  \E next :
             /\ Written(f \o SubSeq(Append(text, Nl), 1, n), s, k + 1, next)
             /\ next[k + 1] = off[k] + Len(text) + 1
<1> DEFINE line == Append(text, Nl)
           g    == f \o SubSeq(line, 1, n)
           end  == off[k] + Len(s[k + 1]) + 1
           next == [i \in 0..k + 1 |-> IF i = k + 1 THEN end ELSE off[i]]
<1>0. text = s[k + 1]
  OBVIOUS
<1>1. /\ k \in Nat /\ k + 1 \in 1..Len(s) /\ k + 1 \in 0..Len(s)
      /\ \A i \in 0..k : off[i] \in Nat
  BY DEF Written
<1>2. s[k + 1] \in Seq(Chars) /\ Len(s[k + 1]) \in Nat
  BY <1>1 DEF Texts
<1>3. /\ Len(line) = Len(s[k + 1]) + 1 /\ line[Len(s[k + 1]) + 1] = Nl
      /\ \A j \in 1..Len(s[k + 1]) : line[j] = s[k + 1][j]
      /\ line \in Seq(Chars)
  <2>1. Nl \in Chars
    BY DEF Chars
  <2> QED
    BY <1>2, <2>1
<1>4. /\ n \in Nat /\ n <= Len(line) /\ Len(SubSeq(line, 1, n)) = n
      /\ \A j \in 1..n : SubSeq(line, 1, n)[j] = line[j]
      /\ SubSeq(line, 1, n) \in Seq(Chars)
  <2> HIDE DEF line
  <2> QED
    BY <1>2, <1>3
<1>5. /\ Len(f) \in Nat /\ Len(g) = Len(f) + n
      /\ \A j \in 1..Len(f) : g[j] = f[j]
      /\ \A j \in 1..n : g[Len(f) + j] = line[j]
  <2> DEFINE part == SubSeq(line, 1, n)
  <2> HIDE DEF line
  <2>1. Len(f) \in Nat /\ Len(part) = n /\ part \in Seq(Chars)
        /\ g = f \o part /\ \A j \in 1..n : part[j] = line[j]
    BY <1>4
  <2> HIDE DEF part, g
  <2>2. Len(g) = Len(f) + n
    BY <2>1, ConcatProperties
  <2>3. \A j \in 1..Len(f) : g[j] = f[j]
    BY <2>1
  <2>4. \A j \in 1..n : g[Len(f) + j] = part[j]
    BY <2>1, BehindPrefix
  <2> QED
    BY <2>1, <2>2, <2>3, <2>4
<1>6. end \in Nat /\ off[k] < end
  BY <1>1, <1>2
<1>7. /\ next \in [0..k + 1 -> Nat]
      /\ next[k + 1] = end
      /\ \A i \in 0..k : next[i] = off[i] /\ i \in 0..k + 1
      /\ \A i \in 0..k + 1 : i = k + 1 \/ i \in 0..k
  BY <1>1, <1>6
<1> HIDE DEF next, g, line
<1>8. next[0] = 0
  BY <1>1, <1>7 DEF Written
<1>9. ASSUME NEW i \in 1..k + 1
      PROVE  next[i] = next[i - 1] + Len(s[i]) + 1 /\ i - 1 \in 0..k
             /\ next[i - 1] = off[i - 1] /\ (i \in 1..k \/ i = k + 1)
  <2>1. i - 1 \in 0..k /\ next[i - 1] = off[i - 1]
    BY <1>1, <1>7
  <2>2. CASE i = k + 1
    <3>1. next[i] = end /\ off[i - 1] = off[k] /\ s[i] = s[k + 1]
      BY <1>1, <1>7, <2>2
    <3> QED
      BY <2>1, <2>2, <3>1
  <2>3. CASE i \in 1..k
    <3>1. next[i] = off[i]
      BY <1>1, <1>7, <2>3
    <3>2. off[i] = off[i - 1] + Len(s[i]) + 1
      BY <2>3 DEF Written
    <3> QED
      BY <2>1, <2>3, <3>1, <3>2
  <2> QED
    BY <1>1, <2>2, <2>3
<1>10. ASSUME NEW i \in 0..k + 1, NEW j \in 0..k + 1, i < j
       PROVE  next[i] < next[j]
  <2>1. i \in 0..k /\ next[i] = off[i]
    BY SMTT(20), <1>1, <1>7, <1>10
  <2>2. CASE j = k + 1
    <3>1. off[i] <= off[k]
      <4>1. i = k \/ i < k
        BY <1>1, <2>1
      <4>2. i < k => off[i] < off[k]
        BY <1>1, <2>1 DEF Written
      <4> QED
        BY <1>1, <2>1, <4>1, <4>2
    <3> QED
      BY <1>1, <1>6, <1>7, <2>1, <2>2, <3>1
  <2>3. CASE j \in 0..k
    <3>1. off[i] < off[j]
      BY <1>10, <2>1, <2>3 DEF Written
    <3> QED
      BY <1>7, <2>1, <2>3, <3>1
  <2> QED
    BY <1>7, <2>2, <2>3
<1>11. Len(g) <= next[k + 1]
  BY <1>1, <1>2, <1>3, <1>4, <1>5, <1>7
<1>12. ASSUME NEW i \in 1..k + 1, NEW j \in 1..Len(s[i]),
              next[i - 1] + j <= Len(g)
       PROVE  g[next[i - 1] + j] = s[i][j]
  <2>1. CASE i \in 1..k
    <3>1. off[i - 1] + j <= off[i]
      <4>1. off[i] = off[i - 1] + Len(s[i]) + 1
        BY <2>1 DEF Written
      <4>2. Len(s[i]) \in Nat /\ off[i - 1] \in Nat
        BY <1>1, <1>9, <2>1 DEF Texts
      <4> QED
        BY <4>1, <4>2
    <3>2. off[i] <= off[k]
      <4>1. i \in 0..k /\ k \in 0..k /\ (i = k \/ i < k)
        BY <1>1, <2>1
      <4>2. i < k => off[i] < off[k]
        BY <4>1 DEF Written
      <4> QED
        BY <1>1, <4>1, <4>2
    <3>3. off[i - 1] \in Nat /\ off[i] \in Nat /\ j \in Nat /\ j >= 1
      BY <1>1, <1>9, <2>1
    <3>4. off[i - 1] + j \in 1..Len(f)
      BY SMTT(20), <1>1, <1>5, <3>1, <3>2, <3>3
    <3>5. f[off[i - 1] + j] = s[i][j]
      BY <1>5, <2>1, <3>4 DEF Written
    <3> QED
      BY <1>5, <1>9, <3>4, <3>5
  <2>2. CASE i = k + 1
    <3>1. next[i - 1] = Len(f) /\ s[i] = s[k + 1]
      BY <1>1, <1>9, <2>2
    <3>2. j \in 1..n /\ j \in 1..Len(s[k + 1])
      BY <1>2, <1>4, <1>5, <1>12, <3>1
    <3> QED
      BY <1>3, <1>5, <3>1, <3>2
  <2> QED
    BY <1>9, <2>1, <2>2
<1>13. ASSUME NEW i \in 1..k + 1, next[i] <= Len(g) PROVE g[next[i]] = Nl
  <2>1. CASE i \in 1..k
    <3>1. next[i] = off[i] /\ off[i] \in Nat /\ i \in 0..k
      BY <1>1, <1>7, <2>1
    <3>2. 0 < off[i] /\ off[i] <= off[k]
      <4>1. k \in 0..k /\ 0 \in 0..k /\ 0 < i /\ (i = k \/ i < k)
        BY <1>1, <2>1
      <4>2. off[0] < off[i] /\ (i < k => off[i] < off[k])
        BY <3>1, <4>1 DEF Written
      <4> QED
        BY <1>1, <3>1, <4>1, <4>2 DEF Written
    <3>3. off[i] \in 1..Len(f)
      BY <1>5, <3>1, <3>2
    <3>4. f[off[i]] = Nl
      BY <1>5, <2>1, <3>3 DEF Written
    <3> QED
      BY <1>5, <3>1, <3>3, <3>4
  <2>2. CASE i = k + 1
    <3>1. next[i] = Len(f) + (Len(s[k + 1]) + 1)
      BY <1>1, <1>2, <1>5, <1>7, <2>2
    <3>2. Len(s[k + 1]) + 1 \in 1..n
      BY <1>2, <1>4, <1>5, <1>13, <3>1
    <3> QED
      BY <1>3, <1>5, <3>1, <3>2
  <2> QED
    BY <1>9, <2>1, <2>2
<1>14. Written(g, s, k + 1, next)
  BY <1>1, <1>7, <1>8, <1>9, <1>10, <1>11, <1>12, <1>13 DEF Written
<1> QED
  BY <1>7, <1>14 DEF g, line

AllPlain == \A g \in ToSet(saved) : IsPlain(g)

\* How far load_state is in the file f, with the list c: either it has read
\* the lines of c to their ends, or the last one ended with the file and is
\* damaged.
ReadSoFar(c, at, f, s, k, off) ==
    /\ Len(c) <= k
    /\ \/ /\ at = off[Len(c)]
          /\ \A i \in 1..Len(c) : c[i] = s[i]
       \/ /\ at = Len(f) /\ Len(c) > 0 /\ Len(f) < off[Len(c)]
          /\ \A i \in 1..Len(c) - 1 : c[i] = s[i]
          /\ Len(c[Len(c)]) < Len(s[Len(c)])
          /\ \A j \in 1..Len(c[Len(c)]) : c[Len(c)][j] = s[Len(c)][j]

\* Where save_state and load_state are in the file.
FilePosition(k, off) ==
    /\ Written(file, saved, k, off)
    /\ whole => k = Len(saved) /\ Len(file) = off[k]
    /\ pc = "saving" =>
         /\ whole = FALSE /\ Len(file) = off[k]
         /\ Contents(downloads) = saved
         /\ current = IF k < Len(saved) THEN Nodes(downloads)[k + 1] ELSE NULL
    /\ pc = "loading" /\ AllPlain =>
         ReadSoFar(Contents(downloads), place, file, saved, k, off)

FileInv == \E k, off : FilePosition(k, off)

\* While a file is being written, the place in it is that of the next node.
LEMMA SaveStep ==
    ASSUME MemoryInv, NEW k, NEW off, FilePosition(k, off), SaveEntry
    PROVE  FileInv'
<1>1. /\ InOrder /\ file \in Seq(Chars) /\ saved \in Seq(Texts)
      /\ pc = "saving" /\ current # NULL
  BY DEF MemoryInv, Characters, SaveEntry
<1>2. /\ Written(file, saved, k, off) /\ Len(file) = off[k]
      /\ Contents(downloads) = saved /\ whole = FALSE
      /\ current = IF k < Len(saved) THEN Nodes(downloads)[k + 1] ELSE NULL
  BY <1>1 DEF FilePosition
<1>3. Holds(downloads, saved)
  <2>1. PICK c \in Seq(Texts) : Holds(downloads, c)
    BY <1>1 DEF InOrder
  <2> QED
    BY <1>2, <2>1, ContentsOfList
<1>4. k < Len(saved) /\ k \in Nat /\ k + 1 \in 1..Len(saved)
  BY <1>1, <1>2 DEF Written
<1> DEFINE text == saved[k + 1]
           line == Append(text, Nl)
<1>0. text = saved[k + 1]
  OBVIOUS
<1>5. text \in Seq(Chars) /\ line \in Seq(Chars) /\ Len(text) \in Nat
      /\ Len(line) = Len(text) + 1 /\ SubSeq(line, 1, Len(line)) = line
  <2>1. text \in Seq(Chars)
    BY <1>1, <1>4 DEF Texts
  <2>2. Nl \in Chars
    BY DEF Chars
  <2> HIDE DEF text
  <2> QED
    BY <2>1, <2>2
<1>6. /\ downloads.heap[downloads.heap[current].data] = text
      /\ downloads.heap[current].next =
           IF k + 1 < Len(saved) THEN Nodes(downloads)[k + 1 + 1] ELSE NULL
  <2>1. current = Nodes(downloads)[k + 1]
    BY <1>2, <1>4
  <2> QED
    BY <1>1, <1>3, <1>4, <2>1, EntryOfList
<1>7. UNCHANGED <<downloads, saved, whole>>
      /\ \/ /\ file' = file \o line
            /\ current' = downloads.heap[current].next
            /\ pc' = pc
         \/ /\ \E n \in 0..Len(line) - 1 : file' = file \o SubSeq(line, 1, n)
            /\ pc' = "idle" /\ current' = NULL
  BY <1>6 DEF SaveEntry
<1>8. Contents(downloads)' = Contents(downloads)
      /\ Nodes(downloads)' = Nodes(downloads)
  BY <1>7
<1>9. \A n \in 0..Len(text) + 1 : \E next :
        /\ Written(file \o SubSeq(line, 1, n), saved, k + 1, next)
        /\ next[k + 1] = off[k] + Len(text) + 1
  <2> HIDE DEF text
  <2> QED
    BY SMTT(20), <1>0, <1>1, <1>2, <1>4, Extended
<1> HIDE DEF line, text
<1>10. CASE file' = file \o line /\ current' = downloads.heap[current].next
            /\ pc' = pc
  <2>1. PICK next : /\ Written(file \o SubSeq(line, 1, Len(line)), saved,
                               k + 1, next)
                    /\ next[k + 1] = off[k] + Len(text) + 1
    BY <1>5, <1>9
  <2>2. Written(file', saved', k + 1, next)
    BY <1>5, <1>7, <1>10, <2>1
  <2>3. Len(file') = next[k + 1]
    <3>1. Len(file \o line) = Len(file) + Len(line)
      BY <1>1, <1>5, ConcatProperties
    <3>2. Len(file) \in Nat
      BY <1>1
    <3> QED
      BY SMTT(20), <1>2, <1>5, <1>10, <2>1, <3>1, <3>2
  <2>4. FilePosition(k + 1, next)'
    BY <1>1, <1>2, <1>6, <1>7, <1>8, <1>10, <2>2, <2>3 DEF FilePosition
  <2> QED
    BY <2>4 DEF FileInv
<1>11. ASSUME NEW n \in 0..Len(line) - 1, file' = file \o SubSeq(line, 1, n),
              pc' = "idle"
       PROVE  FileInv'
  <2>1. PICK next : Written(file \o SubSeq(line, 1, n), saved, k + 1, next)
    BY <1>5, <1>9
  <2>2. FilePosition(k + 1, next)'
    BY <1>2, <1>7, <1>11, <2>1 DEF FilePosition
  <2> QED
    BY <2>2 DEF FileInv
<1> QED
  BY <1>7, <1>10, <1>11

\* A file that is cut short while it is written.
LEMMA CutStep ==
    ASSUME MemoryInv, NEW k, NEW off, FilePosition(k, off), pc = "saving",
           NEW n \in 0..Len(file), file' = SubSeq(file, 1, n),
           UNCHANGED <<saved, whole>>, pc' \notin {"saving", "loading"}
    PROVE  FileInv'
<1>1. file \in Seq(Chars) /\ saved \in Seq(Texts)
  BY DEF MemoryInv, Characters
<1>2. Written(file, saved, k, off) /\ whole = FALSE
  BY DEF FilePosition
<1>3. Written(SubSeq(file, 1, n), saved, k, off)
  BY <1>1, <1>2, Shortened
<1>4. FilePosition(k, off)'
  BY <1>2, <1>3 DEF FilePosition
<1> QED
  BY <1>4 DEF FileInv

\* load_state adds a line without its last character to the tail.
LEMMA LoadedLine ==
    ASSUME MemoryInv, LoadLine
    PROVE  /\ LineEnd \in place + 1..Len(file)
           /\ Contents(downloads) \in Seq(Texts)
           /\ Contents(downloads') =
                Append(Contents(downloads),
                       WithoutLast(SubSeq(file, place + 1, LineEnd)))
<1>1. PICK c \in Seq(Texts) : Holds(downloads, c)
  BY DEF MemoryInv, InOrder
<1>2. place < Len(file) /\ place \in Nat /\ file \in Seq(Chars)
  BY DEF MemoryInv, LoadLine, Places, Characters
<1>3. LineEnd \in place + 1..Len(file)
  BY <1>2, LineEndInFile
<1> DEFINE text == WithoutLast(SubSeq(file, place + 1, LineEnd))
<1>4. text \in Texts
  BY <1>2, <1>3 DEF WithoutLast, Texts
<1>5. downloads' =
        addToTail(Beside(downloads, text), NewAddress(downloads.heap))
  BY DEF LoadLine, Beside
<1> HIDE DEF text
<1>6. Holds(downloads', Append(c, text)) /\ Append(c, text) \in Seq(Texts)
  BY <1>1, <1>4, <1>5, TailHolds
<1>7. Contents(downloads') = Append(c, text) /\ Contents(downloads) = c
  BY <1>1, <1>6, ContentsOfList
<1> QED
  BY <1>3, <1>7 DEF text

\* Where fgets stops in a file of plain ids: at the line break of the next
\* entry, or at the end of a file that ends before it.
LEMMA NextLine ==
    ASSUME file \in Seq(Chars), saved \in Seq(Texts), AllPlain,
           NEW k, NEW off, Written(file, saved, k, off),
           NEW n \in 0..k - 1, place = off[n], place < Len(file)
    PROVE  LineEnd =
             IF off[n + 1] <= Len(file) THEN off[n + 1] ELSE Len(file)
<1> DEFINE breaks == {i \in place + 1..Len(file) : file[i] = Nl}
           limits == {place + MAX_LINE_LEN - 1, Len(file)}
           T == limits \cup breaks
           text == saved[n + 1]
           end  == IF off[n + 1] <= Len(file) THEN off[n + 1] ELSE Len(file)
<1>1. /\ k \in Nat /\ n \in Nat /\ n + 1 \in 1..k /\ n + 1 \in 1..Len(saved)
      /\ off[n] \in Nat /\ off[n + 1] \in Nat /\ n + 1 - 1 = n
  BY DEF Written
<1>2. text \in Seq(Chars) /\ Len(text) \in Nat
  BY <1>1 DEF Texts
<1>3. off[n + 1] = off[n] + Len(text) + 1
  <2>1. off[n + 1] = off[n + 1 - 1] + Len(saved[n + 1]) + 1
    BY <1>1 DEF Written
  <2> QED
    BY <1>1, <2>1
<1>4. Len(text) <= MAX_LINE_LEN - 2
      /\ \A j \in 1..Len(text) : text[j] # Nl
  <2>1. text \in ToSet(saved)
    BY <1>1 DEF ToSet
  <2>2. Len(text) \in 1..MAX_LINE_LEN - 2 /\ Nl \notin ToSet(text)
    BY <2>1 DEF AllPlain, IsPlain
  <2> HIDE DEF text
  <2>3. \A j \in 1..Len(text) : text[j] \in ToSet(text)
    BY <1>2 DEF ToSet
  <2> QED
    BY <2>2, <2>3
<1>5. Len(file) \in Nat /\ MAX_LINE_LEN \in Nat /\ place \in Nat
  BY <1>1, FileAssumption
<1>6. \A j \in 1..Len(text) :
        off[n] + j <= Len(file) => file[off[n] + j] = text[j]
  <2>1. \A i \in 1..k : \A j \in 1..Len(saved[i]) :
          off[i - 1] + j <= Len(file) => file[off[i - 1] + j] = saved[i][j]
    BY DEF Written
  <2>2. \A j \in 1..Len(saved[n + 1]) :
          off[n + 1 - 1] + j <= Len(file) =>
            file[off[n + 1 - 1] + j] = saved[n + 1][j]
    BY <1>1, <2>1
  <2> QED
    BY <1>1, <2>2
<1>7. off[n + 1] <= Len(file) => file[off[n + 1]] = Nl
  BY <1>1 DEF Written
<1> HIDE DEF text
<1>8. \A i \in breaks : off[n + 1] <= i
  <2> SUFFICES ASSUME NEW i \in place + 1..Len(file), i < off[n + 1]
               PROVE  file[i] # Nl
    BY <1>1, <1>5
  <2> DEFINE j == i - off[n]
  <2>1. j \in 1..Len(text) /\ off[n] + j = i /\ i <= Len(file)
    BY SMTT(20), <1>1, <1>2, <1>3, <1>5
  <2> HIDE DEF j
  <2>2. file[i] = text[j]
    BY <1>6, <2>1
  <2> QED
    BY <1>4, <2>1, <2>2
<1>9. T \subseteq Nat /\ T # {}
  BY <1>5, FileAssumption
<1>10. end \in T
  <2>1. CASE off[n + 1] <= Len(file)
    <3>1. off[n + 1] \in place + 1..Len(file)
      BY <1>1, <1>2, <1>3, <1>5, <2>1
    <3> QED
      BY <1>7, <2>1, <3>1
  <2>2. CASE ~(off[n + 1] <= Len(file))
    BY <2>2
  <2> QED
    BY <2>1, <2>2
<1>11. \A i \in T : end <= i
  <2>1. end <= place + MAX_LINE_LEN - 1
    BY SMTT(20), <1>1, <1>2, <1>3, <1>4, <1>5
  <2>2. end <= Len(file)
    BY <1>1, <1>5
  <2>3. \A i \in breaks : end <= i
    <3> TAKE i \in breaks
    <3>1. i \in Nat /\ off[n + 1] <= i
      BY <1>5, <1>8
    <3> QED
      BY <1>1, <1>5, <3>1
  <2> HIDE DEF end, breaks
  <2> QED
    BY <2>1, <2>2, <2>3
<1>12. end \in Nat
  BY <1>1, <1>5
<1>13. LineEnd = Min(T)
  BY DEF LineEnd
<1> HIDE DEF T, end
<1>14. Min(T) \in T /\ Min(T) <= end /\ Min(T) \in Nat
  BY <1>9, <1>10, MinIsLeast
<1>15. end <= Min(T)
  BY <1>11, <1>14
<1> QED
  BY <1>12, <1>13, <1>14, <1>15 DEF end

\* load_state takes the next entry, or what is left of it.
LEMMA LoadStep ==
    ASSUME MemoryInv, NEW k, NEW off, FilePosition(k, off), LoadLine
    PROVE  FileInv'
<1> DEFINE c == Contents(downloads)
           line == SubSeq(file, place + 1, LineEnd)
           text == WithoutLast(line)
<1>1. /\ LineEnd \in place + 1..Len(file)
      /\ c \in Seq(Texts)
      /\ Contents(downloads') = Append(c, text)
  BY LoadedLine
<1>2. /\ pc = "loading" /\ place < Len(file) /\ place' = LineEnd
      /\ UNCHANGED <<file, pc, current, saved, whole>>
  BY DEF LoadLine
<1>3. /\ file \in Seq(Chars) /\ saved \in Seq(Texts) /\ Len(file) \in Nat
      /\ place \in Nat
  BY DEF MemoryInv, Places, Characters
<1>4. Written(file, saved, k, off)
  BY DEF FilePosition
<1> HIDE DEF c
<1>5. ASSUME AllPlain
      PROVE  ReadSoFar(Append(c, text), LineEnd, file, saved, k, off)
  <2> DEFINE n == Len(c)
             d == Append(c, text)
  <2>1. ReadSoFar(c, place, file, saved, k, off)
    BY <1>2, <1>5 DEF FilePosition, c
  <2>2. n \in Nat /\ k \in Nat /\ n <= k
    BY <1>1, <1>4, <2>1 DEF Written, ReadSoFar
  <2>3. place = off[n] /\ \A i \in 1..n : c[i] = saved[i]
    BY <1>2, <1>3, <2>1 DEF ReadSoFar
  <2>4. n < k
    <3> SUFFICES ASSUME n = k PROVE FALSE
      BY <2>2
    <3>1. Len(file) <= off[k]
      BY <1>4 DEF Written
    <3> QED
      BY <1>2, <1>3, <2>3, <3>1
  <2>5. n \in 0..k - 1 /\ n + 1 \in 1..k /\ n + 1 \in 1..Len(saved)
        /\ n + 1 - 1 = n
    BY <1>4, <2>2, <2>4 DEF Written
  <2>6. LineEnd = IF off[n + 1] <= Len(file) THEN off[n + 1] ELSE Len(file)
    <3> HIDE DEF n
    <3> QED
      BY <1>2, <1>3, <1>4, <1>5, <2>3, <2>5, NextLine
  <2> DEFINE id == saved[n + 1]
  <2>7. id \in Seq(Chars) /\ Len(id) \in Nat
    BY <1>3, <2>5 DEF Texts
  <2>8. off[n] \in Nat /\ off[n + 1] \in Nat
        /\ off[n + 1] = off[n] + Len(id) + 1
    <3>1. off[n] \in Nat /\ off[n + 1] \in Nat
      BY <1>4, <2>5 DEF Written
    <3>2. off[n + 1] = off[n + 1 - 1] + Len(id) + 1
      BY <1>4, <2>5 DEF Written
    <3> QED
      BY <2>5, <3>1, <3>2
  <2>9. \A j \in 1..Len(id) :
          off[n] + j <= Len(file) => file[off[n] + j] = id[j]
    <3>1. \A i \in 1..k : \A j \in 1..Len(saved[i]) :
            off[i - 1] + j <= Len(file) => file[off[i - 1] + j] = saved[i][j]
      BY <1>4 DEF Written
    <3>2. \A j \in 1..Len(saved[n + 1]) :
            off[n + 1 - 1] + j <= Len(file) =>
              file[off[n + 1 - 1] + j] = saved[n + 1][j]
      BY <2>5, <3>1
    <3> QED
      BY <2>5, <3>2
  <2>10. /\ Len(d) = n + 1 /\ d[n + 1] = text
         /\ \A i \in 1..n : d[i] = c[i]
    BY <1>1
  <2> HIDE DEF id, d, n
  <2>11. /\ Len(text) = LineEnd - place - 1 /\ Len(text) \in Nat
         /\ \A j \in 1..Len(text) : text[j] = file[place + j]
    <3>1. /\ Len(line) = LineEnd - place /\ Len(line) \in Nat
          /\ \A j \in 1..Len(line) : line[j] = file[place + j]
          /\ line \in Seq(Chars)
      BY SMTT(20), <1>1, <1>3
    <3>2. Len(line) >= 1
      BY <1>1, <1>3, <3>1
    <3> HIDE DEF line
    <3>3. /\ Len(text) = Len(line) - 1
          /\ \A j \in 1..Len(line) - 1 : text[j] = line[j]
      BY <3>1, <3>2 DEF WithoutLast
    <3> HIDE DEF text
    <3> QED
      BY <1>1, <1>3, <3>1, <3>2, <3>3
  <2>12. \A j \in 1..Len(text) : j \in 1..Len(id) => text[j] = id[j]
    <3> HIDE DEF text
    <3> TAKE j \in 1..Len(text)
    <3> HAVE j \in 1..Len(id)
    <3>1. place + j <= Len(file)
      BY <1>1, <1>3, <2>11
    <3> QED
      BY <2>3, <2>9, <2>11, <3>1
  <2> HIDE DEF text, line
  <2>13. CASE off[n + 1] <= Len(file)
    <3>1. Len(text) = Len(id)
      BY <2>3, <2>6, <2>7, <2>8, <2>11, <2>13
    <3>2. text = id
      <4>1. text = [j \in 1..Len(text) |-> text[j]]
            /\ id = [j \in 1..Len(id) |-> id[j]]
        BY SMTT(20), <1>1, <1>3, <2>7 DEF text, line, WithoutLast
      <4> QED
        BY <2>12, <3>1, <4>1
    <3>3. \A i \in 1..Len(d) : d[i] = saved[i]
      <4> TAKE i \in 1..Len(d)
      <4>1. i \in 1..n \/ i = n + 1
        BY <2>2, <2>10
      <4> QED
        BY <2>3, <2>10, <3>2, <4>1 DEF id
    <3>4. LineEnd = off[Len(d)]
      BY <2>6, <2>10, <2>13
    <3>5. Len(d) <= k
      BY <2>2, <2>4, <2>10
    <3> QED
      BY <3>3, <3>4, <3>5 DEF ReadSoFar, d
  <2>14. CASE ~(off[n + 1] <= Len(file))
    <3>1. LineEnd = Len(file)
      BY <2>6, <2>14
    <3>2. Len(text) < Len(id)
      BY <1>3, <2>3, <2>7, <2>8, <2>11, <2>14, <3>1
    <3>3. \A j \in 1..Len(text) : text[j] = id[j]
      BY <2>7, <2>11, <2>12, <3>2
    <3>4. Len(d) <= k /\ Len(d) > 0 /\ Len(d) - 1 = n
      BY <2>2, <2>4, <2>10
    <3>5. LineEnd = Len(file) /\ Len(file) < off[Len(d)]
      BY <1>2, <1>3, <2>8, <2>10, <2>14, <3>1
    <3>6. \A i \in 1..Len(d) - 1 : d[i] = saved[i]
      BY <2>3, <2>10, <3>4
    <3>7. d[Len(d)] = text /\ saved[Len(d)] = id
      BY <2>10 DEF id
    <3> QED
      BY <3>2, <3>3, <3>4, <3>5, <3>6, <3>7 DEF ReadSoFar, d
  <2> QED
    BY <2>13, <2>14
<1>6. AllPlain' = AllPlain
  BY <1>2 DEF AllPlain
<1>7. FilePosition(k, off)'
  <2>1. whole => k = Len(saved) /\ Len(file) = off[k]
    BY DEF FilePosition
  <2>2. (pc = "loading" /\ AllPlain =>
           ReadSoFar(Contents(downloads), place, file, saved, k, off))'
    BY <1>1, <1>2, <1>5, <1>6
  <2> QED
    BY <1>2, <1>4, <2>1, <2>2 DEF FilePosition
<1> QED
  BY <1>7 DEF FileInv

\* Where the file and what was saved stay, and nothing is in the middle of
\* it, so does the place in it.
LEMMA QuietStep ==
    ASSUME FileInv, UNCHANGED <<file, saved, whole>>,
           pc' \notin {"saving", "loading"}
    PROVE  FileInv'
<1>1. PICK k, off : FilePosition(k, off)
  BY DEF FileInv
<1>2. FilePosition(k, off)'
  BY <1>1 DEF FilePosition
<1> QED
  BY <1>2 DEF FileInv

\* An empty file and a list that has nothing.
LEMMA NothingWritten ==
    ASSUME NEW s \in Seq(Texts)
    PROVE  \E off : Written(<<>>, s, 0, off) /\ off[0] = 0
<1> DEFINE off == [i \in 0..0 |-> 0]
<1>1. off \in [0..0 -> Nat] /\ off[0] = 0
  OBVIOUS
<1> HIDE DEF off
<1>2. Len(<<>>) = 0 /\ Len(s) \in Nat /\ 0 \in 0..Len(s) /\ 1..0 = {}
  OBVIOUS
<1>3. \A i, j \in 0..0 : ~(i < j)
  OBVIOUS
<1>4. Written(<<>>, s, 0, off)
  BY <1>1, <1>2, <1>3 DEF Written
<1> QED
  BY <1>1, <1>4

\* The invariant of the file holds at the start.
LEMMA InitFile == Init => FileInv
<1> SUFFICES ASSUME Init PROVE FileInv
  OBVIOUS
<1>1. saved = <<>> /\ saved \in Seq(Texts) /\ Len(saved) = 0
      /\ file = <<>> /\ Len(file) = 0 /\ pc = "down"
  BY DEF Init
<1>2. PICK off : Written(file, saved, 0, off) /\ off[0] = 0
  BY <1>1, NothingWritten
<1>3. FilePosition(0, off)
  BY <1>1, <1>2 DEF FilePosition
<1> QED
  BY <1>3 DEF FileInv

\* save_state begins with an empty file and the head of the list.
LEMMA BeginSaveStep ==
    ASSUME MemoryInv, BeginSave
    PROVE  FileInv'
<1>1. PICK c \in Seq(Texts) : Holds(downloads, c)
  BY DEF MemoryInv, InOrder
<1>2. Contents(downloads) = c
  BY <1>1, ContentsOfList
<1>3. downloads.head = IF c = <<>> THEN NULL ELSE Nodes(downloads)[1]
  BY <1>1, HeadOfList
<1>4. /\ saved' = c /\ file' = <<>> /\ whole' = FALSE /\ pc' = "saving"
      /\ downloads' = downloads /\ current' = downloads.head
  BY <1>2 DEF BeginSave
<1>5. Contents(downloads)' = c /\ Nodes(downloads)' = Nodes(downloads)
  BY <1>2, <1>4
<1>6. PICK off : Written(<<>>, c, 0, off) /\ off[0] = 0
  BY NothingWritten
<1>7. (c = <<>> <=> ~(0 < Len(c))) /\ Len(<<>>) = 0 /\ 0 + 1 = 1
  OBVIOUS
<1>8. FilePosition(0, off)'
  BY <1>3, <1>4, <1>5, <1>6, <1>7 DEF FilePosition
<1> QED
  BY <1>8 DEF FileInv

\* When the list has come to its end, all of it is in the file, unless
\* fclose fails.
LEMMA EndSaveStep ==
    ASSUME MemoryInv, FileInv, EndSave
    PROVE  FileInv'
<1>1. PICK k, off : FilePosition(k, off)
  BY DEF FileInv
<1>2. /\ pc = "saving" /\ current = NULL /\ pc' = "idle"
      /\ UNCHANGED <<downloads, current, place, saved>>
      /\ \/ whole' = TRUE /\ file' = file
         \/ \E n \in 0..Len(file) - 1 :
              file' = SubSeq(file, 1, n) /\ whole' = whole
  BY DEF EndSave
<1>3. /\ Written(file, saved, k, off) /\ Len(file) = off[k]
      /\ Contents(downloads) = saved
      /\ current = IF k < Len(saved) THEN Nodes(downloads)[k + 1] ELSE NULL
  BY <1>1, <1>2 DEF FilePosition
<1>4. saved \in Seq(Texts) /\ file \in Seq(Chars) /\ Len(file) \in Nat
  BY DEF MemoryInv, Characters
<1>5. CASE whole' = TRUE /\ file' = file
  <2>1. k \in Nat /\ k <= Len(saved) /\ Len(saved) \in Nat
    BY <1>3, <1>4 DEF Written
  <2>2. ~(k < Len(saved))
    <3> SUFFICES ASSUME k < Len(saved) PROVE FALSE
      OBVIOUS
    <3>1. k + 1 \in 1..Len(saved)
      BY <2>1
    <3>2. PICK c \in Seq(Texts) : Holds(downloads, c)
      BY DEF MemoryInv, InOrder
    <3>3. c = saved
      BY <1>3, <3>2, ContentsOfList
    <3>4. Nodes(downloads)[k + 1] # NULL
      BY <3>1, <3>2, <3>3, EntryOfList
    <3> QED
      BY <1>2, <1>3, <3>4
  <2>3. k = Len(saved)
    BY <2>1, <2>2
  <2>4. FilePosition(k, off)'
    BY <1>2, <1>3, <1>5, <2>3 DEF FilePosition
  <2> QED
    BY <2>4 DEF FileInv
<1>6. ASSUME NEW n \in 0..Len(file) - 1, file' = SubSeq(file, 1, n),
             whole' = whole
      PROVE  FileInv'
  <2>1. n \in 0..Len(file)
    BY <1>4
  <2> QED
    BY <1>1, <1>2, <1>6, <2>1, CutStep
<1> QED
  BY <1>2, <1>5, <1>6

\* A kill leaves the file, or loses the end of one that is written.
LEMMA KillStep ==
    ASSUME MemoryInv, FileInv, Kill
    PROVE  FileInv'
<1>1. PICK k, off : FilePosition(k, off)
  BY DEF FileInv
<1>2. /\ pc' = "down" /\ UNCHANGED <<saved, whole>>
      /\ \/ file' = file
         \/ /\ pc = "saving"
            /\ \E n \in 0..Len(file) : file' = SubSeq(file, 1, n)
  BY DEF Kill
<1>3. CASE file' = file
  BY <1>2, <1>3, QuietStep
<1>4. ASSUME pc = "saving",
             NEW n \in 0..Len(file), file' = SubSeq(file, 1, n)
      PROVE  FileInv'
  BY <1>1, <1>2, <1>4, CutStep
<1> QED
  BY <1>2, <1>3, <1>4

\* load_state begins with nothing.
LEMMA BeginLoadStep ==
    ASSUME MemoryInv, FileInv, BeginLoad
    PROVE  FileInv'
<1>1. PICK k, off : FilePosition(k, off)
  BY DEF FileInv
<1>2. /\ pc = "down" /\ pc' \in {"loading", "idle"} /\ place' = 0
      /\ UNCHANGED <<downloads, file, current, saved, whole>>
  BY DEF BeginLoad
<1>3. Contents(downloads) = <<>>
  <2>1. downloads = Empty
    BY <1>2 DEF MemoryInv, Places
  <2>2. <<>> \in Seq(Texts)
    OBVIOUS
  <2> QED
    BY <2>1, <2>2, EmptyHolds, ContentsOfList
<1>4. Contents(downloads') = <<>> /\ Len(<<>>) = 0 /\ 1..0 = {}
  BY <1>2, <1>3
<1>5. Written(file, saved, k, off) /\ 0 <= k /\ off[0] = 0
  <2>1. Written(file, saved, k, off)
    BY <1>1 DEF FilePosition
  <2>2. k \in 0..Len(saved) /\ off[0] = 0
    BY <2>1 DEF Written
  <2>3. Len(saved) \in Nat
    BY DEF MemoryInv, Characters
  <2> QED
    BY <2>1, <2>2, <2>3
<1>6. ReadSoFar(<<>>, 0, file, saved, k, off)
  BY <1>4, <1>5 DEF ReadSoFar
<1>7. FilePosition(k, off)'
  BY <1>1, <1>2, <1>4, <1>5, <1>6 DEF FilePosition
<1> QED
  BY <1>7 DEF FileInv

\* Every step preserves the invariant of the file.
LEMMA StepFile == MemoryInv /\ FileInv /\ [Next]_vars => FileInv'
<1> SUFFICES ASSUME MemoryInv, FileInv, [Next]_vars PROVE FileInv'
  OBVIOUS
<1>1. ASSUME NEW guid \in Guids, NEW max \in Maxima, addToBucket(guid, max)
      PROVE  FileInv'
  BY <1>1, QuietStep DEF addToBucket
<1>2. CASE BeginSave
  BY <1>2, BeginSaveStep
<1>3. CASE SaveEntry
  BY <1>3, SaveStep DEF FileInv
<1>4. CASE EndSave
  BY <1>4, EndSaveStep
<1>5. CASE Kill
  BY <1>5, KillStep
<1>6. CASE BeginLoad
  BY <1>6, BeginLoadStep
<1>7. CASE SessionFree
  BY <1>7, QuietStep DEF SessionFree
<1>8. CASE LoadLine
  BY <1>8, LoadStep DEF FileInv
<1>9. CASE EndLoad
  BY <1>9, QuietStep DEF EndLoad
<1>10. CASE Start
  BY <1>10, QuietStep DEF Start
<1>11. CASE UNCHANGED vars
  <2>1. PICK k, off : FilePosition(k, off)
    BY DEF FileInv
  <2>2. FilePosition(k, off)'
    BY <1>11, <2>1 DEF FilePosition, AllPlain, vars
  <2> QED
    BY <2>2 DEF FileInv
<1> QED
  BY <1>1, <1>2, <1>3, <1>4, <1>5, <1>6, <1>7, <1>8, <1>9, <1>10, <1>11
  DEF Next

\* Entry by entry the same is the beginning of.
LEMMA PrefixByEntries ==
    ASSUME NEW S, NEW s \in Seq(S), NEW t \in Seq(S), Len(s) <= Len(t),
           \A i \in 1..Len(s) : s[i] = t[i]
    PROVE  IsPrefix(s, t) /\ (Len(s) = Len(t) => s = t)
<1>1. s = [i \in 1..Len(s) |-> s[i]] /\ t = [i \in 1..Len(t) |-> t[i]]
      /\ Len(s) \in Nat /\ Len(t) \in Nat
  OBVIOUS
<1>2. SubSeq(s, 1, Len(s)) = [i \in 1..Len(s) |-> s[i]]
      /\ SubSeq(t, 1, Len(s)) = [i \in 1..Len(s) |-> t[i]]
  BY <1>1
<1>3. SubSeq(s, 1, Len(s)) = SubSeq(t, 1, Len(s))
  BY <1>2
<1>4. Len(s) = Len(t) => s = t
  BY <1>1
<1> QED
  BY <1>3, <1>4 DEF IsPrefix

\* What load_state has read at the end of the file is what was saved, or the
\* beginning of it.
LEMMA ReadToTheEnd ==
    ASSUME NEW f \in Seq(Chars), NEW s \in Seq(Texts), NEW c \in Seq(Texts),
           NEW k, NEW off, Written(f, s, k, off),
           ReadSoFar(c, Len(f), f, s, k, off)
    PROVE  /\ k = Len(s) /\ Len(f) = off[k] => c = s
           /\ \/ IsPrefix(c, s)
              \/ /\ Len(c) \in 1..Len(s)
                 /\ IsPrefix(Front(c), s)
                 /\ IsStrictPrefix(c[Len(c)], s[Len(c)])
<1> DEFINE n == Len(c)
<1>1. n \in Nat /\ k \in Nat /\ Len(s) \in Nat /\ n <= k /\ k <= Len(s)
      /\ Len(f) \in Nat
  BY DEF Written, ReadSoFar
<1>2. /\ \A i \in 0..k : off[i] \in Nat
      /\ \A i, j \in 0..k : i < j => off[i] < off[j]
  BY DEF Written
<1>3. n \in 0..k /\ k \in 0..k /\ (n = k \/ n < k)
  BY <1>1
<1> HIDE DEF n
<1>4. CASE Len(f) = off[n] /\ \A i \in 1..n : c[i] = s[i]
  <2>1. IsPrefix(c, s) /\ (n = Len(s) => c = s)
    BY <1>1, <1>4, PrefixByEntries DEF n
  <2>2. Len(f) = off[k] => n = k
    <3>1. n < k => off[n] < off[k]
      BY <1>2, <1>3
    <3>2. off[n] \in Nat /\ off[k] \in Nat
      BY <1>2, <1>3
    <3> QED
      BY <1>3, <1>4, <3>1, <3>2
  <2> QED
    BY <2>1, <2>2
<1>5. CASE /\ n > 0 /\ Len(f) < off[n]
           /\ \A i \in 1..n - 1 : c[i] = s[i]
           /\ Len(c[n]) < Len(s[n])
           /\ \A j \in 1..Len(c[n]) : c[n][j] = s[n][j]
  <2>1. Len(f) # off[k]
    BY <1>1, <1>2, <1>3, <1>5
  <2>2. n \in 1..Len(s) /\ n \in 1..Len(c)
    BY <1>1, <1>5 DEF n
  <2>3. IsPrefix(Front(c), s)
    <3> DEFINE d == Front(c)
    <3>1. /\ d \in Seq(Texts) /\ Len(d) = n - 1
          /\ \A i \in 1..n - 1 : d[i] = c[i]
      <4> DEFINE m == Len(c) - 1
      <4>1. m \in Nat /\ m <= Len(c) /\ m = n - 1
        BY <1>1, <1>5 DEF n
      <4> HIDE DEF m
      <4>2. /\ SubSeq(c, 1, m) \in Seq(Texts) /\ Len(SubSeq(c, 1, m)) = m
            /\ \A i \in 1..m : SubSeq(c, 1, m)[i] = c[i]
        BY <4>1
      <4> QED
        BY <4>1, <4>2 DEF Front, m
    <3>2. Len(d) <= Len(s)
      BY <1>1, <3>1
    <3> HIDE DEF d
    <3>3. IsPrefix(d, s)
      BY <1>5, <3>1, <3>2, PrefixByEntries
    <3> QED
      BY <3>3 DEF d
  <2>4. IsStrictPrefix(c[n], s[n])
    <3> DEFINE a == c[n]
               b == s[n]
    <3>1. a \in Seq(Chars) /\ b \in Seq(Chars)
      BY <2>2 DEF Texts
    <3>2. Len(a) < Len(b) /\ \A j \in 1..Len(a) : a[j] = b[j]
      BY <1>5
    <3> HIDE DEF a, b
    <3>3. Len(a) \in Nat /\ Len(b) \in Nat
      BY <3>1
    <3>4. Len(a) <= Len(b) /\ a # b
      BY <3>2, <3>3
    <3>5. IsPrefix(a, b)
      BY <3>1, <3>2, <3>4, PrefixByEntries
    <3> QED
      BY <3>4, <3>5 DEF IsStrictPrefix, a, b
  <2> QED
    BY <2>1, <2>2, <2>3, <2>4 DEF n
<1> QED
  BY <1>4, <1>5 DEF ReadSoFar, n

\* At the end of the file load_state has read what was saved.
LEMMA EndLoadStep ==
    ASSUME MemoryInv, FileInv, EndLoad
    PROVE  RestoredIsSaved'
<1>1. PICK k, off : FilePosition(k, off)
  BY DEF FileInv
<1>2. /\ pc = "loading" /\ place = Len(file)
      /\ UNCHANGED <<downloads, file, current, saved, whole>>
  BY DEF EndLoad
<1>3. PICK c \in Seq(Texts) : Holds(downloads, c)
  BY DEF MemoryInv, InOrder
<1>4. Contents(downloads) = c /\ Contents(downloads') = c
  BY <1>2, <1>3, ContentsOfList
<1>5. file \in Seq(Chars) /\ saved \in Seq(Texts)
  BY DEF MemoryInv, Characters
<1>6. ASSUME AllPlain
      PROVE  /\ whole => c = saved
             /\ \/ IsPrefix(c, saved)
                \/ /\ Len(c) \in 1..Len(saved)
                   /\ IsPrefix(Front(c), saved)
                   /\ IsStrictPrefix(c[Len(c)], saved[Len(c)])
  <2>1. /\ Written(file, saved, k, off)
        /\ ReadSoFar(c, Len(file), file, saved, k, off)
        /\ whole => k = Len(saved) /\ Len(file) = off[k]
    BY <1>1, <1>2, <1>4, <1>6 DEF FilePosition
  <2> QED
    BY <1>5, <2>1, ReadToTheEnd
<1> QED
  BY <1>2, <1>4, <1>6 DEF RestoredIsSaved, AllPlain

\* save_state and load_state: a process finds the ids that were saved last,
\* all of them and in their order; after a kill in the middle of save_state,
\* or a disk that was full, the newest of them, of which the last may have
\* lost its end.
THEOREM RestoredAsSaved == Spec => []RestoredIsSaved
<1> DEFINE IInv == MemoryInv /\ FileInv /\ RestoredIsSaved
<1>1. Init => IInv
  <2>1. Init => RestoredIsSaved
    BY DEF Init, RestoredIsSaved
  <2> QED
    BY <2>1, InitMemory, InitFile
<1>2. MemoryInv /\ FileInv /\ RestoredIsSaved /\ [Next]_vars
        => RestoredIsSaved'
  <2> SUFFICES ASSUME MemoryInv, FileInv, RestoredIsSaved, [Next]_vars
               PROVE  RestoredIsSaved'
    OBVIOUS
  <2>1. CASE EndLoad
    BY <2>1, EndLoadStep
  <2>2. CASE UNCHANGED vars
    BY <2>2 DEF RestoredIsSaved, vars
  <2>3. CASE /\ ~EndLoad
             /\ \/ \E guid \in Guids, max \in Maxima : addToBucket(guid, max)
                \/ BeginSave \/ SaveEntry \/ EndSave \/ Kill
                \/ BeginLoad \/ SessionFree \/ LoadLine \/ Start
    <3>1. pc' # "restored"
      BY <2>3 DEF addToBucket, BeginSave, SaveEntry, EndSave, Kill, BeginLoad,
                  SessionFree, LoadLine, Start
    <3> QED
      BY <3>1 DEF RestoredIsSaved
  <2> QED
    BY <2>1, <2>2, <2>3 DEF Next
<1>3. IInv /\ [Next]_vars => IInv'
  BY <1>2, StepMemory, StepFile
<1>4. IInv => RestoredIsSaved
  OBVIOUS
<1> HIDE DEF IInv
<1> QED
  BY <1>1, <1>3, <1>4, PTL DEF Spec
=============================================================================
