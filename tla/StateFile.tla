----------------------------- MODULE StateFile -----------------------------
(***************************************************************************)
(* The download history between memory and disk: the list of src/list.c    *)
(* that addToBucket of src/downloads.c fills, and save_state and           *)
(* load_state of src/state.c, which write it to a file line by line and    *)
(* read it back.  The process may be killed anywhere, and writing may      *)
(* fail; what was written stays.                                           *)
(*                                                                         *)
(*   pc = "loading"   load_state reads a line                              *)
(*        "restored"  load_state has returned                              *)
(*        "idle"      the daemon is between two calls                      *)
(*        "saving"    save_state writes the entry at current               *)
(*        "down"      no process runs                                      *)
(***************************************************************************)
EXTENDS Lists

CONSTANTS
    Guids,             \* the ids of torrents, texts
    MAX_LINE_LEN,
    Maxima,            \* the sizes that a session may limit its history to
    Entries            \* bound: nothing is added to a list of that length

VARIABLES
    downloads,         \* the list [heap, head]
    file,              \* the state file, a sequence of characters
    pc,
    current,           \* the node that is saved next
    place,             \* how much of the file was read
    saved,             \* history: the list that was last to be saved
    whole              \* history: and whether all of it was

vars == <<downloads, file, pc, current, place, saved, whole>>

Nl == "\n"

ASSUME FileAssumption ==
    /\ MAX_LINE_LEN \in Nat /\ MAX_LINE_LEN > 2
    /\ Maxima \subseteq Nat /\ Entries \in Nat
    /\ \A g \in Guids : g \in Seq(STRING)

Empty == [heap |-> <<>>, head |-> NULL]

\* am_strdup: an empty text is none.
CopyOf(text, l) ==
    IF text = <<>> THEN [list |-> l, data |-> NULL]
    ELSE LET at == NewAddress(l.heap)
         IN  [list |-> [l EXCEPT !.heap = Store(@, at, text)], data |-> at]

\* Seeded bug: the list is cut back to one entry less.
CutTooShort(l, maxBucketItems) ==
    IF maxBucketItems > 0 /\ listCount(l) >= maxBucketItems
    THEN removeLast(l) ELSE l

Cut(l, maxBucketItems) ==
    IF maxBucketItems > 0 /\ listCount(l) > maxBucketItems
    THEN removeLast(l) ELSE l

addToBucket(guid, maxBucketItems) ==
    /\ pc = "idle"
    /\ listCount(downloads) < Entries
    /\ LET copy == CopyOf(guid, downloads)
       IN  downloads' = Cut(addToHead(copy.list, copy.data), maxBucketItems)
    /\ UNCHANGED <<file, pc, current, place, saved, whole>>

\* save_state opens the file, which empties it.  (Where it cannot be opened
\* nothing changes.)
BeginSave ==
    /\ pc = "idle"
    /\ saved' = Contents(downloads)
    /\ file' = <<>> /\ whole' = FALSE
    /\ current' = downloads.head
    /\ pc' = "saving"
    /\ UNCHANGED <<downloads, place>>

\* One entry and its line break; or the disk is full, and part of it is
\* there.
SaveEntry ==
    /\ pc = "saving" /\ current # NULL
    /\ LET node == downloads.heap[current]
           line == Append(downloads.heap[node.data], Nl)
       IN  \/ /\ file' = file \o line
              /\ current' = node.next
              /\ UNCHANGED pc
           \/ /\ \E n \in 0..Len(line) - 1 : file' = file \o SubSeq(line, 1, n)
              /\ pc' = "idle" /\ current' = NULL
    /\ UNCHANGED <<downloads, place, saved, whole>>

\* fclose writes what the C library has held back, and may fail; nobody
\* looks.
EndSave ==
    /\ pc = "saving" /\ current = NULL
    /\ \/ whole' = TRUE /\ UNCHANGED file
       \/ \E n \in 0..Len(file) - 1 :
            file' = SubSeq(file, 1, n) /\ UNCHANGED whole
    /\ pc' = "idle"
    /\ UNCHANGED <<downloads, current, place, saved>>

\* A kill, also inside of save_state.  What the C library holds back of an
\* entry is lost with the process.
Kill ==
    /\ pc # "down"
    /\ \/ UNCHANGED file
       \/ /\ pc = "saving"
          /\ \E n \in 0..Len(file) : file' = SubSeq(file, 1, n)
    /\ downloads' = Empty
    /\ pc' = "down"
    /\ current' = NULL
    /\ place' = 0
    /\ UNCHANGED <<saved, whole>>

\* A process starts, or a reload has a new session; without a file it goes
\* on with nothing.
BeginLoad ==
    /\ pc = "down"
    /\ pc' \in {"loading", "idle"}
    /\ place' = 0
    /\ UNCHANGED <<downloads, file, current, saved, whole>>

\* session_free, for a session that a new one replaces.
SessionFree ==
    /\ pc = "idle"
    /\ downloads' = freeList(downloads)
    /\ pc' = "down"
    /\ UNCHANGED <<file, current, place, saved, whole>>

\* Where fgets stops: behind a line break, at the end, or when line is full.
LineEnd ==
    LET breaks == {n \in place + 1..Len(file) : file[n] = Nl}
        limits == {place + MAX_LINE_LEN - 1, Len(file)}
    IN  Min(limits \cup breaks)

\* Seeded bug: the line break is kept.
WithBreak(text) == text

\* am_strndup(line, len - 1).
WithoutLast(text) == SubSeq(text, 1, Len(text) - 1)

LoadLine ==
    /\ pc = "loading" /\ place < Len(file)
    /\ LET at == NewAddress(downloads.heap)
           line == SubSeq(file, place + 1, LineEnd)
           heap == Store(downloads.heap, at, WithoutLast(line))
       IN  downloads' = addToTail([downloads EXCEPT !.heap = heap], at)
    /\ place' = LineEnd
    /\ UNCHANGED <<file, pc, current, saved, whole>>

EndLoad ==
    /\ pc = "loading" /\ place = Len(file)
    /\ pc' = "restored"
    /\ place' = 0
    /\ UNCHANGED <<downloads, file, current, saved, whole>>

Start ==
    /\ pc = "restored"
    /\ pc' = "idle"
    /\ UNCHANGED <<downloads, file, current, place, saved, whole>>

Init ==
    /\ downloads = Empty
    /\ file = <<>>
    /\ pc = "down"
    /\ current = NULL /\ place = 0
    /\ saved = <<>> /\ whole = TRUE

Next ==
    \/ \E guid \in Guids, max \in Maxima : addToBucket(guid, max)
    \/ BeginSave \/ SaveEntry \/ EndSave \/ Kill
    \/ BeginLoad \/ SessionFree \/ LoadLine \/ EndLoad \/ Start

Spec == Init /\ [][Next]_vars
-----------------------------------------------------------------------------
(***************************************************************************)
(* Properties.                                                             *)
(***************************************************************************)
\* Whatever is called in whatever order, the memory in use is the nodes of
\* the list and a text for each: nothing leaks, nothing is shared, and no
\* pointer outlives what it points to.  removeLast leaves its caller the
\* head of a list of one (list.c:253), so that it must not be called there.
HeapInOrder ==
    LET nodes == Nodes(downloads)
        texts == {downloads.heap[n].data : n \in ToSet(nodes)}
    IN  /\ DOMAIN downloads.heap = ToSet(nodes) \cup texts
        /\ Cardinality(DOMAIN downloads.heap) = 2 * Len(nodes)
        /\ {downloads.head, current} \subseteq ToSet(nodes) \cup {NULL}
        /\ downloads.head = NULL <=> nodes = <<>>

\* On every list that comes about, the operations of list.c are those on
\* sequences, and freeList leaves nothing behind.
ListsAreSequences ==
    LET l == downloads
        c == Contents(l)
        copy == CopyOf(<<"x">>, l)
    IN  /\ Contents(addToHead(copy.list, copy.data)) = <<<<"x">>>> \o c
        /\ Contents(addToTail(copy.list, copy.data)) = c \o <<<<"x">>>>
        /\ Contents(reverseList(l)) = Reverse(c)
        /\ c # <<>> => Contents(removeFirst(l)) = Tail(c)
        /\ Len(c) > 1 => Contents(removeLast(l)) = Front(c)
        /\ freeList(l) = Empty

\* The bucket of downloads.c, for any list and any maximum: what Downloads
\* says of sequences is what happens in memory.
D == INSTANCE Downloads WITH NoGUID <- NULL

KeepsBucket ==
    [][\A guid \in Guids \ {<<>>}, max \in Maxima :
         addToBucket(guid, max) =>
             Contents(downloads') =
                 D!addToBucket(guid, Contents(downloads), max)]_vars

\* Ids that survive as lines: not empty, short enough for the buffer, and
\* without a line break.
IsPlain(guid) ==
    Len(guid) \in 1..MAX_LINE_LEN - 2 /\ Nl \notin ToSet(guid)

\* What load_state finds is what was saved last.  If it was cut short by a
\* kill or a full disk, the oldest entries are missing, and before them at
\* most one is damaged: it lost its end, so that it is no longer the id that
\* it was (state.c:115).
RestoredIsSaved ==
    LET c == Contents(downloads)
        n == Len(c)
    IN  pc = "restored" /\ (\A g \in ToSet(saved) : IsPlain(g)) =>
          /\ whole => c = saved
          /\ \/ IsPrefix(c, saved)
             \/ /\ n \in 1..Len(saved)
                /\ IsPrefix(Front(c), saved)
                /\ IsStrictPrefix(c[n], saved[n])
=============================================================================
