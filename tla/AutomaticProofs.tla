-------------------------- MODULE AutomaticProofs --------------------------
(***************************************************************************)
(* Proofs about Automatic, for all values of its constants that satisfy    *)
(* its assumptions.                                                        *)
(***************************************************************************)
EXTENDS Automatic, SequenceTheorems, FiniteSetTheorems, TLAPS

-----------------------------------------------------------------------------
(***************************************************************************)
(* Lemmas about the operators.                                             *)
(***************************************************************************)
\* The ids of the items and the mark of a torn line are entries.
LEMMA IdsAreEntries ==
    /\ \A i \in Items : BucketId(i) \in Entries /\ BucketId(i) # Torn
    /\ Torn \in Entries
BY ItemsAssumption DEF Entries, Ids

\* The limit of the history, and what the counter of its size can hold.
LEMMA LimitFacts ==
    /\ Window \in Nat /\ MaxFeeds \in Nat /\ DefaultMaxBucket \in Nat
    /\ HistoryLimit \in Nat /\ Uint16 \in Nat
    /\ 1 <= DefaultMaxBucket /\ DefaultMaxBucket <= HistoryLimit
    /\ HistoryLimit < Uint16
<1>1. /\ Window \in Nat /\ MaxFeeds \in Nat /\ DefaultMaxBucket \in Nat \ {0}
      /\ Uint16 \in Nat /\ DefaultMaxBucket + Window * MaxFeeds < Uint16
  BY FeedsAssumption, BucketAssumption
<1>2. Window * MaxFeeds \in Nat
  BY <1>1
<1> QED
  BY <1>1, <1>2 DEF HistoryLimit

\* A document lists at most Window items of its feed.
LEMMA ListedType ==
    ASSUME NEW f \in Feeds, published[f] \in Nat,
           published[f] <= Len(Stream[f])
    PROVE  Listed(f) \in Seq(Items) /\ Len(Listed(f)) <= Window
<1> DEFINE last  == published[f]
           first == IF last > Window THEN last - Window + 1 ELSE 1
<1>1. Stream[f] \in Seq(Items) /\ Window \in Nat \ {0}
  BY FeedsAssumption
<1>2. Listed(f) = SubSeq(Stream[f], first, last)
  BY DEF Listed
<1>3. first \in 1..Len(Stream[f]) + 1 /\ last \in first - 1..Len(Stream[f])
  BY <1>1, LenProperties
<1>4. /\ SubSeq(Stream[f], first, last) \in Seq(Items)
      /\ Len(SubSeq(Stream[f], first, last)) =
           IF first <= last THEN last - first + 1 ELSE 0
  BY <1>1, <1>3, SubSeqProperties
<1> QED
  BY <1>1, <1>2, <1>3, <1>4

\* addToBucket puts the id in front, keeps the order of the rest, and returns
\* a list that is longer than both the old one and the maximum in no case.
LEMMA AddToBucketType ==
    ASSUME NEW S, NEW bucket \in Seq(S), NEW id \in S, NEW max \in Nat
    PROVE  LET new == addToBucket(id, bucket, max)
           IN  /\ new \in Seq(S)
               /\ max > 0 => Len(new) <= max \/ Len(new) = Len(bucket)
               /\ Len(new) \in {Len(bucket), Len(bucket) + 1}
               /\ \A k \in 1..Len(new) :
                     new[k] = IF k = 1 THEN id ELSE bucket[k - 1]
<1> DEFINE grown == <<id>> \o bucket
<1>1. /\ grown \in Seq(S)
      /\ Len(grown) = Len(bucket) + 1
      /\ \A k \in 1..Len(grown) :
            grown[k] = IF k = 1 THEN id ELSE bucket[k - 1]
  OBVIOUS
<1>2. Len(bucket) \in Nat
  OBVIOUS
<1> DEFINE short == SubSeq(grown, 1, Len(grown) - 1)
<1> HIDE DEF grown
<1>3. /\ short \in Seq(S)
      /\ Len(short) = Len(bucket)
      /\ \A k \in 1..Len(short) : short[k] = grown[k]
  BY <1>1, <1>2, SubSeqProperties
<1>4. addToBucket(id, bucket, max) =
        IF max > 0 /\ Len(grown) > max THEN short ELSE grown
  BY DEF addToBucket, removeLast, grown
<1> HIDE DEF short
<1>5. CASE max > 0 /\ Len(grown) > max
  BY <1>1, <1>2, <1>3, <1>4, <1>5
<1>6. CASE ~(max > 0 /\ Len(grown) > max)
  BY <1>1, <1>2, <1>4, <1>6
<1> QED
  BY <1>5, <1>6

\* A save that is cut short leaves a history that is no longer, with the
\* entries of the bucket in their order except for the last, perhaps torn.
LEMMA CutShortType ==
    ASSUME NEW bucket \in Seq(Entries), NEW file \in CutShort(bucket)
    PROVE  /\ file \in Seq(Entries)
           /\ Len(file) <= Len(bucket)
           /\ \A k \in 1..Len(file) :
                 file[k] = bucket[k] \/ (file[k] = Torn /\ k = Len(file))
<1> DEFINE First(n) == SubSeq(bucket, 1, n)
<1>1. \A n \in 0..Len(bucket) :
         /\ First(n) \in Seq(Entries)
         /\ Len(First(n)) = n
         /\ \A k \in 1..n : First(n)[k] = bucket[k]
  BY SubSeqProperties, LenProperties
<1> HIDE DEF First
<1>2. CASE \E n \in 0..Len(bucket) : file = First(n)
  BY <1>1, <1>2, LenProperties
<1>3. CASE \E n \in 0..Len(bucket) - 1 : file = First(n) \o <<Torn>>
  <2>1. PICK n \in 0..Len(bucket) - 1 : file = First(n) \o <<Torn>>
    BY <1>3
  <2>2. n \in 0..Len(bucket)
    BY LenProperties
  <2>3. /\ First(n) \in Seq(Entries) /\ Len(First(n)) = n
        /\ \A k \in 1..n : First(n)[k] = bucket[k]
    BY <1>1, <2>2
  <2>4. <<Torn>> \in Seq(Entries) /\ Len(<<Torn>>) = 1 /\ <<Torn>>[1] = Torn
    BY IdsAreEntries
  <2>5. /\ file \in Seq(Entries) /\ Len(file) = n + 1
        /\ \A k \in 1..n + 1 :
              file[k] = IF k <= n THEN First(n)[k] ELSE <<Torn>>[k - n]
    BY <2>1, <2>3, <2>4, ConcatProperties
  <2> QED
    BY <2>3, <2>4, <2>5, LenProperties
<1> QED
  BY <1>2, <1>3 DEF CutShort, First

-----------------------------------------------------------------------------
(***************************************************************************)
(* Type correctness.                                                       *)
(***************************************************************************)
\* A new session (session_init) has its type.
LEMMA NewSessionType ==
    ASSUME NEW feeds \in Configs, NEW bucket \in Seq(Entries),
           NEW match_only \in BOOLEAN
    PROVE  NewSession(feeds, bucket, match_only) \in SessionType
BY FeedsAssumption, BucketAssumption DEF NewSession, SessionType

\* So have the session and the command line of no process.
LEMMA NoSessionType == NoSession \in SessionType /\ NoArgs \in
    [match_only : BOOLEAN, once : BOOLEAN, xmlfile : Feeds \cup {NoFile}]
BY BucketAssumption DEF NoSession, NewSession, SessionType, NoArgs

\* What load_state returns is a list of entries.
LEMMA LoadedType ==
    ASSUME statefile \in Seq(Entries), NEW bucket \in Loaded
    PROVE  bucket \in Seq(Entries)
<1>1. bucket = statefile \/ bucket = <<>>
  BY DEF Loaded
<1>2. <<>> \in Seq(Entries)
  BY EmptySeq
<1> QED
  BY <1>1, <1>2

\* The daemon that was never started is well typed.
LEMMA TypeInit == Init => TypeOK
<1> SUFFICES ASSUME Init PROVE TypeOK
  OBVIOUS
<1>1. \A f \in Feeds : Len(Stream[f]) \in Nat
  BY FeedsAssumption, LenProperties
<1>2. <<>> \in Seq(Feeds) /\ <<>> \in Seq(Items) /\ <<>> \in Seq(Entries)
  OBVIOUS
<1>3. published = [f \in Feeds |-> 0]
  BY DEF Init
<1>4. /\ published \in [Feeds -> Nat]
      /\ \A f \in Feeds : published[f] <= Len(Stream[f])
  BY <1>1, <1>3
<1> QED
  BY <1>2, <1>4, NoSessionType DEF Init, TypeOK, PCs, Gone, Idle

\* EndProcess leaves every variable of the process at a typed value.
LEMMA EndProcessType ==
    ASSUME TypeOK, NEW place \in Gone, EndProcess(place),
           statefile' \in Seq(Entries),
           UNCHANGED <<published, tmVars, notified, saved>>
    PROVE  TypeOK'
<1>1. <<>> \in Seq(Feeds) /\ <<>> \in Seq(Items)
  OBVIOUS
<1> QED
  BY <1>1, NoSessionType DEF TypeOK, EndProcess, Gone, PCs, Idle, tmVars

\* Every step of main, of its handlers and of the environment keeps the types.
LEMMA TypeStep == TypeOK /\ ControlOK /\ [Next]_vars => TypeOK'
<1> SUFFICES ASSUME TypeOK, ControlOK, [Next]_vars PROVE TypeOK'
  OBVIOUS
<1> USE DEF mainVars, flagVars, tmVars
<1>1. CASE Start
  <2>1. argv' \in [match_only : BOOLEAN, once : BOOLEAN,
                   xmlfile : Feeds \cup {NoFile}]
    BY <1>1, SettingsAssumption DEF Start
  <2>2. argv'.match_only \in BOOLEAN
    BY <2>1
  <2>3. PICK feeds \in Configs, bucket \in Loaded :
           session' = NewSession(feeds, bucket, argv'.match_only)
    BY <1>1 DEF Start
  <2>4. bucket \in Seq(Entries)
    BY LoadedType DEF TypeOK
  <2>5. session' \in SessionType
    BY <2>2, <2>3, <2>4, FeedsAssumption, BucketAssumption
       DEF NewSession, SessionType
  <2> QED
    BY <1>1, <2>1, <2>5 DEF Start, TypeOK, PCs, Idle
<1>2. CASE BeginCheck
  <2>1. current' \in Seq(Feeds)
    BY <1>2 DEF BeginCheck, ReadsFile, TypeOK, SessionType
  <2> QED
    BY <1>2, <2>1 DEF BeginCheck, TypeOK, PCs, Checking
<1>3. CASE LeaveLoop
  BY <1>3 DEF LeaveLoop, TypeOK, PCs
<1>4. CASE EndFeed
  BY <1>4 DEF EndFeed, TypeOK, ControlOK, InFeed, PCs, Checking
<1>5. CASE EndCheck
  BY <1>5 DEF EndCheck, TypeOK, PCs, Idle
<1>6. CASE GoToSleep
  BY <1>6 DEF GoToSleep, TypeOK, PCs, Idle
<1>7. CASE WakeUp
  BY <1>7 DEF WakeUp, TypeOK, PCs, Idle
<1>8. CASE FetchFails
  BY <1>8 DEF FetchFails, TypeOK
<1>9. ASSUME NEW f \in Feeds, Fetch(f) PROVE TypeOK'
  <2>1. items' \in Seq(Items) /\ Len(Listed(f)) \in Nat
    BY <1>9, ListedType, LenProperties DEF Fetch, TypeOK
  <2>2. (session.max_bucket_items + Len(Listed(f))) % Uint16 \in Nat
    BY <2>1, LimitFacts DEF TypeOK, SessionType
  <2>3. session' \in SessionType
    BY <1>9, <2>2 DEF Fetch, TypeOK, SessionType
  <2> QED
    BY <1>9, <2>1, <2>3 DEF Fetch, TypeOK, PCs, Checking
<1>10. CASE SkipItem
  BY <1>10 DEF SkipItem, TypeOK
<1>11. ASSUME NEW item \in Items, HandOver(item) PROVE TypeOK'
  <2> USE DEF Answer, TypeOK, PCs, Checking, Urls
  <2>1. CASE HandOverFails(item)
    BY <2>1 DEF HandOverFails
  <2>2. CASE HandOverAdded(item)
    BY <2>2 DEF HandOverAdded, LimitSpeed
  <2>3. CASE HandOverDuplicate(item)
    BY <2>3 DEF HandOverDuplicate
  <2>4. CASE HandOverReplyLost(item)
    BY <2>4 DEF HandOverReplyLost
  <2>5. CASE HandOverFile(item)
    BY <2>5 DEF HandOverFile
  <2>6. CASE HandOverMagnetNowhere(item)
    BY <2>6 DEF HandOverMagnetNowhere
  <2>7. CASE EmptyTorrentAborts(item)
    BY <2>7, EndProcessType DEF EmptyTorrentAborts, Gone
  <2> QED
    BY <1>11, <2>1, <2>2, <2>3, <2>4, <2>5, <2>6, <2>7 DEF HandOver
<1>12. CASE ReportFailure
  BY <1>12 DEF ReportFailure, TypeOK, ControlOK, InItem, AtAnswer, PCs,
     Checking
<1>13. CASE ReportSuccess
  BY <1>13 DEF ReportSuccess, TypeOK, ControlOK, InItem, AtAnswer, PCs,
     Checking, Urls
<1>14. CASE Record
  <2>1. Head(items) \in Items
    BY <1>14 DEF Record, TypeOK, ControlOK, InItem, AtAnswer
  <2>2. addToBucket(BucketId(Head(items)), session.downloads,
                    session.max_bucket_items) \in Seq(Entries)
    BY <2>1, IdsAreEntries, AddToBucketType DEF TypeOK, SessionType
  <2>3. session' \in SessionType
    BY <1>14, <2>2 DEF Record, TypeOK, SessionType
  <2> QED
    BY <1>14, <2>3 DEF Record, TypeOK, PCs
<1>15. ASSUME SaveReturns, pc \in {"save", "write"},
              statefile' \in Seq(Entries)
       PROVE  TypeOK'
  <2>1. CASE resume = "items"
    <3>1. items # <<>>
      BY <1>15, <2>1 DEF ControlOK, InItem, Saving
    <3>2. items' = Tail(items) /\ resume' = "main" /\ pc' = "items"
      BY <1>15, <2>1 DEF SaveReturns, Idle
    <3>3. items' \in Seq(Items)
      BY <3>1, <3>2 DEF TypeOK
    <3> QED
      BY <1>15, <3>2, <3>3 DEF SaveReturns, TypeOK, PCs, Checking, Idle
  <2>2. CASE resume # "items"
    BY <1>15, <2>2 DEF SaveReturns, TypeOK, PCs, Checking, Idle
  <2> QED
    BY <2>1, <2>2
<1>16. CASE SaveCannotOpen
  BY <1>15, <1>16 DEF SaveCannotOpen, TypeOK
<1>17. CASE SaveOpens
  BY <1>17 DEF SaveOpens, TypeOK, PCs
<1>18. CASE SaveWrites
  BY <1>15, <1>18 DEF SaveWrites, TypeOK, SessionType
<1>19. CASE SaveFails
  <2>1. statefile' \in Seq(Entries)
    BY <1>19, CutShortType DEF SaveFails, TypeOK, SessionType
  <2> QED
    BY <1>15, <1>19, <2>1 DEF SaveFails
<1>20. ASSUME NEW place \in Idle, Reload(place) \/ RejectReload(place)
       PROVE  TypeOK'
  BY <1>20 DEF Reload, RejectReload, TypeOK, PCs, Idle
<1>21. CASE DeferredReload
  BY <1>20, <1>21 DEF DeferredReload, Idle
<1>22. CASE HangUp
  BY <1>20, <1>22 DEF HangUp, Idle
<1>23. CASE Setup
  <2>1. session' \in SessionType
    BY <1>23, LoadedType, NewSessionType DEF Setup, TypeOK, SessionType
  <2> QED
    BY <1>23, <2>1 DEF Setup, TypeOK, ControlOK, PCs, Idle
<1>24. CASE Shutdown
  BY <1>24 DEF Shutdown, TypeOK, PCs
<1>25. CASE Exit
  BY <1>25, EndProcessType DEF Exit, Gone, TypeOK
<1>26. CASE Terminate
  BY <1>26 DEF Terminate, TypeOK, PCs, Idle
<1>27. CASE HangUpDuringCheck
  BY <1>27 DEF HangUpDuringCheck, TypeOK
<1>28. CASE Kill
  BY <1>28, EndProcessType DEF Kill, Gone, TypeOK
<1>29. CASE KillInSave
  <2>1. statefile' \in Seq(Entries)
    BY <1>29, CutShortType DEF KillInSave, TypeOK, SessionType
  <2> QED
    BY <1>29, <2>1, EndProcessType DEF KillInSave, Gone
<1>30. ASSUME NEW f \in Feeds, Publish(f) PROVE TypeOK'
  <2>1. \A g \in Feeds : Len(Stream[g]) \in Nat
    BY FeedsAssumption, LenProperties
  <2> QED
    BY <1>30, <2>1 DEF Publish, TypeOK
<1>31. CASE UNCHANGED vars
  BY <1>31 DEF vars, TypeOK
<1> QED
  BY <1>1, <1>2, <1>3, <1>4, <1>5, <1>6, <1>7, <1>8, <1>9, <1>10, <1>11,
     <1>12, <1>13, <1>14, <1>16, <1>17, <1>18, <1>19, <1>21, <1>22, <1>23,
     <1>24, <1>25, <1>26, <1>27, <1>28, <1>29, <1>30, <1>31
     DEF Next, ProcessStep, Signal

-----------------------------------------------------------------------------
(***************************************************************************)
(* The other parts of the inductive invariant, one lemma each.             *)
(***************************************************************************)
\* Wherever a loop of the check uses its locals, they hold something.
LEMMA ControlStep == TypeOK /\ ControlOK /\ [Next]_vars => ControlOK'
<1> SUFFICES ASSUME TypeOK, ControlOK, [Next]_vars PROVE ControlOK'
  OBVIOUS
<1> USE DEF mainVars, flagVars, tmVars, ControlOK, InFeed, InItem, AtAnswer,
            Saving, Idle, Gone, ReadsFile
<1>1. CASE Start
  BY <1>1 DEF Start
<1>2. CASE BeginCheck \/ LeaveLoop
  BY <1>2 DEF BeginCheck, LeaveLoop
<1>3. CASE EndFeed \/ FetchFails
  BY <1>3 DEF EndFeed, FetchFails
<1>4. CASE EndCheck
  BY <1>4 DEF EndCheck
<1>5. CASE GoToSleep \/ WakeUp
  BY <1>5 DEF GoToSleep, WakeUp
<1>6. ASSUME NEW f \in Feeds, Fetch(f) PROVE ControlOK'
  BY <1>6 DEF Fetch
<1>7. CASE SkipItem \/ ReportFailure \/ ReportSuccess \/ Record
  BY <1>7 DEF SkipItem, ReportFailure, ReportSuccess, Record
<1>8. ASSUME NEW place \in Gone, EndProcess(place) PROVE ControlOK'
  BY <1>8 DEF EndProcess, NoArgs
<1>9. ASSUME NEW item \in Items, HandOver(item) PROVE ControlOK'
  <2>1. CASE EmptyTorrentAborts(item)
    BY <1>8, <2>1 DEF EmptyTorrentAborts
  <2>2. CASE ~EmptyTorrentAborts(item)
    <3>1. /\ pc = "items" /\ items # <<>> /\ pc' = "result"
          /\ UNCHANGED <<argv, first_run, current, items, resume>>
      BY <1>9, <2>2 DEF HandOver, HandOverFails, HandOverAdded, LimitSpeed,
         HandOverDuplicate, HandOverReplyLost, HandOverFile,
         HandOverMagnetNowhere, AtItem, Answer
    <3> QED
      BY <3>1
  <2> QED
    BY <2>1, <2>2
<1>10. CASE SaveCannotOpen \/ SaveWrites \/ SaveFails
  <2>1. pc \in {"save", "write"} /\ SaveReturns
    BY <1>10 DEF SaveCannotOpen, SaveWrites, SaveFails
  <2>2. UNCHANGED <<argv, first_run, current>>
    BY <2>1 DEF SaveReturns
  <2>3. CASE resume = "items"
    BY <2>1, <2>2, <2>3 DEF SaveReturns
  <2>4. CASE resume = "exit"
    BY <2>1, <2>2, <2>4 DEF SaveReturns
  <2>5. CASE resume \in Idle
    BY <2>1, <2>2, <2>5 DEF SaveReturns
  <2> QED
    BY <2>3, <2>4, <2>5 DEF TypeOK
<1>11. CASE SaveOpens
  BY <1>11 DEF SaveOpens
<1>12. CASE DeferredReload
  <2>1. pc = "checked" /\ ~first_run /\ UNCHANGED <<argv, first_run>>
    BY <1>12 DEF DeferredReload, Reload, RejectReload
  <2>2. CASE Reload("sleep")
    BY <2>1, <2>2 DEF Reload
  <2>3. CASE RejectReload("sleep")
    BY <2>1, <2>3 DEF RejectReload
  <2> QED
    BY <1>12, <2>2, <2>3 DEF DeferredReload
<1>13. CASE HangUp
  BY <1>13 DEF HangUp, Reload, RejectReload
<1>14. CASE Setup
  BY <1>14 DEF Setup
<1>15. CASE Shutdown
  BY <1>15 DEF Shutdown
<1>16. CASE Exit \/ Kill \/ KillInSave
  BY <1>8, <1>16 DEF Exit, Kill, KillInSave
<1>17. CASE Terminate
  BY <1>17 DEF Terminate
<1>18. CASE HangUpDuringCheck
  BY <1>18 DEF HangUpDuringCheck
<1>19. ASSUME NEW f \in Feeds, Publish(f) PROVE ControlOK'
  BY <1>19 DEF Publish
<1>20. CASE UNCHANGED vars
  BY <1>20 DEF vars
<1> QED
  BY <1>1, <1>2, <1>3, <1>4, <1>5, <1>6, <1>7, <1>9, <1>10, <1>11, <1>12,
     <1>13, <1>14, <1>15, <1>16, <1>17, <1>18, <1>19, <1>20
     DEF Next, ProcessStep, Signal

\* What is left of a check of n + 1 feeds after one more document.
LEMMA OneFeedLess ==
    ASSUME NEW n \in Nat \ {0}
    PROVE  /\ Window * n \in Nat
           /\ Window * (n - 1) \in Nat
           /\ Window * n = Window * (n - 1) + Window
BY LimitFacts

\* The history is enlarged once per feed, in the first check only.
LEMMA RoomStep ==
    TypeOK /\ ControlOK /\ Room /\ [Next]_vars => Room'
<1> SUFFICES ASSUME TypeOK, ControlOK, Room, [Next]_vars PROVE Room'
  OBVIOUS
<1> USE DEF mainVars, flagVars, tmVars
<1>a. /\ Window \in Nat /\ MaxFeeds \in Nat /\ HistoryLimit \in Nat
      /\ DefaultMaxBucket \in 1..HistoryLimit
      /\ HistoryLimit = DefaultMaxBucket + Window * MaxFeeds
  BY LimitFacts DEF HistoryLimit
<1>b. /\ session \in SessionType /\ Len(current) \in Nat
      /\ session.max_bucket_items \in Nat
  BY DEF TypeOK, SessionType
<1>1. ASSUME NEW feeds \in Configs, NEW bucket, NEW match_only,
             session' = NewSession(feeds, bucket, match_only),
             pc' \notin {"feeds"} \cup {"items"} \cup {"result", "record"}
               \cup {"save", "write"},
             UNCHANGED current
      PROVE  Room'
  BY <1>1, <1>a, FeedsAssumption
     DEF Room, NewSession, InFeed, InItem, AtAnswer, Saving
<1>2. CASE Start
  BY <1>1, <1>2 DEF Start
<1>3. CASE Setup
  BY <1>1, <1>3 DEF Setup, ControlOK, Idle
<1>4. ASSUME UNCHANGED <<session, current>>, first_run' => first_run,
             InFeed' => InFeed,
             pc' # "feeds" \/ pc = "feeds",
             (pc \in {"main", "setup"} \/ Saving(Idle))'
               => pc \in {"main", "setup"} \/ Saving(Idle) \/ ~first_run
      PROVE  Room'
  BY <1>4 DEF Room
<1>5. CASE LeaveLoop \/ GoToSleep \/ WakeUp
  BY <1>4, <1>5 DEF LeaveLoop, GoToSleep, WakeUp, ControlOK, InFeed, InItem,
     AtAnswer, Saving
<1>6. CASE BeginCheck
  <2>1. Len(current') <= MaxFeeds /\ Len(current') \in Nat
    <3>1. CASE ReadsFile
      BY <1>6, <3>1, FeedsAssumption DEF BeginCheck
    <3>2. CASE ~ReadsFile
      BY <1>6, <3>2 DEF BeginCheck, Room, TypeOK, SessionType
    <3> QED
      BY <3>1, <3>2
  <2>2. Window * Len(current') <= Window * MaxFeeds
    BY <2>1, <1>a
  <2> QED
    BY <1>6, <2>1, <2>2, <1>a DEF BeginCheck, Room, InFeed, InItem, AtAnswer,
       Saving
<1>7. CASE FetchFails
  <2>1. Len(current) \in Nat \ {0} /\ Len(current') = Len(current) - 1
    BY <1>7 DEF FetchFails, TypeOK
  <2>2. Window * Len(current') <= Window * Len(current)
    BY <2>1, <1>a, OneFeedLess
  <2> QED
    BY <1>7, <2>1, <2>2, <1>a, <1>b, OneFeedLess
       DEF FetchFails, Room, InFeed, InItem, AtAnswer, Saving
<1>8. ASSUME NEW f \in Feeds, Fetch(f) PROVE Room'
  <2>1. /\ Len(Listed(f)) \in Nat /\ Len(Listed(f)) <= Window
        /\ Len(current) \in Nat \ {0}
    BY <1>8, ListedType, LenProperties DEF Fetch, TypeOK
  <2>2. /\ pc = "feeds" /\ pc' = "items"
        /\ UNCHANGED <<first_run, current, resume>>
        /\ session'.feeds = session.feeds
    BY <1>8, <1>b DEF Fetch, SessionType
  <2>3. CASE first_run
    <3> DEFINE total == session.max_bucket_items + Len(Listed(f))
    <3>1. total + Window * (Len(current) - 1) <= HistoryLimit
      BY <2>1, <2>2, <2>3, <1>a, <1>b, OneFeedLess DEF Room
    <3>2. total \in 1..HistoryLimit
      BY <2>1, <3>1, <1>a, <1>b, OneFeedLess DEF Room
    <3>3. total % Uint16 = total
      BY <3>2, LimitFacts
    <3>4. session'.max_bucket_items = total
      BY <1>8, <2>3, <3>3, <1>b DEF Fetch, SessionType
    <3> QED
      BY <2>2, <3>1, <3>2, <3>4 DEF Room, InFeed, InItem, AtAnswer, Saving
  <2>4. CASE ~first_run
    <3>1. ~ReadsFile
      BY <2>2, <2>4 DEF ControlOK, Gone
    <3> QED
      BY <1>8, <2>2, <2>4, <3>1 DEF Fetch, Room
  <2> QED
    BY <2>3, <2>4
<1>9. CASE EndFeed
  <2>1. Len(current) \in Nat \ {0} /\ Len(current') = Len(current) - 1
    BY <1>9 DEF EndFeed, TypeOK, ControlOK, InFeed
  <2> QED
    BY <1>9, <2>1, <1>a, <1>b DEF EndFeed, Room, InFeed, InItem, AtAnswer,
       Saving
<1>10. CASE EndCheck
  BY <1>4, <1>10 DEF EndCheck, InFeed, InItem, AtAnswer, Saving, TypeOK
<1>11. CASE SkipItem \/ ReportFailure \/ ReportSuccess
  BY <1>4, <1>11 DEF SkipItem, ReportFailure, ReportSuccess, InFeed, InItem,
     AtAnswer, Saving
<1>12. CASE Record
  <2>1. /\ session'.max_bucket_items = session.max_bucket_items
        /\ session'.feeds = session.feeds
    BY <1>12, <1>b DEF Record, SessionType
  <2> QED
    BY <1>12, <2>1 DEF Record, Room, InFeed, InItem, AtAnswer, Saving, Idle
<1>13. ASSUME NEW place \in Gone, EndProcess(place) PROVE Room'
  <2>1. /\ session'.max_bucket_items = DefaultMaxBucket
        /\ session'.feeds = <<>> /\ current' = <<>> /\ first_run' = FALSE
    BY <1>13 DEF EndProcess, NoSession, NewSession
  <2> QED
    BY <2>1, <1>a DEF Room
<1>14. ASSUME NEW item \in Items, HandOver(item) PROVE Room'
  <2>1. CASE EmptyTorrentAborts(item)
    BY <1>13, <2>1 DEF EmptyTorrentAborts, Gone
  <2>2. CASE ~EmptyTorrentAborts(item)
    <3>1. /\ pc = "items" /\ pc' = "result"
          /\ UNCHANGED <<session, first_run, current, resume>>
      BY <1>14, <2>2 DEF HandOver, HandOverFails, HandOverAdded, LimitSpeed,
         HandOverDuplicate, HandOverReplyLost, HandOverFile,
         HandOverMagnetNowhere, AtItem, Answer
    <3> QED
      BY <1>4, <3>1 DEF InFeed, InItem, AtAnswer, Saving
  <2> QED
    BY <2>1, <2>2
<1>15. CASE SaveCannotOpen \/ SaveWrites \/ SaveFails
  <2>1. pc \in {"save", "write"} /\ SaveReturns
    BY <1>15 DEF SaveCannotOpen, SaveWrites, SaveFails
  <2>2. UNCHANGED <<session, first_run, current>>
    BY <2>1 DEF SaveReturns
  <2>3. CASE resume = "items"
    BY <1>4, <2>1, <2>2, <2>3 DEF SaveReturns, InFeed, InItem, AtAnswer,
       Saving, Idle
  <2>4. CASE resume = "exit"
    BY <1>4, <2>1, <2>2, <2>4 DEF SaveReturns, InFeed, InItem, AtAnswer,
       Saving, Idle
  <2>5. CASE resume \in Idle
    BY <1>4, <2>1, <2>2, <2>5 DEF SaveReturns, InFeed, InItem, AtAnswer,
       Saving, Idle
  <2> QED
    BY <2>3, <2>4, <2>5 DEF TypeOK
<1>16. CASE SaveOpens
  BY <1>4, <1>16 DEF SaveOpens, InFeed, InItem, AtAnswer, Saving
<1>17. ASSUME NEW place \in Idle, Reload(place) \/ RejectReload(place),
              pc \in Idle, place = "main" => pc = "main" \/ ~first_run
       PROVE  Room'
  BY <1>4, <1>17 DEF Reload, RejectReload, InFeed, InItem, AtAnswer, Saving,
     Idle, ControlOK
<1>18. CASE DeferredReload
  BY <1>17, <1>18 DEF DeferredReload, Idle
<1>19. CASE HangUp
  BY <1>17, <1>19 DEF HangUp, Idle, ControlOK
<1>20. CASE Shutdown
  BY <1>4, <1>20 DEF Shutdown, InFeed, InItem, AtAnswer, Saving, Idle
<1>21. CASE Exit \/ Kill \/ KillInSave
  BY <1>13, <1>21 DEF Exit, Kill, KillInSave, Gone
<1>22. CASE Terminate
  BY <1>4, <1>22 DEF Terminate, InFeed, InItem, AtAnswer, Saving, ControlOK
<1>23. CASE HangUpDuringCheck
  BY <1>4, <1>23 DEF HangUpDuringCheck, InFeed, InItem, AtAnswer, Saving
<1>24. ASSUME NEW f \in Feeds, Publish(f) PROVE Room'
  BY <1>4, <1>24 DEF Publish, InFeed, InItem, AtAnswer, Saving
<1>25. CASE UNCHANGED vars
  BY <1>4, <1>25 DEF vars, InFeed, InItem, AtAnswer, Saving
<1> QED
  BY <1>2, <1>3, <1>5, <1>6, <1>7, <1>8, <1>9, <1>10, <1>11, <1>12, <1>14,
     <1>15, <1>16, <1>18, <1>19, <1>20, <1>21, <1>22, <1>23, <1>24, <1>25
     DEF Next, ProcessStep, Signal

\* The lists of entries change only when an item is recorded, the history is
\* saved, or a session starts or ends.
ListsChange ==
    \/ /\ UNCHANGED statefile
       /\ session'.downloads \in {session.downloads, statefile, <<>>}
    \/ Record
    \/ /\ statefile' \in CutShort(session.downloads)
                           \cup {<<>>, session.downloads}
       /\ session'.downloads \in {session.downloads, <<>>}

\* Only Record, the saves, the loads and the end of a process touch the lists.
LEMMA ListsStep == TypeOK /\ [Next]_vars => ListsChange
<1> SUFFICES ASSUME TypeOK, [Next]_vars PROVE ListsChange
  OBVIOUS
<1> USE DEF mainVars, flagVars, tmVars, ListsChange
<1>1. CASE Start \/ Setup
  <2>1. /\ UNCHANGED statefile
        /\ \E feeds \in Configs, bucket \in Loaded : \E match_only :
              session' = NewSession(feeds, bucket, match_only)
    BY <1>1 DEF Start, Setup
  <2> QED
    BY <2>1 DEF Loaded, NewSession
<1>2. ASSUME NEW place, EndProcess(place) PROVE session'.downloads = <<>>
  BY <1>2 DEF EndProcess, NoSession, NewSession
<1>3. CASE Exit \/ Kill \/ KillInSave
  BY <1>2, <1>3 DEF Exit, Kill, KillInSave
<1>4. CASE SaveCannotOpen \/ SaveOpens \/ SaveWrites \/ SaveFails
  BY <1>4 DEF SaveCannotOpen, SaveOpens, SaveWrites, SaveFails, SaveReturns
<1>5. ASSUME NEW f \in Feeds, Fetch(f) PROVE ListsChange
  BY <1>5 DEF Fetch, TypeOK, SessionType
<1>6. ASSUME NEW item \in Items, HandOver(item) PROVE ListsChange
  <2>1. CASE EmptyTorrentAborts(item)
    BY <1>2, <2>1 DEF EmptyTorrentAborts
  <2>2. CASE ~EmptyTorrentAborts(item)
    BY <1>6, <2>2 DEF HandOver, HandOverFails, HandOverAdded, LimitSpeed,
       HandOverDuplicate, HandOverReplyLost, HandOverFile,
       HandOverMagnetNowhere, Answer
  <2> QED
    BY <2>1, <2>2
<1>7. CASE BeginCheck \/ LeaveLoop \/ EndFeed \/ EndCheck \/ GoToSleep
             \/ WakeUp \/ FetchFails
  BY <1>7 DEF BeginCheck, LeaveLoop, EndFeed, EndCheck, GoToSleep, WakeUp,
     FetchFails
<1>8. CASE SkipItem \/ ReportFailure \/ ReportSuccess \/ Shutdown
  BY <1>8 DEF SkipItem, ReportFailure, ReportSuccess, Shutdown
<1>9. CASE DeferredReload \/ HangUp \/ Terminate \/ HangUpDuringCheck
  BY <1>9 DEF DeferredReload, HangUp, Reload, RejectReload, Terminate,
     HangUpDuringCheck
<1>10. ASSUME NEW f \in Feeds, Publish(f) PROVE ListsChange
  BY <1>10 DEF Publish
<1>11. CASE UNCHANGED vars
  BY <1>11 DEF vars
<1> QED
  BY <1>1, <1>3, <1>4, <1>5, <1>6, <1>7, <1>8, <1>9, <1>10, <1>11
     DEF Next, ProcessStep, Signal

\* What Record does to the lists.
LEMMA RecordLists ==
    ASSUME TypeOK, ControlOK, Room, Record
    PROVE  /\ UNCHANGED statefile
           /\ Head(items) \in Items
           /\ session.downloads \in Seq(Entries)
           /\ session'.downloads =
                addToBucket(BucketId(Head(items)), session.downloads,
                            session.max_bucket_items)
           /\ session'.downloads \in Seq(Entries)
           /\ \/ Len(session'.downloads) <= session.max_bucket_items
              \/ Len(session'.downloads) = Len(session.downloads)
           /\ Len(session'.downloads) \in
                {Len(session.downloads), Len(session.downloads) + 1}
           /\ \A k \in 1..Len(session'.downloads) :
                 session'.downloads[k] =
                   IF k = 1 THEN BucketId(Head(items))
                            ELSE session.downloads[k - 1]
<1> DEFINE new == addToBucket(BucketId(Head(items)), session.downloads,
                              session.max_bucket_items)
<1>1. Head(items) \in Items /\ BucketId(Head(items)) \in Entries
  BY IdsAreEntries DEF Record, TypeOK, ControlOK, InItem, AtAnswer
<1>2. /\ session.downloads \in Seq(Entries)
      /\ session.max_bucket_items \in Nat /\ session.max_bucket_items > 0
  BY LimitFacts DEF TypeOK, SessionType, Room
<1>3. session'.downloads = new /\ UNCHANGED statefile
  BY DEF Record, TypeOK, SessionType
<1>4. /\ new \in Seq(Entries)
      /\ Len(new) <= session.max_bucket_items
           \/ Len(new) = Len(session.downloads)
      /\ Len(new) \in {Len(session.downloads), Len(session.downloads) + 1}
      /\ \A k \in 1..Len(new) :
            new[k] = IF k = 1 THEN BucketId(Head(items))
                              ELSE session.downloads[k - 1]
  BY <1>1, <1>2, AddToBucketType
<1> HIDE DEF new
<1>5. /\ session'.downloads \in Seq(Entries)
      /\ \/ Len(session'.downloads) <= session.max_bucket_items
         \/ Len(session'.downloads) = Len(session.downloads)
      /\ Len(session'.downloads) \in
           {Len(session.downloads), Len(session.downloads) + 1}
      /\ \A k \in 1..Len(session'.downloads) :
            session'.downloads[k] =
              IF k = 1 THEN BucketId(Head(items))
                       ELSE session.downloads[k - 1]
  BY <1>3, <1>4
<1> QED
  BY <1>1, <1>2, <1>3, <1>5 DEF new

\* addToBucket, load_state and save_state keep the history within its limit.
LEMMA BoundedStep ==
    TypeOK /\ ControlOK /\ Room /\ HistoryBounded /\ [Next]_vars
      => HistoryBounded'
<1> SUFFICES ASSUME TypeOK, ControlOK, Room, HistoryBounded, [Next]_vars
             PROVE  HistoryBounded'
  OBVIOUS
<1>1. /\ HistoryLimit \in Nat /\ session'.max_bucket_items <= HistoryLimit
      /\ session.downloads \in Seq(Entries) /\ Len(statefile) \in Nat
      /\ Len(session.downloads) \in Nat
      /\ Len(<<>>) = 0
  BY RoomStep, LimitFacts, LenProperties DEF Room, TypeOK, SessionType
<1>2. CASE /\ UNCHANGED statefile
           /\ session'.downloads \in {session.downloads, statefile, <<>>}
  BY <1>1, <1>2 DEF HistoryBounded
<1>3. CASE Record
  BY <1>1, <1>3, RecordLists DEF HistoryBounded, Room
<1>4. CASE /\ statefile' \in CutShort(session.downloads)
                               \cup {<<>>, session.downloads}
           /\ session'.downloads \in {session.downloads, <<>>}
  <2>1. statefile' \in Seq(Entries)
    BY TypeStep DEF TypeOK
  <2>2. Len(statefile') <= Len(session.downloads) /\ Len(statefile') \in Nat
    BY <1>1, <1>4, <2>1, CutShortType, LenProperties
  <2> QED
    BY <1>1, <1>4, <2>2 DEF HistoryBounded
<1> QED
  BY <1>2, <1>3, <1>4, ListsStep DEF ListsChange

\* No step takes a torrent from Transmission.
LEMMA TorrentsStep == [Next]_vars => torrents \subseteq torrents'
BY DEF Next, ProcessStep, Signal, Start, BeginCheck, LeaveLoop, EndFeed,
   EndCheck, GoToSleep, WakeUp, FetchFails, Fetch, SkipItem, HandOver,
   HandOverFails, HandOverAdded, LimitSpeed, HandOverDuplicate,
   HandOverReplyLost,
   HandOverFile, HandOverMagnetNowhere, EmptyTorrentAborts, Answer,
   ReportFailure, ReportSuccess, Record, SaveCannotOpen, SaveOpens,
   SaveWrites, SaveFails, SaveReturns, DeferredReload, Setup, Shutdown, Exit,
   Terminate, HangUpDuringCheck, HangUp, Reload, RejectReload, Kill,
   KillInSave, Publish, vars, tmVars

\* Between the answer for an item and its record nothing intervenes.
LEMMA AnswerStep ==
    TypeOK /\ ControlOK /\ AnswerOK /\ [Next]_vars => AnswerOK'
<1> SUFFICES ASSUME TypeOK, ControlOK, AnswerOK, [Next]_vars PROVE AnswerOK'
  OBVIOUS
<1> USE DEF mainVars, flagVars, tmVars
<1>1. ASSUME pc' \notin {"result", "record"}, UNCHANGED <<torrents, notified>>
      PROVE  AnswerOK'
  BY <1>1 DEF AnswerOK, AtAnswer, NotifiedOnce
<1>2. ASSUME UNCHANGED <<pc, session, items, result, torrents, notified>>
      PROVE  AnswerOK'
  BY <1>2 DEF AnswerOK, AtAnswer, NotifiedOnce
<1>3. CASE Start \/ Setup
  BY <1>1, <1>3 DEF Start, Setup, ControlOK, Idle
<1>4. CASE BeginCheck \/ LeaveLoop \/ EndFeed \/ EndCheck \/ GoToSleep
             \/ WakeUp \/ FetchFails
  BY <1>1, <1>4 DEF BeginCheck, LeaveLoop, EndFeed, EndCheck, GoToSleep,
     WakeUp, FetchFails
<1>5. ASSUME NEW f \in Feeds, Fetch(f) PROVE AnswerOK'
  BY <1>1, <1>5 DEF Fetch
<1>6. CASE SkipItem \/ ReportFailure \/ Record \/ Shutdown
  BY <1>1, <1>6 DEF SkipItem, ReportFailure, Record, Shutdown
<1>7. CASE ReportSuccess
  <2>1. /\ pc = "result" /\ result >= 0 /\ pc' = "record"
        /\ UNCHANGED <<session, items, torrents>>
        /\ notified' = IF result > 0 THEN notified \cup {Head(items).url}
                                     ELSE notified
    BY <1>7 DEF ReportSuccess
  <2> QED
    BY <2>1 DEF AnswerOK, AtAnswer, NotifiedOnce
<1>8. ASSUME NEW item \in Items, HandOver(item) PROVE AnswerOK'
  <2>1. CASE EmptyTorrentAborts(item)
    BY <1>1, <2>1 DEF EmptyTorrentAborts, EndProcess
  <2>2. CASE ~EmptyTorrentAborts(item)
    <3>1. /\ item = Head(items) /\ Due(item) /\ pc' = "result"
          /\ UNCHANGED <<session, items, notified>>
      BY <1>8, <2>2 DEF HandOver, HandOverFails, HandOverAdded, LimitSpeed,
         HandOverDuplicate, HandOverReplyLost, HandOverFile,
         HandOverMagnetNowhere, AtItem, Answer
    <3>2. ~has_been_downloaded(session'.downloads, Head(items'))
      BY <3>1 DEF Due
    <3>3. ASSUME UsesRPC
          PROVE  /\ notified' \subseteq torrents'
                 /\ result' >= 0 => item.url \in torrents'
                 /\ result' > 0 => item.url \notin notified'
      <4>1. CASE HandOverFails(item)
        BY <3>1, <3>3, <4>1 DEF HandOverFails, Answer, AnswerOK
      <4>2. CASE HandOverAdded(item)
        BY <3>1, <3>3, <4>2 DEF HandOverAdded, LimitSpeed, Answer, AnswerOK
      <4>3. CASE HandOverDuplicate(item)
        BY <3>1, <3>3, <4>3 DEF HandOverDuplicate, Answer, AnswerOK
      <4>4. CASE HandOverReplyLost(item)
        BY <3>1, <3>3, <4>4 DEF HandOverReplyLost, Answer, AnswerOK
      <4>5. CASE HandOverFile(item)
        BY <3>3, <4>5 DEF HandOverFile
      <4>6. CASE HandOverMagnetNowhere(item)
        BY <3>3, <4>6 DEF HandOverMagnetNowhere, UsesRPC
      <4> QED
        BY <1>8, <2>2, <4>1, <4>2, <4>3, <4>4, <4>5, <4>6 DEF HandOver
    <3> QED
      BY <3>1, <3>2, <3>3 DEF AnswerOK, AtAnswer, NotifiedOnce, UsesRPC
  <2> QED
    BY <2>1, <2>2
<1>9. CASE SaveCannotOpen \/ SaveWrites \/ SaveFails
  <2>1. SaveReturns
    BY <1>9 DEF SaveCannotOpen, SaveWrites, SaveFails
  <2>2. resume \in {"main", "checked", "sleep", "items", "exit"}
    BY DEF TypeOK, Idle
  <2>3. pc' \notin {"result", "record"} /\ UNCHANGED <<torrents, notified>>
    BY <2>1, <2>2 DEF SaveReturns
  <2> QED
    BY <1>1, <2>3
<1>10. CASE SaveOpens
  BY <1>1, <1>10 DEF SaveOpens
<1>11. CASE DeferredReload \/ HangUp
  BY <1>1, <1>11 DEF DeferredReload, HangUp, Reload, RejectReload, Idle
<1>12. CASE Exit \/ Kill \/ KillInSave
  BY <1>1, <1>12 DEF Exit, Kill, KillInSave, EndProcess
<1>13. CASE Terminate
  BY <1>1, <1>2, <1>13 DEF Terminate
<1>14. CASE HangUpDuringCheck
  BY <1>2, <1>14 DEF HangUpDuringCheck
<1>15. ASSUME NEW f \in Feeds, Publish(f) PROVE AnswerOK'
  BY <1>2, <1>15 DEF Publish
<1>16. CASE UNCHANGED vars
  BY <1>2, <1>16 DEF vars
<1> QED
  BY <1>3, <1>4, <1>5, <1>6, <1>7, <1>8, <1>9, <1>10, <1>11, <1>12, <1>13,
     <1>14, <1>15, <1>16 DEF Next, ProcessStep, Signal

\* Every new entry is that of an item with an answer.
LEMMA TruthfulStep ==
    TypeOK /\ ControlOK /\ Room /\ AnswerOK /\ HistoryIsTruthful /\ [Next]_vars
      => HistoryIsTruthful'
<1> SUFFICES ASSUME TypeOK, ControlOK, Room, AnswerOK, HistoryIsTruthful,
                    [Next]_vars, UsesRPC
             PROVE  \A id \in Elements(session'.downloads)
                                \cup Elements(statefile') :
                       id = Torn \/ Held(id)'
  BY DEF HistoryIsTruthful, UsesRPC, Elements
<1>1. \A id : Held(id) => Held(id)'
  BY TorrentsStep DEF Held
<1>2. ASSUME NEW id \in Elements(session.downloads) \cup Elements(statefile)
      PROVE  id = Torn \/ Held(id)'
  BY <1>1, <1>2 DEF HistoryIsTruthful
<1>3. Elements(<<>>) = {}
  BY DEF Elements
<1>4. session.downloads \in Seq(Entries)
  BY DEF TypeOK, SessionType
<1>5. CASE /\ UNCHANGED statefile
           /\ session'.downloads \in {session.downloads, statefile, <<>>}
  BY <1>2, <1>3, <1>5
<1>6. CASE Record
  <2>1. \A id : id = BucketId(Head(items)) => Held(id)'
    BY <1>1, <1>6, RecordLists DEF Record, AnswerOK, Held
  <2>2. Elements(session'.downloads) \subseteq
          {BucketId(Head(items))} \cup Elements(session.downloads)
    BY <1>4, <1>6, RecordLists, LenProperties DEF Elements
  <2>3. UNCHANGED statefile
    BY <1>6 DEF Record
  <2> QED
    BY <1>2, <2>1, <2>2, <2>3
<1>7. CASE /\ statefile' \in CutShort(session.downloads)
                               \cup {<<>>, session.downloads}
           /\ session'.downloads \in {session.downloads, <<>>}
  <2>1. CASE statefile' \in CutShort(session.downloads)
    <3>1. Elements(statefile')
             \subseteq Elements(session.downloads) \cup {Torn}
      BY <1>4, <2>1, CutShortType, LenProperties DEF Elements
    <3> QED
      BY <1>2, <1>3, <1>7, <3>1
  <2>2. CASE statefile' \in {<<>>, session.downloads}
    BY <1>2, <1>3, <1>7, <2>2
  <2> QED
    BY <1>7, <2>1, <2>2
<1> QED
  BY <1>5, <1>6, <1>7, ListsStep DEF ListsChange

\* An item that is recorded is new to the history.
LEMMA NotDownloaded ==
    ASSUME NEW item \in Items, NEW bucket \in Seq(Entries),
           ~has_been_downloaded(bucket, item)
    PROVE  \A k \in 1..Len(bucket) : bucket[k] # BucketId(item)
BY ItemsAssumption DEF has_been_downloaded, bucket_hasGUID, BucketId

\* No step writes an id twice, or puts anything behind a torn line.
LEMMA HistoriesStep ==
    TypeOK /\ ControlOK /\ Room /\ AnswerOK /\ HistoriesOK /\ [Next]_vars
      => HistoriesOK'
<1> SUFFICES ASSUME TypeOK, ControlOK, Room, AnswerOK, HistoriesOK,
                    [Next]_vars
             PROVE  IsHistory(session'.downloads) /\ IsHistory(statefile')
  BY DEF HistoriesOK, IsHistory
<1>1. IsHistory(session.downloads) /\ IsHistory(statefile) /\ IsHistory(<<>>)
  BY DEF HistoriesOK, IsHistory
<1>2. session.downloads \in Seq(Entries)
  BY DEF TypeOK, SessionType
<1>3. CASE /\ UNCHANGED statefile
           /\ session'.downloads \in {session.downloads, statefile, <<>>}
  BY <1>1, <1>3
<1>4. CASE Record
  <2> DEFINE id  == BucketId(Head(items))
             old == session.downloads
             new == session'.downloads
  <2>1. /\ Len(new) \in {Len(old), Len(old) + 1} /\ Len(old) \in Nat
        /\ \A k \in 1..Len(new) : new[k] = IF k = 1 THEN id ELSE old[k - 1]
        /\ UNCHANGED statefile
    BY <1>2, <1>4, RecordLists, LenProperties
  <2>2. id # Torn /\ \A k \in 1..Len(old) : old[k] # id
    BY <1>2, <1>4, RecordLists, NotDownloaded, IdsAreEntries
       DEF Record, AnswerOK, AtAnswer
  <2>3. /\ \A j, k \in 1..Len(old) : old[j] = old[k] => j = k
        /\ \A k \in 1..Len(old) : old[k] = Torn => k = Len(old)
    BY <1>1 DEF IsHistory
  <2> HIDE DEF id, old, new
  <2>4. ASSUME NEW j \in 1..Len(new), NEW k \in 1..Len(new), new[j] = new[k]
        PROVE  j = k
    <3>1. CASE j = 1 /\ k # 1
      BY <2>1, <2>2, <2>4, <3>1
    <3>2. CASE j # 1 /\ k = 1
      BY <2>1, <2>2, <2>4, <3>2
    <3>3. CASE j # 1 /\ k # 1
      BY <2>1, <2>3, <2>4, <3>3
    <3> QED
      BY <3>1, <3>2, <3>3
  <2>5. ASSUME NEW k \in 1..Len(new), new[k] = Torn
        PROVE  k = Len(new)
    BY <2>1, <2>2, <2>3, <2>5
  <2> QED
    BY <1>1, <2>1, <2>4, <2>5 DEF IsHistory, new
<1>5. CASE /\ statefile' \in CutShort(session.downloads)
                               \cup {<<>>, session.downloads}
           /\ session'.downloads \in {session.downloads, <<>>}
  <2>1. CASE statefile' \in CutShort(session.downloads)
    <3>1. /\ Len(statefile') <= Len(session.downloads)
          /\ Len(statefile') \in Nat /\ Len(session.downloads) \in Nat
          /\ \A k \in 1..Len(statefile') :
                \/ statefile'[k] = session.downloads[k]
                \/ statefile'[k] = Torn /\ k = Len(statefile')
      BY <1>2, <2>1, CutShortType, LenProperties
    <3>2. IsHistory(statefile')
      BY <1>1, <3>1, SMTT(30) DEF IsHistory
    <3> QED
      BY <1>1, <1>5, <3>2
  <2>2. CASE statefile' \in {<<>>, session.downloads}
    BY <1>1, <1>5, <2>2
  <2> QED
    BY <1>5, <2>1, <2>2
<1> QED
  BY <1>3, <1>4, <1>5, ListsStep DEF ListsChange

\* When saving and loading work, the disk is behind only while a save is due.
LEMMA SaveStep ==
    TypeOK /\ ControlOK /\ AnswerOK /\ SaveOK /\ [Next]_vars => SaveOK'
<1> SUFFICES ASSUME TypeOK, ControlOK, AnswerOK, SaveOK, [Next]_vars,
                    Faults \cap SaveFaults = {}
             PROVE  SaveOK'
  BY DEF SaveOK
<1> USE DEF mainVars, flagVars, tmVars
<1>a. /\ "torn" \notin Faults /\ "open" \notin Faults
      /\ "write" \notin Faults /\ "load" \notin Faults
  BY DEF SaveFaults
<1>1. ASSUME pc \notin Gone \cup {"save", "write"},
             pc' = "save" => resume' # "items",
             UNCHANGED statefile, session'.downloads = session.downloads
      PROVE  SaveOK'
  BY <1>1 DEF SaveOK
<1>2. ASSUME UNCHANGED <<pc, session, items, resume, statefile>>
      PROVE  SaveOK'
  BY <1>2 DEF SaveOK
<1>3. CASE Start \/ Setup
  <2>1. /\ UNCHANGED statefile /\ pc' \in Idle
        /\ \E feeds \in Configs, bucket \in Loaded : \E match_only :
              session' = NewSession(feeds, bucket, match_only)
    BY <1>3 DEF Start, Setup, ControlOK, Idle
  <2>2. session'.downloads = statefile
    BY <2>1, <1>a DEF Loaded, NewSession
  <2> QED
    BY <2>1, <2>2 DEF SaveOK, Idle
<1>4. ASSUME pc' \in Gone \cup {"write"} PROVE SaveOK'
  BY <1>4 DEF SaveOK, Gone
<1>5. CASE Exit \/ Kill \/ KillInSave \/ SaveOpens
  BY <1>4, <1>5 DEF Exit, Kill, KillInSave, SaveOpens, EndProcess, Gone
<1>6. CASE BeginCheck \/ LeaveLoop \/ EndFeed \/ EndCheck \/ GoToSleep
             \/ WakeUp \/ FetchFails \/ SkipItem
  BY <1>1, <1>6 DEF BeginCheck, LeaveLoop, EndFeed, EndCheck, GoToSleep,
     WakeUp, FetchFails, SkipItem, Gone
<1>7. ASSUME NEW f \in Feeds, Fetch(f) PROVE SaveOK'
  BY <1>1, <1>7 DEF Fetch, Gone, TypeOK, SessionType
<1>8. ASSUME NEW item \in Items, HandOver(item) PROVE SaveOK'
  <2>1. CASE EmptyTorrentAborts(item)
    BY <1>4, <2>1 DEF EmptyTorrentAborts, EndProcess, Gone
  <2>2. CASE ~EmptyTorrentAborts(item)
    <3>1. /\ pc = "items" /\ pc' = "result"
          /\ UNCHANGED <<session, statefile>>
      BY <1>8, <2>2 DEF HandOver, HandOverFails, HandOverAdded, LimitSpeed,
         HandOverDuplicate, HandOverReplyLost, HandOverFile,
         HandOverMagnetNowhere, AtItem, Answer
    <3> QED
      BY <1>1, <3>1 DEF Gone
  <2> QED
    BY <2>1, <2>2
<1>9. CASE ReportFailure \/ ReportSuccess
  BY <1>1, <1>9 DEF ReportFailure, ReportSuccess, Gone
<1>10. CASE Record
  <2>1. /\ pc' = "save" /\ resume' = "items"
        /\ UNCHANGED <<items, statefile>>
        /\ session'.downloads =
             addToBucket(BucketId(Head(items)), session.downloads,
                         session.max_bucket_items)
        /\ session'.max_bucket_items = session.max_bucket_items
    BY <1>10 DEF Record, TypeOK, SessionType
  <2>2. /\ statefile = session.downloads
        /\ ~has_been_downloaded(session.downloads, Head(items))
    BY <1>10 DEF Record, SaveOK, AnswerOK, AtAnswer, Gone
  <2> QED
    BY <2>1, <2>2 DEF SaveOK
<1>11. CASE SaveWrites
  <2>1. statefile' = session.downloads /\ UNCHANGED session
    BY <1>11 DEF SaveWrites, SaveReturns
  <2>2. pc' # "save"
    BY <1>11 DEF SaveWrites, SaveReturns, TypeOK, Idle
  <2> QED
    BY <2>1, <2>2 DEF SaveOK
<1>12. CASE DeferredReload \/ HangUp
  BY <1>1, <1>12 DEF DeferredReload, HangUp, Reload, RejectReload, Idle, Gone
<1>13. CASE Shutdown
  BY <1>1, <1>13 DEF Shutdown, Gone
<1>14. CASE Terminate
  BY <1>1, <1>2, <1>14 DEF Terminate, Gone
<1>15. CASE HangUpDuringCheck
  BY <1>2, <1>15 DEF HangUpDuringCheck
<1>16. ASSUME NEW f \in Feeds, Publish(f) PROVE SaveOK'
  BY <1>2, <1>16 DEF Publish
<1>17. CASE UNCHANGED vars
  BY <1>2, <1>17 DEF vars
<1> QED
  BY <1>a, <1>3, <1>5, <1>6, <1>7, <1>8, <1>9, <1>10, <1>11, <1>12, <1>13,
     <1>14, <1>15, <1>16, <1>17
     DEF Next, ProcessStep, Signal, SaveCannotOpen, SaveFails

\* match_only is copied to every new session, and guards every hand-over.
LEMMA DryRunStep == TypeOK /\ ControlOK /\ DryRunOK /\ [Next]_vars => DryRunOK'
<1> SUFFICES ASSUME TypeOK, ControlOK, DryRunOK, [Next]_vars,
                    argv'.match_only, pc' \notin Gone
             PROVE  /\ session'.match_only /\ ~session'.bucket_changed
                    /\ pc' \notin {"result", "record", "save", "write"}
  BY DEF DryRunOK, AtAnswer
<1> DEFINE Goal == /\ session'.match_only /\ ~session'.bucket_changed
                   /\ pc' \notin {"result", "record", "save", "write"}
<1> USE DEF mainVars, flagVars, tmVars
<1>1. CASE Start
  <2>1. pc' = "main" /\ \E feeds \in Configs, bucket \in Loaded :
           session' = NewSession(feeds, bucket, argv'.match_only)
    BY <1>1 DEF Start
  <2> QED
    BY <2>1 DEF NewSession
<1>2. ASSUME NEW place \in Gone, EndProcess(place) PROVE FALSE
  BY <1>2 DEF EndProcess
<1>3. CASE Exit \/ Kill \/ KillInSave
  BY <1>2, <1>3 DEF Exit, Kill, KillInSave, Gone
<1>4. ASSUME UNCHANGED argv, pc \notin Gone
      PROVE  /\ session.match_only /\ ~session.bucket_changed
             /\ pc \notin {"result", "record", "save", "write"}
  BY <1>4 DEF DryRunOK, AtAnswer
<1>5. ASSUME UNCHANGED <<argv, session>>, pc \notin Gone,
             pc' \notin {"result", "record", "save", "write"} \/ pc' = pc
      PROVE  Goal
  BY <1>4, <1>5
<1>6. CASE Setup
  <2>1. pc = "setup" /\ UNCHANGED argv /\ pc' \in Idle
        /\ \E feeds \in Configs, bucket \in Loaded :
              session' = NewSession(feeds, bucket, session.match_only)
    BY <1>6 DEF Setup, ControlOK
  <2> QED
    BY <1>4, <2>1 DEF NewSession, Gone, Idle
<1>7. CASE BeginCheck \/ LeaveLoop \/ EndFeed \/ EndCheck \/ GoToSleep
             \/ WakeUp \/ FetchFails \/ SkipItem
  BY <1>5, <1>7 DEF BeginCheck, LeaveLoop, EndFeed, EndCheck, GoToSleep,
     WakeUp, FetchFails, SkipItem, Gone
<1>8. ASSUME NEW f \in Feeds, Fetch(f) PROVE Goal
  <2>1. /\ UNCHANGED argv /\ pc = "feeds" /\ pc' = "items"
        /\ session'.match_only = session.match_only
        /\ session'.bucket_changed = session.bucket_changed
    BY <1>8 DEF Fetch, TypeOK, SessionType
  <2> QED
    BY <1>4, <2>1 DEF Gone
<1>9. ASSUME NEW item \in Items, HandOver(item) PROVE Goal
  <2>1. CASE EmptyTorrentAborts(item)
    BY <1>2, <2>1 DEF EmptyTorrentAborts, Gone
  <2>2. CASE ~EmptyTorrentAborts(item)
    <3>1. pc = "items" /\ UNCHANGED argv /\ ~session.match_only
      BY <1>9, <2>2 DEF HandOver, HandOverFails, HandOverAdded, LimitSpeed,
         HandOverDuplicate, HandOverReplyLost, HandOverFile,
         HandOverMagnetNowhere, AtItem, Answer, Due
    <3> QED
      BY <1>4, <3>1 DEF Gone
  <2> QED
    BY <2>1, <2>2
<1>10. CASE ReportFailure \/ ReportSuccess \/ Record
  BY <1>4, <1>10 DEF ReportFailure, ReportSuccess, Record, Gone
<1>11. CASE SaveCannotOpen \/ SaveOpens \/ SaveWrites \/ SaveFails
  BY <1>4, <1>11 DEF SaveCannotOpen, SaveOpens, SaveWrites, SaveFails,
     SaveReturns, Gone
<1>12. CASE DeferredReload \/ HangUp
  <2>1. /\ pc \in Idle /\ UNCHANGED <<argv, session>>
        /\ pc' \in Idle \cup {"setup"} \/ session.bucket_changed
    BY <1>12 DEF DeferredReload, HangUp, Reload, RejectReload, Idle
  <2> QED
    BY <1>4, <1>5, <2>1 DEF Idle, Gone
<1>13. CASE Shutdown
  BY <1>4, <1>5, <1>13 DEF Shutdown, Gone
<1>14. CASE Terminate
  BY <1>5, <1>14 DEF Terminate
<1>15. CASE HangUpDuringCheck
  BY <1>5, <1>15 DEF HangUpDuringCheck, Checking, Gone
<1>16. ASSUME NEW f \in Feeds, Publish(f) PROVE Goal
  BY <1>5, <1>16 DEF Publish
<1>17. CASE UNCHANGED vars
  BY <1>5, <1>17 DEF vars
<1> QED
  BY <1>1, <1>3, <1>6, <1>7, <1>8, <1>9, <1>10, <1>11, <1>12, <1>13, <1>14,
     <1>15, <1>16, <1>17 DEF Next, ProcessStep, Signal

-----------------------------------------------------------------------------
(***************************************************************************)
(* The invariant, and what follows from it.                                *)
(***************************************************************************)
\* The invariant holds before the first start.
LEMMA InvInit == Init => IInv
<1> SUFFICES ASSUME Init PROVE IInv
  OBVIOUS
<1>1. TypeOK
  BY TypeInit
<1>2. /\ session.downloads = <<>> /\ session.feeds = <<>>
      /\ session.max_bucket_items = DefaultMaxBucket
      /\ pc = "down" /\ statefile = <<>> /\ notified = {} /\ first_run = FALSE
      /\ current = <<>>
  BY DEF Init, NoSession, NewSession
<1>3. Len(<<>>) = 0
  OBVIOUS
<1>4. ControlOK
  BY <1>2 DEF ControlOK, InFeed, InItem, AtAnswer, Saving, Gone
<1>5. Room /\ HistoryBounded
  BY <1>2, <1>3, LimitFacts DEF Room, HistoryBounded
<1>6. AnswerOK /\ SaveOK /\ DryRunOK
  BY <1>2 DEF AnswerOK, AtAnswer, NotifiedOnce, SaveOK, DryRunOK, Gone
<1>7. HistoryIsTruthful /\ HistoriesOK
  BY <1>2, <1>3 DEF HistoryIsTruthful, Elements, HistoriesOK, IsHistory
<1> QED
  BY <1>1, <1>4, <1>5, <1>6, <1>7 DEF IInv

\* Every step keeps the invariant: the lemmas above, part by part.
LEMMA InvStep == IInv /\ [Next]_vars => IInv'
BY TypeStep, ControlStep, RoomStep, BoundedStep, AnswerStep, TruthfulStep,
   HistoriesStep, SaveStep, DryRunStep DEF IInv

\* All parts of the invariant hold in every reachable state of the daemon.
THEOREM Invariance == Spec => []IInv
BY InvInit, InvStep, PTL DEF Spec

\* Every variable has its type in every reachable state of the daemon.
THEOREM TypeCorrect == Spec => []TypeOK
<1>1. IInv => TypeOK
  BY DEF IInv
<1> QED
  BY <1>1, Invariance, PTL

\* The history of addToBucket and load_state is bounded by the default size
\* and one document per configured feed, although no single step keeps it so.
THEOREM HistoryIsBounded == Spec => []HistoryBounded
<1>1. IInv => HistoryBounded
  BY DEF IInv
<1> QED
  BY <1>1, Invariance, PTL

\* processRSSList never records an item Transmission does not hold.
THEOREM HistoryTellsTheTruth == Spec => []HistoryIsTruthful
<1>1. IInv => HistoryIsTruthful
  BY DEF IInv
<1> QED
  BY <1>1, Invariance, PTL

\* No torrent is announced as a new download twice.
THEOREM NotifiedAtMostOnce == Spec => []NotifiedOnce
<1>1. IInv => NotifiedOnce
  BY DEF IInv, AnswerOK, NotifiedOnce
<1> QED
  BY <1>1, Invariance, PTL

\* The history in memory holds no id twice, whatever load_state has read.
THEOREM HistoryHasNoDuplicates == Spec => []NoDuplicateEntries
<1>1. IInv => NoDuplicateEntries
  BY DEF IInv, HistoriesOK, IsHistory, NoDuplicateEntries
<1> QED
  BY <1>1, Invariance, PTL

\* Without a failing save or load, memory and disk agree outside save_state.
THEOREM DiskAgreesWithMemory == Spec => []DiskMatchesMemory
<1>1. IInv => DiskMatchesMemory
  BY DEF IInv, SaveOK, DiskMatchesMemory
<1> QED
  BY <1>1, Invariance, PTL

\* A daemon started with --match-only changes nothing outside itself.
LEMMA DryRunChangesNothing ==
    TypeOK /\ DryRunOK /\ [Next]_vars =>
      [argv.match_only /\ pc \notin Gone =>
         UNCHANGED <<statefile, torrents, saved, notified>>]_vars
<1> SUFFICES ASSUME DryRunOK, [Next]_vars, argv.match_only, pc \notin Gone
             PROVE  UNCHANGED <<statefile, torrents, saved, notified>>
  OBVIOUS
<1> USE DEF mainVars, flagVars, tmVars
<1>1. session.match_only /\ pc \notin {"result", "record", "save", "write"}
  BY DEF DryRunOK, AtAnswer
<1>2. ASSUME NEW item \in Items, HandOver(item) PROVE FALSE
  BY <1>1, <1>2 DEF HandOver, HandOverFails, HandOverAdded, LimitSpeed,
     HandOverDuplicate, HandOverReplyLost, HandOverFile,
     HandOverMagnetNowhere, EmptyTorrentAborts, Due
<1>3. ~(ReportSuccess \/ SaveOpens \/ SaveWrites \/ SaveFails \/ KillInSave)
  BY <1>1 DEF ReportSuccess, SaveOpens, SaveWrites, SaveFails, KillInSave
<1> QED
  BY <1>2, <1>3
     DEF Next, ProcessStep, Signal, Start, BeginCheck, LeaveLoop, EndFeed,
         EndCheck, GoToSleep, WakeUp, FetchFails, Fetch, SkipItem,
         ReportFailure, Record, SaveCannotOpen, SaveReturns, DeferredReload,
         Setup, Shutdown, Exit, Terminate, HangUpDuringCheck, HangUp, Reload,
         RejectReload, Kill, Publish, vars

\* Spec allows a --match-only process no step that changes anything outside it.
THEOREM MatchOnlyIsADryRun == Spec => MatchOnlyChangesNothing
<1>1. IInv /\ [Next]_vars =>
        [argv.match_only /\ pc \notin Gone =>
           UNCHANGED <<statefile, torrents, saved, notified>>]_vars
  BY DryRunChangesNothing DEF IInv
<1> QED
  BY <1>1, Invariance, PTL DEF Spec, MatchOnlyChangesNothing

-----------------------------------------------------------------------------
(***************************************************************************)
(* The daemon implements DurableHistory: the history is remembered at the  *)
(* moment save_state opens the file, every other step is a stutter.        *)
(***************************************************************************)
\* A save on behalf of processRSSList writes what it was to remember.
LEMMA SaveRemembers ==
    ASSUME NEW item \in Items, NEW max \in Nat \ {0},
           statefile \in Seq(Entries),
           ~has_been_downloaded(statefile, item), pc # "write",
           Durable' = addToBucket(BucketId(item), statefile, max)
    PROVE  Promise!Next
<1> DEFINE id == BucketId(item)
           grown == <<id>> \o statefile
<1>1. Durable = statefile
  BY DEF Durable
<1>2. id \in Ids /\ \A k \in 1..Len(statefile) : statefile[k] # id
  BY NotDownloaded DEF Ids
<1>3. Len(grown) = Len(statefile) + 1
  BY <1>2, IdsAreEntries
<1>4. Len(grown) - 1 = Len(statefile)
  BY <1>3, LenProperties
<1>5. Durable' = grown \/ Durable' = SubSeq(grown, 1, Len(statefile))
  BY <1>4 DEF addToBucket, removeLast
<1>6. Promise!Remember(id)
  BY <1>1, <1>2, <1>5 DEF Promise!Remember, Promise!Forgets
<1> QED
  BY <1>2, <1>6 DEF Promise!Next

\* Only save_state on behalf of processRSSList changes the history on disk.
LEMMA DurableStep ==
    ASSUME Faults \cap SaveFaults = {}
    PROVE  IInv /\ [Next]_vars =>
             (SaveOpens /\ resume = "items") \/ UNCHANGED Durable
<1> SUFFICES ASSUME IInv, [Next]_vars, ~(SaveOpens /\ resume = "items")
             PROVE  UNCHANGED Durable
  OBVIOUS
<1> USE DEF mainVars, flagVars, tmVars
<1>a. /\ "torn" \notin Faults /\ "open" \notin Faults
      /\ "write" \notin Faults /\ "load" \notin Faults
  BY DEF SaveFaults
<1>b. TypeOK /\ ControlOK /\ Room /\ SaveOK
  BY DEF IInv
<1>1. ASSUME pc # "write", pc' # "write", UNCHANGED statefile
      PROVE  UNCHANGED Durable
  BY <1>1 DEF Durable
<1>2. ASSUME UNCHANGED <<pc, session, statefile>> PROVE UNCHANGED Durable
  BY <1>2 DEF Durable
<1>3. CASE SaveOpens
  <2>1. /\ pc = "save" /\ pc' = "write" /\ UNCHANGED session
        /\ Durable = statefile /\ Durable' = session.downloads
    BY <1>3 DEF SaveOpens, Durable
  <2> QED
    BY <1>b, <1>3, <2>1 DEF SaveOK
<1>4. CASE SaveWrites
  <2>1. pc = "write" /\ pc' # "write" /\ statefile' = session.downloads
    BY <1>4, <1>b DEF SaveWrites, SaveReturns, TypeOK, Idle
  <2> QED
    BY <2>1 DEF Durable
<1>5. CASE Start \/ Setup
  BY <1>1, <1>5, <1>b DEF Start, Setup, Gone, ControlOK, Idle
<1>6. CASE Exit \/ Kill
  BY <1>1, <1>6 DEF Exit, Kill, EndProcess
<1>7. CASE BeginCheck \/ LeaveLoop \/ EndFeed \/ EndCheck \/ GoToSleep
             \/ WakeUp \/ FetchFails \/ SkipItem
  BY <1>1, <1>7 DEF BeginCheck, LeaveLoop, EndFeed, EndCheck, GoToSleep,
     WakeUp, FetchFails, SkipItem
<1>8. ASSUME NEW f \in Feeds, Fetch(f) PROVE UNCHANGED Durable
  BY <1>1, <1>8 DEF Fetch
<1>9. ASSUME NEW item \in Items, HandOver(item) PROVE UNCHANGED Durable
  BY <1>1, <1>9 DEF HandOver, HandOverFails, HandOverAdded, LimitSpeed,
     HandOverDuplicate, HandOverReplyLost, HandOverFile,
     HandOverMagnetNowhere, EmptyTorrentAborts, EndProcess, AtItem, Answer
<1>10. CASE ReportFailure \/ ReportSuccess \/ Record \/ Shutdown
  BY <1>1, <1>10 DEF ReportFailure, ReportSuccess, Record, Shutdown
<1>11. CASE DeferredReload \/ HangUp
  BY <1>1, <1>11 DEF DeferredReload, HangUp, Reload, RejectReload, Idle
<1>12. CASE Terminate
  BY <1>1, <1>2, <1>12 DEF Terminate
<1>13. CASE HangUpDuringCheck
  BY <1>2, <1>13 DEF HangUpDuringCheck
<1>14. ASSUME NEW f \in Feeds, Publish(f) PROVE UNCHANGED Durable
  BY <1>2, <1>14 DEF Publish
<1>15. CASE UNCHANGED vars
  BY <1>2, <1>15 DEF vars
<1> QED
  BY <1>a, <1>3, <1>4, <1>5, <1>6, <1>7, <1>8, <1>9, <1>10, <1>11, <1>12,
     <1>13, <1>14, <1>15
     DEF Next, ProcessStep, Signal, SaveCannotOpen, SaveFails, KillInSave

\* Every step is a step of DurableHistory, or leaves the history on disk alone.
LEMMA PromiseStep ==
    ASSUME Faults \cap SaveFaults = {}
    PROVE  IInv /\ [Next]_vars => [Promise!Next]_Durable
<1> SUFFICES ASSUME IInv, SaveOpens, resume = "items" PROVE Promise!Next
  BY DurableStep
<1>1. TypeOK /\ ControlOK /\ Room /\ SaveOK
  BY DEF IInv
<1>2. pc = "save" /\ Durable' = session.downloads
  BY DEF SaveOpens, Durable
<1>3. /\ ~has_been_downloaded(statefile, Head(items))
      /\ session.downloads = addToBucket(BucketId(Head(items)), statefile,
                                         session.max_bucket_items)
  BY <1>1, <1>2 DEF SaveOK
<1>4. /\ Head(items) \in Items /\ statefile \in Seq(Entries)
      /\ session.max_bucket_items \in Nat \ {0}
  BY <1>1, <1>2, LimitFacts
     DEF TypeOK, SessionType, ControlOK, InItem, Saving, Room
<1> QED
  BY <1>2, <1>3, <1>4, SaveRemembers

\* While saving and loading work, the history on disk is a durable history,
\* over kills, restarts, reloads and shutdowns.
THEOREM DaemonKeepsHistory ==
    ASSUME Faults \cap SaveFaults = {}
    PROVE  Spec => KeepsHistory
<1>1. Init => Promise!Init
  BY DEF Init, Promise!Init, Durable
<1>2. IInv /\ [Next]_vars => [Promise!Next]_Durable
  BY PromiseStep
<1> QED
  BY <1>1, <1>2, Invariance, PTL DEF Spec, KeepsHistory, Promise!Spec

-----------------------------------------------------------------------------
(***************************************************************************)
(* A daemon with one feed does not drop an item that is still listed.  An  *)
(* item that is added while another one is in the history comes from a     *)
(* document that is no older, so that it stands less than a window before  *)
(* it in the stream; and less than a window behind it as long as the other *)
(* one is listed.  There are 2 * Window - 1 items of that kind.            *)
(***************************************************************************)
\* No two items that a feed publishes have the same id.
IdsDiffer(f) ==
    \A p, q \in 1..Len(Stream[f]) :
       BucketId(Stream[f][p]) = BucketId(Stream[f][q]) => p = q

\* A history has only items that were published before the n-th, and it,
KnowsUpTo(f, h, n) ==
    \A k \in 1..Len(h) : \E p \in 1..n : h[k] = BucketId(Stream[f][p])

\* and in front of an item none that stands a window before it.
WithinWindow(f, h) ==
    \A j, k \in 1..Len(h), p, q \in 1..Len(Stream[f]) :
       /\ j < k
       /\ h[j] = BucketId(Stream[f][p])
       /\ h[k] = BucketId(Stream[f][q])
       => q - p < Window

IsRecent(f, h, n) == KnowsUpTo(f, h, n) /\ WithinWindow(f, h)

\* What is left of a document that was fetched when n items were published.
Document(f, left, memory, disk, n) ==
    /\ \E s \in 1..n + 1 : n - s < Window /\ left = SubSeq(Stream[f], s, n)
    /\ KnowsUpTo(f, memory, n) /\ KnowsUpTo(f, disk, n)

Kept(f) ==
    /\ session.max_bucket_items >= DefaultMaxBucket
    /\ IsRecent(f, session.downloads, published[f])
    /\ IsRecent(f, statefile, published[f])
    /\ InFeed => \E n \in 0..published[f] :
                   Document(f, items, session.downloads, statefile, n)

\* A history that knows nothing is in order, and so is one that is known to
\* later documents.
LEMMA StaysRecent ==
    ASSUME NEW f, NEW n \in Nat, NEW m \in Nat, n <= m, NEW h
    PROVE  /\ IsRecent(f, <<>>, n)
           /\ KnowsUpTo(f, h, n) => KnowsUpTo(f, h, m)
           /\ IsRecent(f, h, n) => IsRecent(f, h, m)
<1>1. \A k \in 1..Len(<<>>) : FALSE
  OBVIOUS
<1>2. IsRecent(f, <<>>, n)
  BY <1>1 DEF IsRecent, KnowsUpTo, WithinWindow
<1>3. KnowsUpTo(f, h, n) => KnowsUpTo(f, h, m)
  BY DEF KnowsUpTo
<1> QED
  BY <1>2, <1>3 DEF IsRecent

\* One more item of a document that knows the history.
LEMMA GrowsRecent ==
    ASSUME NEW f \in Feeds, IdsDiffer(f), NEW n \in Nat,
           n <= Len(Stream[f]), NEW s \in 1..n, n - s < Window,
           NEW h, NEW new, Len(h) \in Nat, Len(new) \in {Len(h), Len(h) + 1},
           \A k \in 1..Len(new) :
              new[k] = IF k = 1 THEN BucketId(Stream[f][s]) ELSE h[k - 1],
           KnowsUpTo(f, h, n)
    PROVE  /\ KnowsUpTo(f, new, n)
           /\ WithinWindow(f, h) => WithinWindow(f, new)
<1>1. Len(Stream[f]) \in Nat /\ Window \in Nat
  BY FeedsAssumption, LenProperties
<1>2. \A k \in 1..Len(new) : k # 1 => k - 1 \in 1..Len(h)
  OBVIOUS
<1>3. ASSUME NEW k \in 1..Len(new)
      PROVE  \E p \in 1..n : new[k] = BucketId(Stream[f][p])
  BY <1>2 DEF KnowsUpTo
<1>4. ASSUME WithinWindow(f, h), NEW j \in 1..Len(new), NEW k \in 1..Len(new),
             NEW p \in 1..Len(Stream[f]), NEW q \in 1..Len(Stream[f]),
             j < k, new[j] = BucketId(Stream[f][p]),
             new[k] = BucketId(Stream[f][q])
      PROVE  q - p < Window
  <2>1. k - 1 \in 1..Len(h) /\ h[k - 1] = BucketId(Stream[f][q])
    BY <1>2, <1>4
  <2>2. CASE j = 1
    <3>1. BucketId(Stream[f][s]) = BucketId(Stream[f][p])
      BY <1>4, <2>2
    <3>2. s \in 1..Len(Stream[f])
      BY <1>1
    <3>3. p = s
      BY <3>1, <3>2 DEF IdsDiffer
    <3>4. PICK r \in 1..n : h[k - 1] = BucketId(Stream[f][r])
      BY <2>1 DEF KnowsUpTo
    <3>5. r \in 1..Len(Stream[f])
      BY <1>1
    <3>6. q = r
      BY <2>1, <3>4, <3>5 DEF IdsDiffer
    <3> QED
      BY <1>1, <3>3, <3>6
  <2>3. CASE j # 1
    <3>1. /\ j - 1 \in 1..Len(h) /\ j - 1 < k - 1
          /\ h[j - 1] = BucketId(Stream[f][p])
      BY <1>2, <1>4, <2>3
    <3> QED
      BY <1>4, <2>1, <3>1 DEF WithinWindow
  <2> QED
    BY <2>2, <2>3
<1> QED
  BY <1>3, <1>4 DEF KnowsUpTo, WithinWindow

\* What is left of a document, and its next item.
LEMMA NextItem ==
    ASSUME NEW f \in Feeds, NEW n \in Nat, n <= Len(Stream[f]),
           NEW s \in 1..n + 1, NEW left, left = SubSeq(Stream[f], s, n),
           left # <<>>
    PROVE  s \in 1..n /\ Head(left) = Stream[f][s]
           /\ Tail(left) = SubSeq(Stream[f], s + 1, n)
<1>1. Stream[f] \in Seq(Items) /\ Len(Stream[f]) \in Nat
  BY FeedsAssumption, LenProperties
<1>2. s <= n
  <2> SUFFICES ASSUME n < s PROVE FALSE
    OBVIOUS
  <2> QED
    BY SubSeqEmpty
<1>3. s \in 1..Len(Stream[f]) /\ n \in s..Len(Stream[f])
  BY <1>1, <1>2
<1> QED
  BY <1>1, <1>2, <1>3, HeadTailOfSubSeq

\* The history with an item in front that is no more than a window away from
\* the last entry on either side: it has at most 2 * Window - 1 entries.
LEMMA FewAround ==
    ASSUME NEW f \in Feeds, NEW h, Len(h) \in Nat,
           \A j, k \in 1..Len(h) : h[j] = h[k] => j = k,
           NEW n \in Nat, n <= Len(Stream[f]), KnowsUpTo(f, h, n),
           WithinWindow(f, h),
           NEW last \in 1..n, h[Len(h)] = BucketId(Stream[f][last]),
           n - last < Window
    PROVE  Len(h) <= 2 * Window - 1
<1>1. Len(Stream[f]) \in Nat /\ Window \in Nat \ {0}
  BY FeedsAssumption, LenProperties
<1> SUFFICES ASSUME Len(h) > 2 * Window - 1 PROVE FALSE
  BY <1>1
<1> DEFINE A  == 1..Len(h)
           B  == last - Window + 1..last + Window - 1
           At(k, p) == p \in 1..n /\ h[k] = BucketId(Stream[f][p])
           at == [k \in A |-> IF k = Len(h) THEN last
                              ELSE CHOOSE p : At(k, p)]
<1>2. \A k \in A : At(k, at[k])
  <2>1. \A k \in A : \E p : At(k, p)
    BY DEF KnowsUpTo
  <2>2. \A k \in A : At(k, CHOOSE p : At(k, p))
    BY <2>1
  <2>3. At(Len(h), last)
    OBVIOUS
  <2> HIDE DEF At
  <2> QED
    BY <2>2, <2>3
<1>3. at[Len(h)] = last
  BY <1>1
<1> HIDE DEF at
<1>4. ASSUME NEW k \in A PROVE at[k] \in B
  <2>1. PICK p : p = at[k]
    OBVIOUS
  <2>2. p \in 1..n /\ h[k] = BucketId(Stream[f][p])
    BY <1>2, <2>1
  <2>3. last - p < Window
    <3>1. CASE k = Len(h)
      BY <1>1, <1>3, <2>1, <3>1
    <3>2. CASE k # Len(h)
      <4>1. k < Len(h) /\ Len(h) \in 1..Len(h) /\ k \in 1..Len(h)
        BY <3>2
      <4>2. \A q \in 1..n : q \in 1..Len(Stream[f])
        BY <1>1
      <4>3. p \in 1..Len(Stream[f]) /\ last \in 1..Len(Stream[f])
        BY <2>2, <4>2
      <4> QED
        BY <2>2, <4>1, <4>3 DEF WithinWindow
    <3> QED
      BY <3>1, <3>2
  <2>4. p \in Int /\ p <= n /\ last \in Int /\ Window \in Int /\ n \in Int
    BY <1>1, <2>2
  <2>5. p < last + Window /\ last - Window < p
    BY <2>3, <2>4
  <2>6. p \in B
    BY <2>4, <2>5
  <2> QED
    BY <2>1, <2>6
<1>5. at \in [A -> B]
  <2>1. at = [k \in A |-> at[k]]
    BY DEF at
  <2> QED
    BY <1>4, <2>1
<1>6. /\ IsFiniteSet(A) /\ Cardinality(A) = Len(h)
      /\ IsFiniteSet(B) /\ Cardinality(B) = 2 * Window - 1
  <2>1. /\ 1 \in Int /\ Len(h) \in Int
        /\ last - Window + 1 \in Int /\ last + Window - 1 \in Int
        /\ ~(1 > Len(h)) /\ ~(last - Window + 1 > last + Window - 1)
    BY <1>1
  <2>2. /\ IsFiniteSet(A) /\ Cardinality(A) = Len(h) - 1 + 1
        /\ IsFiniteSet(B)
        /\ Cardinality(B) = (last + Window - 1) - (last - Window + 1) + 1
    BY <2>1, FS_Interval
  <2> QED
    BY <1>1, <2>2
<1>7. PICK x \in A, y \in A : x # y /\ at[x] = at[y]
  <2> HIDE DEF A, B
  <2> QED
    BY <1>1, <1>5, <1>6, FS_PigeonHole
<1>8. h[x] = h[y]
  BY <1>2, <1>7
<1> QED
  BY <1>7, <1>8

\* A step that takes the lists from each other, and nothing but the next item
\* from a document that was there before.
LEMMA KeptByLists ==
    ASSUME NEW f \in Feeds, TypeOK, Kept(f),
           session'.max_bucket_items >= DefaultMaxBucket,
           session'.downloads \in {session.downloads, statefile, <<>>},
           statefile' \in {session.downloads, statefile, <<>>},
           published' = published,
           InFeed' => /\ InFeed
                      /\ \/ items' = items
                         \/ items # <<>> /\ items' = Tail(items)
    PROVE  Kept(f)'
<1>1. published[f] \in Nat /\ published[f] <= Len(Stream[f])
  BY DEF TypeOK
<1>2. \A h \in {session.downloads, statefile, <<>>} :
         IsRecent(f, h, published[f])
  BY <1>1, StaysRecent DEF Kept
<1>3. ASSUME InFeed'
      PROVE  \E n \in 0..published[f] :
                Document(f, items', session'.downloads, statefile', n)
  <2>1. PICK n \in 0..published[f] :
           Document(f, items, session.downloads, statefile, n)
    BY <1>3 DEF Kept
  <2>2. n \in Nat /\ n <= Len(Stream[f]) /\ Window \in Nat
    BY <1>1, FeedsAssumption, LenProperties
  <2>3. \A h \in {session.downloads, statefile, <<>>} : KnowsUpTo(f, h, n)
    BY <2>1, <2>2, StaysRecent DEF Document, IsRecent
  <2>4. PICK s \in 1..n + 1 :
           n - s < Window /\ items = SubSeq(Stream[f], s, n)
    BY <2>1 DEF Document
  <2>5. \E t \in 1..n + 1 :
           n - t < Window /\ items' = SubSeq(Stream[f], t, n)
    <3>1. CASE items' = items
      BY <2>4, <3>1
    <3>2. CASE items # <<>> /\ items' = Tail(items)
      <4>1. s \in 1..n /\ Tail(items) = SubSeq(Stream[f], s + 1, n)
        BY <2>2, <2>4, <3>2, NextItem
      <4>2. s + 1 \in 1..n + 1 /\ n - (s + 1) < Window
        BY <2>2, <2>4, <4>1
      <4> QED
        BY <3>2, <4>1, <4>2
    <3> QED
      BY <1>3, <3>1, <3>2
  <2> QED
    BY <2>3, <2>5 DEF Document
<1> QED
  BY <1>2, <1>3 DEF Kept

\* The other steps: the next item is recorded,
LEMMA KeptByRecord ==
    ASSUME NEW f \in Feeds, IdsDiffer(f), TypeOK, ControlOK, Room, Kept(f),
           Record
    PROVE  Kept(f)'
<1>1. /\ published[f] \in Nat /\ published[f] <= Len(Stream[f])
      /\ Len(session.downloads) \in Nat
  BY LenProperties DEF TypeOK, SessionType
<1>2. /\ UNCHANGED <<items, published, statefile>>
      /\ session'.max_bucket_items = session.max_bucket_items
      /\ InFeed /\ items # <<>>
  BY DEF Record, TypeOK, SessionType, ControlOK, InFeed, InItem, AtAnswer
<1>3. PICK n \in 0..published[f] :
         Document(f, items, session.downloads, statefile, n)
  BY <1>2 DEF Kept
<1>4. PICK s \in 1..n + 1 :
         n - s < Window /\ items = SubSeq(Stream[f], s, n)
  BY <1>3 DEF Document
<1>5. n \in Nat /\ n <= Len(Stream[f]) /\ n <= published[f]
  BY <1>1, FeedsAssumption, LenProperties
<1>6. s \in 1..n /\ Head(items) = Stream[f][s]
  BY <1>2, <1>4, <1>5, NextItem
<1>7. /\ Len(session'.downloads) \in
           {Len(session.downloads), Len(session.downloads) + 1}
      /\ \A k \in 1..Len(session'.downloads) :
            session'.downloads[k] =
              IF k = 1 THEN BucketId(Stream[f][s])
                       ELSE session.downloads[k - 1]
  BY <1>6, RecordLists
<1>8. /\ KnowsUpTo(f, session.downloads, n) /\ KnowsUpTo(f, statefile, n)
      /\ WithinWindow(f, session.downloads)
  BY <1>3 DEF Document, Kept, IsRecent
<1>9. /\ KnowsUpTo(f, session'.downloads, n)
      /\ WithinWindow(f, session'.downloads)
  BY <1>1, <1>4, <1>5, <1>6, <1>7, <1>8, GrowsRecent
<1>10. IsRecent(f, session'.downloads, published[f])
  BY <1>1, <1>5, <1>9, StaysRecent DEF IsRecent
<1>11. Document(f, items, session'.downloads, statefile, n)
  BY <1>3, <1>9 DEF Document
<1> QED
  BY <1>2, <1>10, <1>11 DEF Kept

\* or a document is fetched.
LEMMA KeptByFetch ==
    ASSUME NEW f \in Feeds, TypeOK, ControlOK, Room, Kept(f), Fetch(f)
    PROVE  Kept(f)'
<1>1. /\ published[f] \in Nat /\ published[f] <= Len(Stream[f])
      /\ Window \in Nat \ {0}
  BY FeedsAssumption DEF TypeOK
<1>2. /\ UNCHANGED <<published, statefile>> /\ items' = Listed(f)
      /\ session'.downloads = session.downloads
  BY DEF Fetch, TypeOK, SessionType
<1>3. session'.max_bucket_items >= DefaultMaxBucket
  <2>1. /\ session.max_bucket_items >= DefaultMaxBucket
        /\ session.max_bucket_items \in Nat /\ DefaultMaxBucket \in Nat
    BY LimitFacts DEF Kept, TypeOK, SessionType
  <2>2. CASE first_run
    <3> DEFINE total == session.max_bucket_items + Len(Listed(f))
    <3>1. /\ Len(Listed(f)) \in Nat /\ Len(Listed(f)) <= Window
          /\ Len(current) \in Nat \ {0} /\ pc = "feeds"
      BY ListedType, LenProperties DEF Fetch, TypeOK
    <3>2. session.max_bucket_items + Window * Len(current) <= HistoryLimit
      BY <2>2, <3>1 DEF Room
    <3>3. \E w \in Nat : w = Window * Len(current) /\ Window <= w
      BY <1>1, <3>1, OneFeedLess
    <3>4. PICK w \in Nat : w = Window * Len(current) /\ Window <= w
      BY <3>3
    <3>5. total % Uint16 = total
      <4>1. session.max_bucket_items + w <= HistoryLimit
        BY <3>2, <3>4
      <4>2. w \in Nat /\ Window <= w
        BY <3>4
      <4>3. total <= HistoryLimit /\ total \in Nat
        BY <1>1, <2>1, <3>1, <4>1, <4>2, LimitFacts
      <4> QED
        BY <4>3, LimitFacts
    <3>6. session'.max_bucket_items = total
      BY <2>2, <3>5 DEF Fetch, TypeOK, SessionType
    <3> QED
      BY <2>1, <3>1, <3>6
  <2>3. CASE ~first_run
    BY <2>1, <2>3 DEF Fetch, ControlOK, Gone
  <2> QED
    BY <2>2, <2>3
<1>4. Document(f, Listed(f), session.downloads, statefile, published[f])
  <2> DEFINE n == published[f]
             s == IF n > Window THEN n - Window + 1 ELSE 1
  <2>1. s \in 1..n + 1 /\ n - s < Window
    BY <1>1
  <2>2. Listed(f) = SubSeq(Stream[f], s, n)
    BY DEF Listed
  <2> HIDE DEF s
  <2> QED
    BY <2>1, <2>2 DEF Document, Kept, IsRecent
<1> QED
  BY <1>1, <1>2, <1>3, <1>4 DEF Kept

\* Every step of the daemon and of the feed keeps the invariant.
LEMMA KeptStep ==
    ASSUME NEW f, Feeds = {f}, IdsDiffer(f), Faults \cap SaveFaults = {}
    PROVE  IInv /\ Kept(f) /\ [Next]_vars => Kept(f)'
<1> SUFFICES ASSUME IInv, Kept(f), [Next]_vars PROVE Kept(f)'
  OBVIOUS
<1> USE DEF mainVars, flagVars, tmVars
<1>a. /\ "torn" \notin Faults /\ "open" \notin Faults
      /\ "write" \notin Faults /\ "load" \notin Faults
  BY DEF SaveFaults
<1>b. TypeOK /\ ControlOK /\ Room /\ f \in Feeds /\ DefaultMaxBucket \in Nat
      /\ session.max_bucket_items >= DefaultMaxBucket
  BY LimitFacts DEF IInv, Kept
<1>1. ASSUME UNCHANGED <<session, statefile, published, items>>,
             InFeed' => InFeed
      PROVE  Kept(f)'
  BY <1>1, <1>b, KeptByLists
<1>2. ASSUME NEW place \in Gone, EndProcess(place),
             UNCHANGED <<statefile, published>>
      PROVE  Kept(f)'
  <2>1. ~InFeed'
    BY <1>2 DEF EndProcess, InFeed, InItem, AtAnswer, Saving, Gone
  <2>2. session'.downloads = <<>>
        /\ session'.max_bucket_items = DefaultMaxBucket
    BY <1>2 DEF EndProcess, NoSession, NewSession
  <2> QED
    BY <1>2, <1>b, <2>1, <2>2, KeptByLists
<1>3. CASE Start \/ Setup
  <2>1. /\ UNCHANGED <<statefile, published>> /\ pc' \in Idle
        /\ \E feeds \in Configs, bucket \in Loaded : \E match_only :
              session' = NewSession(feeds, bucket, match_only)
    BY <1>3, <1>b DEF Start, Setup, ControlOK, Idle
  <2>2. /\ session'.downloads = statefile
        /\ session'.max_bucket_items = DefaultMaxBucket
    BY <2>1, <1>a DEF Loaded, NewSession
  <2>3. ~InFeed'
    BY <2>1 DEF Idle, InFeed, InItem, AtAnswer, Saving
  <2> QED
    BY <2>1, <2>2, <2>3, <1>b, KeptByLists
<1>4. CASE Exit \/ Kill
  BY <1>2, <1>4 DEF Exit, Kill, Gone
<1>5. CASE BeginCheck \/ LeaveLoop \/ EndFeed \/ EndCheck \/ GoToSleep
             \/ WakeUp \/ FetchFails \/ ReportSuccess \/ Shutdown
  BY <1>1, <1>5 DEF BeginCheck, LeaveLoop, EndFeed, EndCheck, GoToSleep,
     WakeUp, FetchFails, ReportSuccess, Shutdown, InFeed, InItem, AtAnswer,
     Saving
<1>c. ASSUME NEW place \in Idle, Reload(place) \/ RejectReload(place)
      PROVE  Kept(f)'
  <2>1. UNCHANGED <<session, statefile, published, items>>
    BY <1>c DEF Reload, RejectReload
  <2>2. ~InFeed'
    BY <1>c DEF Reload, RejectReload, Idle, InFeed, InItem, AtAnswer, Saving
  <2> QED
    BY <1>1, <2>1, <2>2
<1>d. CASE DeferredReload
  BY <1>c, <1>d DEF DeferredReload, Idle
<1>6. CASE HangUp
  BY <1>c, <1>6 DEF HangUp, Idle
<1>7. CASE Terminate \/ HangUpDuringCheck \/ UNCHANGED vars
  BY <1>1, <1>7 DEF Terminate, HangUpDuringCheck, vars, InFeed, InItem,
     AtAnswer, Saving
<1>8. ASSUME NEW item \in Items, HandOver(item) PROVE Kept(f)'
  <2>1. CASE EmptyTorrentAborts(item)
    BY <1>2, <2>1 DEF EmptyTorrentAborts, Gone
  <2>2. CASE ~EmptyTorrentAborts(item)
    <3>1. /\ pc = "items" /\ pc' = "result"
          /\ UNCHANGED <<session, statefile, published, items>>
      BY <1>8, <2>2 DEF HandOver, HandOverFails, HandOverAdded, LimitSpeed,
         HandOverDuplicate, HandOverReplyLost, HandOverFile,
         HandOverMagnetNowhere, AtItem, Answer
    <3> QED
      BY <1>1, <3>1 DEF InFeed
  <2> QED
    BY <2>1, <2>2
<1>9. CASE SkipItem \/ ReportFailure
  <2>1. /\ InFeed /\ items # <<>> /\ items' = Tail(items)
        /\ UNCHANGED <<session, statefile, published>>
    BY <1>9, <1>b DEF SkipItem, ReportFailure, ControlOK, InFeed, InItem,
       AtAnswer
  <2> QED
    BY <2>1, <1>b, KeptByLists
<1>10. CASE Record
  BY <1>10, <1>b, KeptByRecord
<1>11. ASSUME NEW g \in Feeds, Fetch(g) PROVE Kept(f)'
  <2>1. g = f
    OBVIOUS
  <2> QED
    BY <1>11, <1>b, <2>1, KeptByFetch
<1>12. CASE SaveOpens
  <2>1. /\ statefile' = <<>> /\ UNCHANGED <<session, published, items>>
        /\ InFeed' => InFeed
    BY <1>12 DEF SaveOpens, InFeed, InItem, AtAnswer, Saving
  <2> QED
    BY <2>1, <1>b, KeptByLists
<1>13. CASE SaveWrites
  <2>1. statefile' = session.downloads /\ UNCHANGED <<session, published>>
    BY <1>13 DEF SaveWrites, SaveReturns
  <2>2. InFeed' => InFeed /\ items # <<>> /\ items' = Tail(items)
    <3>1. CASE resume = "items"
      BY <1>13, <1>b, <3>1 DEF SaveWrites, SaveReturns, ControlOK, InFeed,
         InItem, Saving
    <3>2. CASE resume # "items"
      BY <1>13, <1>b, <3>2 DEF SaveWrites, SaveReturns, TypeOK, InFeed,
         InItem, AtAnswer, Saving, Idle
    <3> QED
      BY <3>1, <3>2
  <2> QED
    BY <2>1, <2>2, <1>b, KeptByLists
<1>14. ASSUME NEW g \in Feeds, Publish(g) PROVE Kept(f)'
  <2>1. /\ UNCHANGED <<session, statefile, items>>
        /\ InFeed' => InFeed
        /\ published[f] \in Nat /\ published'[f] = published[f] + 1
    BY <1>14, <1>b DEF Publish, TypeOK, InFeed, InItem, AtAnswer, Saving
  <2>2. PICK m \in Nat : m = published'[f] /\ published[f] <= m
    BY <2>1
  <2>3. IsRecent(f, session.downloads, m) /\ IsRecent(f, statefile, m)
    BY <2>1, <2>2, StaysRecent DEF Kept
  <2>4. ASSUME InFeed'
        PROVE  \E n \in 0..m :
                  Document(f, items, session.downloads, statefile, n)
    <3>1. PICK n \in 0..published[f] :
             Document(f, items, session.downloads, statefile, n)
      BY <2>1, <2>4 DEF Kept
    <3>2. n \in 0..m
      BY <2>1, <2>2
    <3> QED
      BY <3>1, <3>2
  <2>5. /\ IsRecent(f, session'.downloads, published'[f])
        /\ IsRecent(f, statefile', published'[f])
        /\ InFeed' => \E n \in 0..published'[f] :
                         Document(f, items', session'.downloads, statefile', n)
    BY <2>1, <2>2, <2>3, <2>4
  <2>6. session'.max_bucket_items >= DefaultMaxBucket
    BY <1>b, <2>1
  <2> QED
    BY <2>5, <2>6 DEF Kept
<1> QED
  BY <1>a, <1>3, <1>4, <1>5, <1>d, <1>6, <1>7, <1>8, <1>9, <1>10, <1>11,
     <1>12, <1>13, <1>14
     DEF Next, ProcessStep, Signal, SaveCannotOpen, SaveFails, KillInSave

\* The save on behalf of processRSSList drops no item that is listed.
LEMMA NoListedIsDropped ==
    ASSUME NEW f, Feeds = {f}, IdsDiffer(f), Faults \cap SaveFaults = {},
           DefaultMaxBucket >= 2 * Window - 1,
           IInv, Kept(f), SaveOpens, resume = "items"
    PROVE  Elements(Durable) \cap ListedIds \subseteq Elements(Durable)'
<1> DEFINE old  == statefile
           id   == BucketId(Head(items))
           max  == session.max_bucket_items
           all  == <<id>> \o old
           last == old[Len(old)]
<1>1. /\ TypeOK /\ ControlOK /\ Room /\ HistoriesOK /\ SaveOK /\ f \in Feeds
      /\ InFeed /\ items # <<>>
  BY DEF IInv, SaveOpens, ControlOK, InFeed, InItem, Saving
<1>2. /\ pc = "save" /\ Durable = old
      /\ Durable' = addToBucket(id, old, max)
      /\ ~has_been_downloaded(old, Head(items))
  BY <1>1 DEF SaveOpens, SaveOK, Durable
<1>3. /\ old \in Seq(Entries) /\ Len(old) \in Nat /\ Head(items) \in Items
      /\ max \in Nat /\ max >= DefaultMaxBucket /\ DefaultMaxBucket \in Nat
      /\ Window \in Nat \ {0}
      /\ published[f] \in Nat /\ published[f] <= Len(Stream[f])
      /\ Len(Stream[f]) \in Nat
  BY <1>1, LimitFacts, FeedsAssumption, LenProperties
     DEF TypeOK, SessionType, Kept
<1>4. id \in Entries /\ id # Torn /\ \A k \in 1..Len(old) : old[k] # id
  BY <1>2, <1>3, IdsAreEntries, NotDownloaded
<1>5. /\ all \in Seq(Entries) /\ Len(all) = Len(old) + 1
      /\ \A k \in 1..Len(all) : all[k] = IF k = 1 THEN id ELSE old[k - 1]
  BY <1>3, <1>4
<1>6. /\ Durable' \in Seq(Entries)
      /\ Len(Durable') \in {Len(old), Len(old) + 1}
      /\ \A k \in 1..Len(Durable') :
            Durable'[k] = IF k = 1 THEN id ELSE old[k - 1]
  BY <1>2, <1>3, <1>4, AddToBucketType
<1> SUFFICES ASSUME NEW x \in Elements(old), x \in ListedIds,
                    x \notin Elements(Durable')
             PROVE  FALSE
  BY <1>2 DEF Elements
<1>7. Len(Durable') = Len(old) /\ x = last /\ Len(old) > 0
  <2>1. PICK k \in 1..Len(old) : x = old[k]
    BY DEF Elements
  <2>2. ~(k + 1 \in 1..Len(Durable'))
    <3> SUFFICES ASSUME k + 1 \in 1..Len(Durable') PROVE FALSE
      OBVIOUS
    <3>1. Durable'[k + 1] = x
      BY <1>6, <2>1
    <3> QED
      BY <3>1 DEF Elements
  <2> QED
    BY <1>3, <1>6, <2>1, <2>2
<1>8. PICK p \in 1..published[f] :
         x = BucketId(Stream[f][p]) /\ published[f] - p < Window
  <2>1. PICK i \in Elements(Listed(f)) : x = BucketId(i)
    BY DEF ListedIds
  <2> DEFINE n     == published[f]
             first == IF n > Window THEN n - Window + 1 ELSE 1
  <2>2. Listed(f) = SubSeq(Stream[f], first, n)
    BY DEF Listed
  <2>a. PICK m : m = published[f]
    OBVIOUS
  <2>3. /\ first \in 1..n + 1 /\ n - first < Window /\ n \in Nat
        /\ n <= Len(Stream[f])
    <3>1. m \in Nat /\ m <= Len(Stream[f]) /\ Window \in Nat \ {0}
      BY <1>3, <2>a
    <3>2. CASE m > Window
      BY <2>a, <3>1, <3>2
    <3>3. CASE ~(m > Window)
      BY <2>a, <3>1, <3>3
    <3> QED
      BY <3>2, <3>3
  <2> HIDE DEF first, n
  <2>4. PICK k \in 1..Len(Listed(f)) : i = Listed(f)[k]
    BY DEF Elements
  <2>5. k \in 1..n - first + 1 /\ i = Stream[f][first + k - 1]
    <3>1. Stream[f] \in Seq(Items)
      BY <1>1, FeedsAssumption
    <3>2. \A q \in first..n : Stream[f][q] \in Items
      BY <1>3, <2>3, <3>1, ElementOfSeq
    <3>3. /\ Len(Listed(f)) = IF first <= n THEN n - first + 1 ELSE 0
          /\ \A q \in 1..n - first + 1 :
                Listed(f)[q] = Stream[f][first + q - 1]
      BY <2>2, <2>3, <3>2, SubSeqProperties
    <3> QED
      BY <2>3, <2>4, <3>3
  <2>6. PICK q : q = first + k - 1
    OBVIOUS
  <2>7. q \in 1..n /\ n - q < Window
    BY <1>3, <2>3, <2>5, <2>6
  <2> QED
    BY <2>1, <2>5, <2>6, <2>7 DEF n
<1>9. PICK n \in 0..published[f] :
         Document(f, items, session.downloads, old, n)
  BY <1>1 DEF Kept
<1>10. PICK s \in 1..n + 1 :
          n - s < Window /\ items = SubSeq(Stream[f], s, n)
  BY <1>9 DEF Document
<1>11. n \in Nat /\ n <= Len(Stream[f]) /\ n <= published[f]
  BY <1>3
<1>12. s \in 1..n /\ id = BucketId(Stream[f][s])
  BY <1>1, <1>10, <1>11, NextItem
<1>13. KnowsUpTo(f, all, n) /\ WithinWindow(f, all)
  <2>1. KnowsUpTo(f, old, n) /\ WithinWindow(f, old)
    BY <1>9 DEF Document, Kept, IsRecent
  <2>2. /\ Len(all) \in {Len(old), Len(old) + 1}
        /\ \A k \in 1..Len(all) :
              all[k] = IF k = 1 THEN BucketId(Stream[f][s]) ELSE old[k - 1]
    BY <1>5, <1>12
  <2> HIDE DEF all, old, id
  <2> QED
    BY <1>1, <1>3, <1>10, <1>11, <1>12, <2>1, <2>2, GrowsRecent
<1>14. p \in 1..n /\ n - p < Window
  <2>1. PICK r \in 1..n : old[Len(old)] = BucketId(Stream[f][r])
    BY <1>3, <1>7, <1>9 DEF Document, KnowsUpTo
  <2>2. r \in 1..Len(Stream[f]) /\ p \in 1..Len(Stream[f])
    BY <1>3, <1>11
  <2>3. r = p
    BY <1>7, <1>8, <2>1, <2>2 DEF IdsDiffer
  <2>4. PICK m : m = published[f] /\ m \in Nat
    BY <1>3
  <2>5. m - p < Window /\ n <= m /\ Window \in Nat
    BY <1>3, <1>8, <1>11, <2>4
  <2> QED
    BY <1>11, <2>1, <2>3, <2>4, <2>5
<1>15. all[Len(all)] = BucketId(Stream[f][p])
  <2> HIDE DEF all
  <2>1. Len(all) \in 1..Len(all) /\ Len(all) # 1 /\ Len(all) - 1 = Len(old)
    BY <1>3, <1>5, <1>7
  <2> QED
    BY <1>5, <1>7, <1>8, <2>1
<1>16. \A j, k \in 1..Len(all) : all[j] = all[k] => j = k
  <2>1. \A j, k \in 1..Len(old) : old[j] = old[k] => j = k
    BY <1>1 DEF HistoriesOK, IsHistory
  <2> HIDE DEF all, old, id
  <2> SUFFICES ASSUME NEW j \in 1..Len(all), NEW k \in 1..Len(all),
                      all[j] = all[k]
               PROVE  j = k
    OBVIOUS
  <2>2. \A l \in 1..Len(all) : l # 1 => l - 1 \in 1..Len(old)
    BY <1>3, <1>5
  <2>3. CASE j = 1 \/ k = 1
    BY <1>4, <1>5, <2>2, <2>3
  <2>4. CASE j # 1 /\ k # 1
    BY <1>5, <2>1, <2>2, <2>4
  <2> QED
    BY <2>3, <2>4
<1>17. Len(all) <= 2 * Window - 1
  <2> HIDE DEF all
  <2>1. Len(all) \in Nat
    BY <1>3, <1>5
  <2> QED
    BY <1>1, <1>11, <1>13, <1>14, <1>15, <1>16, <2>1, FewAround
<1>18. Durable' = all
  <2>1. ~(Len(all) > max)
    BY <1>3, <1>5, <1>17
  <2> QED
    BY <1>2, <2>1 DEF addToBucket
<1> QED
  BY <1>3, <1>5, <1>7, <1>18

\* A daemon with one feed, whose history has room for two documents less one
\* item, never drops an item from the state file that the feed still lists, so
\* that it is not downloaded again: in any number of checks, over kills,
\* restarts and reloads, as long as saving and loading work.  (With two feeds
\* one may publish any number of items while the other goes on listing its
\* own, and an id that is published twice is listed again after any time.)
THEOREM ListedStays ==
    ASSUME NEW f, Feeds = {f}, IdsDiffer(f), Faults \cap SaveFaults = {},
           DefaultMaxBucket >= 2 * Window - 1
    PROVE  Spec => ListedIsKept
<1>1. Init => Kept(f)
  <2> SUFFICES ASSUME Init PROVE Kept(f)
    OBVIOUS
  <2>1. /\ session.downloads = <<>> /\ statefile = <<>> /\ ~InFeed
        /\ session.max_bucket_items = DefaultMaxBucket
        /\ published[f] = 0 /\ DefaultMaxBucket \in Nat
    BY Feeds = {f}, LimitFacts
       DEF Init, NoSession, NewSession, InFeed, InItem, AtAnswer, Saving
  <2>2. IsRecent(f, <<>>, 0)
    BY StaysRecent
  <2> QED
    BY <2>1, <2>2 DEF Kept
<1>2. IInv /\ Kept(f) /\ [Next]_vars => Kept(f)'
  BY KeptStep
<1>3. IInv /\ Kept(f) /\ [Next]_vars =>
        [Elements(Durable) \cap ListedIds \subseteq Elements(Durable)']_vars
  <2> SUFFICES ASSUME IInv, Kept(f), [Next]_vars
               PROVE  Elements(Durable) \cap ListedIds
                        \subseteq Elements(Durable)'
    OBVIOUS
  <2>1. CASE SaveOpens /\ resume = "items"
    BY <2>1, NoListedIsDropped
  <2>2. CASE UNCHANGED Durable
    BY <2>2 DEF Elements
  <2> QED
    BY <2>1, <2>2, DurableStep
<1> QED
  BY <1>1, <1>2, <1>3, Invariance, PTL DEF Spec, ListedIsKept
=============================================================================
