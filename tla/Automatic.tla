----------------------------- MODULE Automatic -----------------------------
(***************************************************************************)
(* The daemon: main() of src/automatic.c with everything one check of the  *)
(* feeds does.  Feeds are fetched one after the other, the items that      *)
(* match a filter and are not in the download history are handed to        *)
(* Transmission, and each item handed over is put into the history, which  *)
(* is written to the state file at once.  SIGHUP reloads the               *)
(* configuration, SIGTERM stops the daemon, and it may be killed at any    *)
(* point and started again on the state file it left.                      *)
(*                                                                         *)
(* pc names the place in the code:                                         *)
(*   main      the test of  while(!closing)                                *)
(*   feeds     the loop over the feeds of the configuration                *)
(*   items     the loop over the items of a feed in processRSSList         *)
(*   result    the return of addTorrentToTM or addMagnetToTM               *)
(*   record    the call of addToBucket                                     *)
(*   save      the call of save_state (fopen)                              *)
(*   write     save_state has truncated the file and writes the entries    *)
(*   checked   the check is over: the test of seenHUP                      *)
(*   sleep     the sleep between two checks                                *)
(*   setup     setupSession installs a new session                         *)
(*   shutdown  the test of bucket_changed in shutdown_daemon               *)
(*   exit      the rest of shutdown_daemon                                 *)
(*   down      no process runs                                             *)
(*   aborted   no process runs, an assertion has ended the last one        *)
(***************************************************************************)
EXTENDS Downloads, Integers, FiniteSets

CONSTANTS
    Feeds,              \* the RSS feeds that exist
    Items,              \* the items they publish: records, see ItemsAssumption
    Stream,             \* Stream[f]: what feed f publishes, oldest first
    Window,             \* how many of the latest items a feed document lists
    Configs,            \* the lists of feeds automatic.conf may give
    MaxFeeds,           \* the length of the longest of them
    Argv,               \* the command lines the daemon may be started with
    NoFile,             \* the xmlfile of a command line without -x
    Transmission,       \* "none", "external", "1.2" or "1.3"
    UploadLimit,        \* TRUE iff the configuration sets upload-limit
    DefaultMaxBucket,   \* AM_DEFAULT_MAXBUCKET
    Uint16,             \* 2^16, the range of max_bucket_items
    Torn,               \* what is read back for a line that was cut short
    Faults              \* the failures the environment may cause

VARIABLES
    pc,
    argv,        \* the command line of the running process
    session,     \* mySession: feeds, downloads, max_bucket_items, ...
    first_run,   \* main: no check of the feeds has ended yet
    current,     \* main: the feeds left to process in this check
    items,       \* processRSSList: the items left
    result,      \* processRSSList: what Transmission answered
    resume,      \* where save_state, or a reload, returns to
    closing,     \* SIGTERM or SIGINT was caught
    seenHUP,     \* SIGHUP was caught during a check
    statefile,   \* the entries in the state file
    published,   \* how many items of its stream a feed has published
    torrents,    \* the URLs of the torrents Transmission holds
    limited,     \* those of them whose upload speed was limited
    notified,    \* those the user got a success notification for
    saved        \* those saved to the torrent folder

mainVars == <<argv, first_run, current, items, result, resume>>
flagVars == <<closing, seenHUP>>
tmVars   == <<torrents, limited>>
vars == <<pc, mainVars, session, flagVars, statefile, published, tmVars,
          notified, saved>>

-----------------------------------------------------------------------------
(***************************************************************************)
(* Constants.  An item is wanted when parse_xmldata makes an item of it    *)
(* (it has a title and a URL) and it matches a filter.  Items without URL  *)
(* still count as entries of the document.                                 *)
(***************************************************************************)
Modes == {"none", "external", "1.2", "1.3"}

FaultKinds ==
    {"kill",      \* the process is killed, but not inside save_state
     "torn",      \* the process is killed inside save_state
     "open",      \* the state file cannot be opened for writing
     "write",     \* writing the state file fails half-way
     "load",      \* the state file cannot be opened for reading
     "assert"}    \* assertions are compiled in (not -DNDEBUG)

ASSUME ItemsAssumption ==
    /\ \A i \in Items : i.url # NoGUID
    /\ \A i \in Items : i.magnet \in BOOLEAN /\ i.wanted \in BOOLEAN
    /\ \A i \in Items : Torn # BucketId(i)

ASSUME FeedsAssumption ==
    /\ Stream \in [Feeds -> Seq(Items)]
    /\ Window \in Nat \ {0}
    /\ MaxFeeds \in Nat \ {0}
    /\ \A c \in Configs : c \in Seq(Feeds) /\ Len(c) <= MaxFeeds
    /\ NoFile \notin Feeds

ASSUME SettingsAssumption ==
    /\ Argv \subseteq [match_only : BOOLEAN, once : BOOLEAN,
                       xmlfile : Feeds \cup {NoFile}]
    /\ Transmission \in Modes
    /\ UploadLimit \in BOOLEAN
    /\ Faults \subseteq FaultKinds

\* What the uint16_t counter can hold is never exceeded.
ASSUME BucketAssumption ==
    /\ DefaultMaxBucket \in Nat \ {0}
    /\ Uint16 \in Nat
    /\ DefaultMaxBucket + Window * MaxFeeds < Uint16

Ids     == {BucketId(i) : i \in Items}
Entries == Ids \cup {Torn}
Urls    == {i.url : i \in Items}
Elements(seq) == {seq[k] : k \in 1..Len(seq)}

Checking == {"feeds", "items", "result", "record"}
Idle     == {"main", "checked", "sleep"}
Gone     == {"down", "aborted"}
PCs == Checking \cup Idle \cup Gone
           \cup {"save", "write", "setup", "shutdown", "exit"}

-----------------------------------------------------------------------------
(***************************************************************************)
(* The session, the feeds and the state file.                              *)
(***************************************************************************)
\* session_init with the configuration and the history read into it.
NewSession(feeds, downloads, match_only) ==
    [feeds |-> feeds, downloads |-> downloads,
     max_bucket_items |-> DefaultMaxBucket, bucket_changed |-> FALSE,
     match_only |-> match_only]

NoSession == NewSession(<<>>, <<>>, FALSE)
NoArgs    == [match_only |-> FALSE, once |-> FALSE, xmlfile |-> NoFile]

\* What load_state can return: the lines of the file, whatever their number;
\* nothing when the file cannot be opened, an error the callers ignore.
Loaded == {statefile} \cup (IF "load" \in Faults THEN {<<>>} ELSE {})

\* What a save that is cut short leaves on disk: the newest entries, the last
\* line perhaps incomplete.
CutShort(bucket) ==
    LET First(n) == SubSeq(bucket, 1, n)
    IN  {First(n) : n \in 0..Len(bucket)}
          \cup {First(n) \o <<Torn>> : n \in 0..Len(bucket) - 1}

\* The document of a feed lists its latest items, newest first;
\* parse_xmldata turns them round, so the list starts with the oldest.
Listed(f) ==
    LET last  == published[f]
        first == IF last > Window THEN last - Window + 1 ELSE 1
    IN  SubSeq(Stream[f], first, last)

ReadsFile == argv.xmlfile # NoFile
UsesRPC   == Transmission = "1.3"

Init ==
    /\ pc = "down"
    /\ argv = NoArgs
    /\ session = NoSession
    /\ first_run = FALSE
    /\ current = <<>>
    /\ items = <<>>
    /\ result = 0
    /\ resume = "main"
    /\ closing = FALSE
    /\ seenHUP = FALSE
    /\ statefile = <<>>
    /\ published = [f \in Feeds |-> 0]
    /\ torrents = {}
    /\ limited = {}
    /\ notified = {}
    /\ saved = {}

-----------------------------------------------------------------------------
(***************************************************************************)
(* Start and end of the process.                                           *)
(***************************************************************************)
\* main up to the loop: the command line, the configuration, the history.
\* (A configuration without feeds or filters ends the process here, with
\* nothing changed.)
Start ==
    /\ pc \in Gone
    /\ pc' = "main"
    /\ argv' \in Argv
    /\ \E feeds \in Configs, bucket \in Loaded :
          session' = NewSession(feeds, bucket, argv'.match_only)
    /\ first_run' = TRUE
    /\ UNCHANGED <<current, items, result, resume, flagVars, statefile,
                   published, tmVars, notified, saved>>

\* The process is gone, and with it everything it kept in memory.
EndProcess(place) ==
    /\ pc' = place
    /\ argv' = NoArgs
    /\ session' = NoSession
    /\ first_run' = FALSE
    /\ current' = <<>>
    /\ items' = <<>>
    /\ result' = 0
    /\ resume' = "main"
    /\ closing' = FALSE
    /\ seenHUP' = FALSE

\* shutdown_daemon saves a history that has changed since it was loaded.
Shutdown ==
    /\ pc = "shutdown"
    /\ resume' = "exit"
    /\ pc' = IF session.bucket_changed THEN "save" ELSE "exit"
    /\ UNCHANGED <<argv, session, first_run, current, items, result,
                   flagVars, statefile, published, tmVars, notified, saved>>

Exit ==
    /\ pc = "exit"
    /\ EndProcess("down")
    /\ UNCHANGED <<statefile, published, tmVars, notified, saved>>

\* kill -9, or a power failure: outside save_state the file stays as it is,
Kill ==
    /\ "kill" \in Faults
    /\ pc \notin Gone \cup {"write"}
    /\ EndProcess("down")
    /\ UNCHANGED <<statefile, published, tmVars, notified, saved>>

\* and inside it some of the entries have reached the disk.
KillInSave ==
    /\ "torn" \in Faults
    /\ pc = "write"
    /\ EndProcess("down")
    /\ statefile' \in CutShort(session.downloads)
    /\ UNCHANGED <<published, tmVars, notified, saved>>

-----------------------------------------------------------------------------
(***************************************************************************)
(* One check of the feeds: the loop of main, processFeed and processFile.  *)
(***************************************************************************)
\* Seeded bug: the loop does not test closing.
BeginCheckAnyway ==
    /\ pc = "main"
    /\ pc' = "feeds"
    /\ current' = IF ReadsFile THEN <<argv.xmlfile>> ELSE session.feeds
    /\ UNCHANGED <<argv, session, first_run, items, result, resume, flagVars,
                   statefile, published, tmVars, notified, saved>>

BeginCheck ==
    /\ pc = "main"
    /\ ~closing
    /\ pc' = "feeds"
    /\ current' = IF ReadsFile THEN <<argv.xmlfile>> ELSE session.feeds
    /\ UNCHANGED <<argv, session, first_run, items, result, resume, flagVars,
                   statefile, published, tmVars, notified, saved>>

LeaveLoop ==
    /\ pc = "main"
    /\ closing
    /\ pc' = "shutdown"
    /\ UNCHANGED <<mainVars, session, flagVars, statefile, published, tmVars,
                   notified, saved>>

\* No answer, not a 200, or an unreadable file: on to the next feed.
FetchFails ==
    /\ pc = "feeds"
    /\ current # <<>>
    /\ current' = Tail(current)
    /\ UNCHANGED <<pc, argv, session, first_run, items, result, resume,
                   flagVars, statefile, published, tmVars, notified, saved>>

\* Seeded bug: every check enlarges the history.
FetchEnlarges(f) ==
    /\ pc = "feeds"
    /\ current # <<>>
    /\ f = Head(current)
    /\ pc' = "items"
    /\ items' = Listed(f)
    /\ session' = [session EXCEPT !.max_bucket_items =
                      (@ + Len(Listed(f))) % Uint16]
    /\ UNCHANGED <<argv, first_run, current, result, resume, flagVars,
                   statefile, published, tmVars, notified, saved>>

\* The first check enlarges the history by the entries of every document it
\* gets; so does every check of a file given with -x.
Fetch(f) ==
    /\ pc = "feeds"
    /\ current # <<>>
    /\ f = Head(current)
    /\ pc' = "items"
    /\ items' = Listed(f)
    /\ session' =
         IF first_run \/ ReadsFile
         THEN [session EXCEPT !.max_bucket_items =
                 (@ + Len(Listed(f))) % Uint16]
         ELSE session
    /\ UNCHANGED <<argv, first_run, current, result, resume, flagVars,
                   statefile, published, tmVars, notified, saved>>

EndFeed ==
    /\ pc = "items"
    /\ items = <<>>
    /\ pc' = "feeds"
    /\ current' = Tail(current)
    /\ UNCHANGED <<argv, session, first_run, items, result, resume, flagVars,
                   statefile, published, tmVars, notified, saved>>

EndCheck ==
    /\ pc = "feeds"
    /\ current = <<>>
    /\ first_run' = (first_run /\ ReadsFile)
    /\ pc' = IF argv.once \/ ReadsFile THEN "shutdown" ELSE "checked"
    /\ UNCHANGED <<argv, session, current, items, result, resume, flagVars,
                   statefile, published, tmVars, notified, saved>>

GoToSleep ==
    /\ pc = "checked"
    /\ ~seenHUP
    /\ pc' = "sleep"
    /\ UNCHANGED <<mainVars, session, flagVars, statefile, published, tmVars,
                   notified, saved>>

WakeUp ==
    /\ pc = "sleep"
    /\ pc' = "main"
    /\ UNCHANGED <<mainVars, session, flagVars, statefile, published, tmVars,
                   notified, saved>>

-----------------------------------------------------------------------------
(***************************************************************************)
(* One item: the body of the loop of processRSSList.                       *)
(***************************************************************************)
\* The item is due: it matches, this is not a dry run, it is not known.
Due(item) ==
    /\ item.wanted
    /\ ~session.match_only
    /\ ~has_been_downloaded(session.downloads, item)

AtItem(item) ==
    /\ pc = "items"
    /\ items # <<>>
    /\ item = Head(items)

\* Seeded bug: an item that is not due ends the loop.
SkipAllItems ==
    /\ pc = "items"
    /\ items # <<>>
    /\ ~Due(Head(items))
    /\ items' = <<>>
    /\ UNCHANGED <<pc, argv, session, first_run, current, result, resume,
                   flagVars, statefile, published, tmVars, notified, saved>>

SkipItem ==
    /\ pc = "items"
    /\ items # <<>>
    /\ ~Due(Head(items))
    /\ items' = Tail(items)
    /\ UNCHANGED <<pc, argv, session, first_run, current, result, resume,
                   flagVars, statefile, published, tmVars, notified, saved>>

\* Seeded bug: they return the id Transmission gave to the torrent.
AnswerTorrentId(r) ==
    /\ pc' = "result"
    /\ result' = IF r > 0 THEN 1 + Cardinality(torrents) ELSE r
    /\ UNCHANGED <<argv, session, first_run, current, items, resume,
                   flagVars, statefile, published, notified>>

\* addTorrentToTM or addMagnetToTM returns r: 1 added, 0 duplicate, -1 error.
Answer(r) ==
    /\ pc' = "result"
    /\ result' = r
    /\ UNCHANGED <<argv, session, first_run, current, items, resume,
                   flagVars, statefile, published, notified>>

\* Seeded bug: every error counts as a duplicate.
HandOverFailsSilently(item) ==
    /\ AtItem(item) /\ Due(item)
    /\ item.magnet => Transmission # "none"
    /\ Answer(0)
    /\ UNCHANGED <<tmVars, saved>>

\* The torrent cannot be fetched, is empty, cannot be saved to a file, or
\* Transmission does not answer or refuses it.
HandOverFails(item) ==
    /\ AtItem(item) /\ Due(item)
    /\ item.magnet => Transmission # "none"
    /\ Answer(-1)
    /\ UNCHANGED <<tmVars, saved>>

\* changeUploadSpeed, if a limit is set; nobody looks at what it returns.
LimitSpeed(item) ==
    \/ UNCHANGED limited
    \/ UploadLimit /\ limited' = limited \cup {item.url}

\* Transmission adds it; the request that limits its speed may still fail.
HandOverAdded(item) ==
    /\ AtItem(item) /\ Due(item)
    /\ UsesRPC
    /\ item.url \notin torrents
    /\ torrents' = torrents \cup {item.url}
    /\ LimitSpeed(item)
    /\ Answer(1)
    /\ UNCHANGED saved

\* Seeded bug: a duplicate counts as added.
HandOverDuplicateAsNew(item) ==
    /\ AtItem(item) /\ Due(item)
    /\ UsesRPC
    /\ item.url \in torrents
    /\ Answer(1)
    /\ UNCHANGED <<tmVars, saved>>

\* Transmission holds it already.
HandOverDuplicate(item) ==
    /\ AtItem(item) /\ Due(item)
    /\ UsesRPC
    /\ item.url \in torrents
    /\ Answer(0)
    /\ UNCHANGED <<tmVars, saved>>

\* Transmission adds it, but the reply is lost or cannot be read.
HandOverReplyLost(item) ==
    /\ AtItem(item) /\ Due(item)
    /\ UsesRPC
    /\ torrents' = torrents \cup {item.url}
    /\ Answer(-1)
    /\ UNCHANGED <<limited, saved>>

\* saveFile returns how many bytes it has written.
saveFile(size) == size

\* Every caller takes 0 for success, so only a torrent of no bytes is one (a
\* compressed body may be empty).  An external program gets it, may fail, and
\* the file is removed.  Any other torrent stays in the folder as a failure.
HandOverFile(item) ==
    /\ AtItem(item) /\ Due(item)
    /\ ~UsesRPC /\ ~item.magnet
    /\ \E size \in {0, 1}, r \in {-1, 1} :
          LET success  == saveFile(size) = 0
              external == success /\ Transmission # "none"
          IN  /\ r > 0 => success
              /\ r < 0 => ~success \/ external
              /\ saved' = IF external THEN saved \ {item.url}
                                      ELSE saved \cup {item.url}
              /\ Answer(r)
    /\ UNCHANGED tmVars

\* A magnet link without Transmission counts as handed over.
HandOverMagnetNowhere(item) ==
    /\ AtItem(item) /\ Due(item)
    /\ Transmission = "none"
    /\ item.magnet
    /\ Answer(1)
    /\ UNCHANGED <<tmVars, saved>>

\* A torrent of no bytes makes no RPC packet, which sendTransmissionRPC
\* asserts; without assertions this is one of the failures above.
EmptyTorrentAborts(item) ==
    /\ "assert" \in Faults
    /\ AtItem(item) /\ Due(item)
    /\ UsesRPC
    /\ ~item.magnet
    /\ EndProcess("aborted")
    /\ UNCHANGED <<statefile, published, tmVars, notified, saved>>

HandOver(item) ==
    \/ HandOverFails(item) \/ HandOverAdded(item) \/ HandOverDuplicate(item)
    \/ HandOverReplyLost(item) \/ HandOverFile(item)
    \/ HandOverMagnetNowhere(item) \/ EmptyTorrentAborts(item)

\* A failed item is reported and left alone, to be tried in the next check.
ReportFailure ==
    /\ pc = "result"
    /\ result < 0
    /\ pc' = "items"
    /\ items' = Tail(items)
    /\ result' = 0
    /\ UNCHANGED <<argv, session, first_run, current, resume, flagVars,
                   statefile, published, tmVars, notified, saved>>

\* Only a torrent that Transmission did not have yet is a new download.
ReportSuccess ==
    /\ pc = "result"
    /\ result >= 0
    /\ pc' = "record"
    /\ notified' = IF result > 0 THEN notified \cup {Head(items).url}
                                 ELSE notified
    /\ UNCHANGED <<mainVars, session, flagVars, statefile, published, tmVars,
                   saved>>

\* Seeded bug: the state file is left to shutdown_daemon.
RecordInMemory ==
    /\ pc = "record"
    /\ session' = [session EXCEPT
          !.downloads = addToBucket(BucketId(Head(items)), @,
                                    session.max_bucket_items),
          !.bucket_changed = TRUE]
    /\ result' = 0
    /\ pc' = "items"
    /\ items' = Tail(items)
    /\ UNCHANGED <<argv, first_run, current, resume, flagVars, statefile,
                   published, tmVars, notified, saved>>

Record ==
    /\ pc = "record"
    /\ session' = [session EXCEPT
          !.downloads = addToBucket(BucketId(Head(items)), @,
                                    session.max_bucket_items),
          !.bucket_changed = TRUE]
    /\ result' = 0
    /\ pc' = "save"
    /\ resume' = "items"
    /\ UNCHANGED <<argv, first_run, current, items, flagVars, statefile,
                   published, tmVars, notified, saved>>

-----------------------------------------------------------------------------
(***************************************************************************)
(* save_state.  All three callers ignore what it returns: processRSSList   *)
(* goes on with the next item, setupSession with the new session, and      *)
(* shutdown_daemon with the end of the process.                            *)
(***************************************************************************)
SaveReturns ==
    /\ pc' = IF resume \in Idle THEN "setup" ELSE resume
    /\ IF resume = "items"
       THEN items' = Tail(items) /\ resume' = "main"
       ELSE UNCHANGED <<items, resume>>
    /\ UNCHANGED <<argv, session, first_run, current, result, flagVars,
                   published, tmVars, notified, saved>>

SaveCannotOpen ==
    /\ "open" \in Faults
    /\ pc = "save"
    /\ SaveReturns
    /\ UNCHANGED statefile

\* fopen(state_file, "w") empties the file before anything is written.
SaveOpens ==
    /\ pc = "save"
    /\ pc' = "write"
    /\ statefile' = <<>>
    /\ UNCHANGED <<mainVars, session, flagVars, published, tmVars, notified,
                   saved>>

SaveWrites ==
    /\ pc = "write"
    /\ statefile' = session.downloads
    /\ SaveReturns

SaveFails ==
    /\ "write" \in Faults
    /\ pc = "write"
    /\ statefile' \in CutShort(session.downloads)
    /\ SaveReturns

-----------------------------------------------------------------------------
(***************************************************************************)
(* Signals.  SIGTERM ends the sleep, and the loop at its next test; during *)
(* a check it only sets a flag.  SIGHUP reloads the configuration at once, *)
(* except during a check, which then does it at its end.  (A reload is not *)
(* interrupted here: the handler of SIGHUP blocks SIGHUP.)                 *)
(***************************************************************************)
Terminate ==
    /\ pc \notin Gone \cup {"shutdown", "exit"}
    /\ ~closing \/ pc = "sleep"
    /\ closing' = TRUE
    /\ pc' = IF pc = "sleep" THEN "main" ELSE pc
    /\ UNCHANGED <<mainVars, session, seenHUP, statefile, published, tmVars,
                   notified, saved>>

HangUpDuringCheck ==
    /\ \/ pc \in Checking
       \/ pc \in {"save", "write"} /\ resume = "items"
    /\ ~seenHUP
    /\ seenHUP' = TRUE
    /\ UNCHANGED <<pc, mainVars, session, closing, statefile, published,
                   tmVars, notified, saved>>

\* Reload the configuration and go on at place.
Reload(place) ==
    /\ resume' = place
    /\ pc' = IF session.bucket_changed THEN "save" ELSE "setup"
    /\ UNCHANGED <<argv, session, first_run, current, items, result,
                   flagVars, statefile, published, tmVars, notified, saved>>

\* Seeded bug: a rejected configuration leaves the request pending.
RejectReloadForNow(place) ==
    /\ pc' = place
    /\ UNCHANGED <<mainVars, session, flagVars, statefile, published, tmVars,
                   notified, saved>>

\* A configuration that cannot be used changes nothing.
RejectReload(place) ==
    /\ seenHUP' = FALSE
    /\ pc' = place
    /\ UNCHANGED <<mainVars, session, closing, statefile, published, tmVars,
                   notified, saved>>

\* A signal also ends the sleep; one caught elsewhere does not.
HangUp ==
    /\ pc \in Idle
    /\ LET place == IF pc = "sleep" THEN "main" ELSE pc
       IN  Reload(place) \/ RejectReload(place)

DeferredReload ==
    /\ pc = "checked"
    /\ seenHUP
    /\ Reload("sleep") \/ RejectReload("sleep")

\* Seeded bugs: the new session does not take over match_only, or does not
\* read the history.
SetupForReal ==
    /\ pc = "setup"
    /\ \E feeds \in Configs, bucket \in Loaded :
          session' = NewSession(feeds, bucket, FALSE)
    /\ seenHUP' = FALSE
    /\ pc' = resume
    /\ resume' = "main"
    /\ UNCHANGED <<argv, first_run, current, items, result, closing,
                   statefile, published, tmVars, notified, saved>>

SetupFromScratch ==
    /\ pc = "setup"
    /\ \E feeds \in Configs :
          session' = NewSession(feeds, <<>>, session.match_only)
    /\ seenHUP' = FALSE
    /\ pc' = resume
    /\ resume' = "main"
    /\ UNCHANGED <<argv, first_run, current, items, result, closing,
                   statefile, published, tmVars, notified, saved>>

\* setupSession: the new session keeps match_only and reads the history back
\* from disk; it starts again from the default size of the history.
Setup ==
    /\ pc = "setup"
    /\ \E feeds \in Configs, bucket \in Loaded :
          session' = NewSession(feeds, bucket, session.match_only)
    /\ seenHUP' = FALSE
    /\ pc' = resume
    /\ resume' = "main"
    /\ UNCHANGED <<argv, first_run, current, items, result, closing,
                   statefile, published, tmVars, notified, saved>>

-----------------------------------------------------------------------------
(***************************************************************************)
(* The feeds publish their items.                                          *)
(***************************************************************************)
Publish(f) ==
    /\ published[f] < Len(Stream[f])
    /\ published' = [published EXCEPT ![f] = @ + 1]
    /\ UNCHANGED <<pc, mainVars, session, flagVars, statefile, tmVars,
                   notified, saved>>

\* The steps the process takes by itself, failing saves included.
ProcessStep ==
    \/ BeginCheck \/ LeaveLoop \/ EndFeed \/ EndCheck \/ GoToSleep \/ WakeUp
    \/ FetchFails \/ (\E f \in Feeds : Fetch(f))
    \/ SkipItem \/ (\E item \in Items : HandOver(item))
    \/ ReportFailure \/ ReportSuccess \/ Record
    \/ SaveCannotOpen \/ SaveOpens \/ SaveWrites \/ SaveFails
    \/ DeferredReload \/ Setup \/ Shutdown \/ Exit

Signal == Terminate \/ HangUpDuringCheck \/ HangUp

Next ==
    \/ Start \/ ProcessStep \/ Signal
    \/ Kill \/ KillInSave
    \/ \E f \in Feeds : Publish(f)

Spec == Init /\ [][Next]_vars

(***************************************************************************)
(* The process goes on as long as it is there.  Signals that stop it at    *)
(* the few instructions between two waits do not hit them for ever.  A     *)
(* feed that is asked again and again answers some day, and Transmission   *)
(* some day acknowledges an item it is offered again and again.            *)
(***************************************************************************)
Fairness ==
    /\ WF_vars(ProcessStep)
    /\ SF_vars(BeginCheck \/ LeaveLoop \/ GoToSleep \/ DeferredReload)
    /\ \A f \in Feeds : SF_vars(Fetch(f))
    /\ \A item \in Items :
          SF_vars(HandOverAdded(item) \/ HandOverDuplicate(item))

FairSpec == Spec /\ Fairness

-----------------------------------------------------------------------------
(***************************************************************************)
(* Properties.                                                             *)
(***************************************************************************)
SessionType ==
    [feeds : Seq(Feeds), downloads : Seq(Entries), max_bucket_items : Nat,
     bucket_changed : BOOLEAN, match_only : BOOLEAN]

\* The type of every variable.
TypeOK ==
    /\ pc \in PCs
    /\ argv \in [match_only : BOOLEAN, once : BOOLEAN,
                 xmlfile : Feeds \cup {NoFile}]
    /\ session \in SessionType
    /\ first_run \in BOOLEAN
    /\ current \in Seq(Feeds)
    /\ items \in Seq(Items)
    /\ result \in {-1, 0, 1}
    /\ resume \in Idle \cup {"items", "exit"}
    /\ closing \in BOOLEAN
    /\ seenHUP \in BOOLEAN
    /\ statefile \in Seq(Entries)
    /\ published \in [Feeds -> Nat]
    /\ \A f \in Feeds : published[f] <= Len(Stream[f])
    /\ torrents \subseteq Urls
    /\ limited \subseteq Urls
    /\ notified \subseteq Urls
    /\ saved \subseteq Urls

\* addToBucket drops one entry at most and load_state takes whatever the file
\* holds, so nothing resets a history that has grown.  Still it never exceeds
\* the default size and one full document per configured feed, over any number
\* of checks, reloads, crashes and restarts, in memory or on disk.
HistoryLimit == DefaultMaxBucket + Window * MaxFeeds

HistoryBounded ==
    /\ session.max_bucket_items <= HistoryLimit
    /\ Len(session.downloads) <= HistoryLimit
    /\ Len(statefile) <= HistoryLimit

\* processRSSList records an item only once Transmission has confirmed it, so
\* every id in memory or on disk is that of a torrent Transmission holds, an
\* item that failed is never taken for done: it stays due.  (Only a line cut
\* short in the file stands for nothing.)
Held(id) == \E i \in Items : BucketId(i) = id /\ i.url \in torrents

HistoryIsTruthful ==
    UsesRPC => \A id \in Elements(session.downloads) \cup Elements(statefile) :
                  id = Torn \/ Held(id)

\* The user is told of a new download at most once per torrent: a crash before
\* the item is recorded, a lost reply or a lost history make processRSSList
\* hand the torrent over again, and Transmission then calls it a duplicate.
NotifiedOnce ==
    UsesRPC /\ pc = "result" /\ result > 0 =>
        Head(items).url \notin notified

\* The history has room for as many torrents as it has entries: no id is in it
\* twice, whatever a failed save has left for load_state.
NoDuplicateEntries ==
    \A j, k \in 1..Len(session.downloads) :
        session.downloads[j] = session.downloads[k] => j = k

\* A daemon started with --match-only never hands over a torrent, tells of one
\* or touches the state file, also after a reload has replaced its session.
MatchOnlyChangesNothing ==
    [][argv.match_only /\ pc \notin Gone =>
         UNCHANGED <<statefile, torrents, saved, notified>>]_vars

\* The history on disk, an unfinished save counting as done.
Durable == IF pc = "write" THEN session.downloads ELSE statefile

\* As long as saving and loading work, memory and disk hold the same history
\* whenever no save is due, so that a kill at any such moment loses nothing.
SaveFaults == {"torn", "open", "write", "load"}

DiskMatchesMemory ==
    Faults \cap SaveFaults = {} /\ pc \notin Gone \cup {"save", "write"}
        => statefile = session.downloads

\* Automatic keeps its promise of a durable history when saving and loading
\* work: the steps of all other kinds, kills, restarts and reloads included,
\* leave the history alone.
Promise == INSTANCE DurableHistory WITH history <- Durable
KeepsHistory == Promise!Spec

\* An item on disk stays there while its feed still lists it: it is not
\* dropped too early and then downloaded a second time.
ListedIds == UNION {{BucketId(i) : i \in Elements(Listed(f))} : f \in Feeds}

ListedIsKept ==
    [][Elements(Durable) \cap ListedIds \subseteq Elements(Durable)']_vars

\* An item that a configured feed goes on listing and that matches a filter is
\* recorded some day, whatever fails on the way, unless the daemon is stopped:
\* the failure of an item or a feed does not keep the others from their turn.
Configured(f) == \E k \in 1..Len(session.feeds) : session.feeds[k] = f

WantedIsRecorded ==
    \A f \in Feeds, i \in Items :
        pc \notin Gone /\ Configured(f)
          /\ i.wanted /\ i \in Elements(Listed(f))
          ~> \/ has_been_downloaded(session.downloads, i)
             \/ i \notin Elements(Listed(f)) \/ ~Configured(f)
             \/ closing \/ pc \in Gone

\* SIGTERM ends the daemon, also during a check or a reload.
ClosingEnds == closing ~> pc \in Gone

\* A SIGHUP caught during a check is honoured after it, or the process ends.
HangUpIsServed == seenHUP ~> ~seenHUP

-----------------------------------------------------------------------------
(***************************************************************************)
(* Why the safety properties hold: an inductive invariant in named parts.  *)
(***************************************************************************)
\* The process is saving on behalf of processRSSList, or of a reload.
Saving(places) == pc \in {"save", "write"} /\ resume \in places

\* The item at the head of the list has an answer; a document is processed.
AtAnswer == pc \in {"result", "record"}
InItem   == AtAnswer \/ Saving({"items"})
InFeed   == pc = "items" \/ InItem

\* Where the locals of the loops are needed they hold something, and the first
\* check is over once the process has come to its sleep.
ControlOK ==
    /\ InFeed => current # <<>>
    /\ InItem => items # <<>>
    /\ pc = "setup" => resume \in Idle
    /\ pc \notin Gone /\ ReadsFile => first_run
    /\ pc \in {"checked", "sleep"} => ~first_run
    /\ pc = "setup" \/ Saving(Idle) =>
          (resume \in {"checked", "sleep"} => ~first_run)

\* The history can still be enlarged only in the first check, by the documents
\* of the feeds that are left in it.
Room ==
    /\ session.max_bucket_items \in 1..HistoryLimit
    /\ Len(session.feeds) <= MaxFeeds
    /\ Len(current) <= MaxFeeds
    /\ first_run =>
         /\ pc \in {"main", "setup"} \/ Saving(Idle) =>
               session.max_bucket_items = DefaultMaxBucket
         /\ pc = "feeds" =>
               session.max_bucket_items + Window * Len(current) <= HistoryLimit
         /\ InFeed =>
               session.max_bucket_items + Window * (Len(current) - 1)
                  <= HistoryLimit

\* An item that got an answer was not in the history, and Transmission holds
\* its torrent unless the answer was an error; a success is always news.
AnswerOK ==
    /\ AtAnswer => ~has_been_downloaded(session.downloads, Head(items))
    /\ UsesRPC =>
         /\ notified \subseteq torrents
         /\ pc = "result" /\ result >= 0 => Head(items).url \in torrents
         /\ pc = "record" => Head(items).url \in torrents
         /\ NotifiedOnce

\* A list no id is twice in, torn at its end at most.
IsHistory(list) ==
    /\ \A j, k \in 1..Len(list) : list[j] = list[k] => j = k
    /\ \A k \in 1..Len(list) : list[k] = Torn => k = Len(list)

HistoriesOK == IsHistory(session.downloads) /\ IsHistory(statefile)

\* A save on behalf of processRSSList is one entry ahead of the disk, every
\* other save finds there what it is about to write.
SaveOK ==
    Faults \cap SaveFaults = {} =>
      /\ pc \notin Gone \cup {"save", "write"} => statefile = session.downloads
      /\ pc = "save" /\ resume # "items" => statefile = session.downloads
      /\ pc = "save" /\ resume = "items" =>
            LET item == Head(items)
            IN  /\ ~has_been_downloaded(statefile, item)
                /\ session.downloads = addToBucket(BucketId(item), statefile,
                                                   session.max_bucket_items)

\* A dry run hands nothing over, so its history never changes and no save of
\* it ever begins.
DryRunOK ==
    argv.match_only /\ pc \notin Gone =>
      /\ session.match_only
      /\ ~session.bucket_changed
      /\ ~AtAnswer
      /\ pc \notin {"save", "write"}

IInv ==
    /\ TypeOK /\ ControlOK /\ Room /\ HistoryBounded
    /\ AnswerOK /\ HistoryIsTruthful /\ HistoriesOK /\ SaveOK /\ DryRunOK

-----------------------------------------------------------------------------
(***************************************************************************)
(* What the documents of the repository say, and the code does not do.     *)
(***************************************************************************)
\* file.c:75: saveFile returns "0 if saving was successful, -1 otherwise", so
\* that a torrent saved to the folder is reported and recorded as handed over.
SavedIsHandedOver ==
    pc = "result" /\ Head(items).url \in saved => result >= 0
=============================================================================
