# Automatic in TLA+

Automatic is a daemon in C. It checks RSS feeds at an interval, picks the items
that match a filter, and hands their torrents to Transmission. A history of
what was handed over (the "bucket list", kept in a state file) keeps it from
downloading anything twice. This directory holds the TLA+ model of the daemon,
the configurations that model-check it, and machine-checked proofs about it.

    tlc -workers 2 -config MCAutomatic_faults.cfg MCAutomatic     # or another
    tlc -workers 2 -config MCRequests_requests.cfg MCRequests
    tlc -workers 2 -config MCStateFile_state_file.cfg MCStateFile
    tlc -workers 2 -config MCDocuments_documents.cfg MCDocuments
    tlc -workers 2 -config MCConfig_config.cfg MCConfig
    tlc -workers 2 -config MCConfig_long_name.cfg MCConfig     # violated
    tlc -workers 2 -config MCSessionSignals_quiet.cfg MCSessionSignals
    tlapm AutomaticProofs.tla       # and SessionSignalsProofs, RequestsProofs,
                                    # HandOverProofs, StateFileProofs,
                                    # DocumentsProofs, ConfigParserProofs,
                                    # Induction

Paths below are relative to `src/`; line numbers refer to the same commit.

## The system

| component | code | state | operations | modules |
|---|---|---|---|---|
| daemon loop and feed check | `src/automatic.c` `main`, `processFeed`, `processFile`, `processRSSList` | `closing`, `seenHUP`, `isRunning`, `first_run`, the locals of the loops | check all feeds, sleep, shut down | `Automatic`, `Documents` |
| download history | `src/downloads.c` | the bucket list of the session | look up by guid or URL, add with eviction | `Downloads`, `DurableHistory` |
| state file | `src/state.c` | the file on disk | truncate and write, read back | `StateFile`, `Automatic` |
| session and reload | `src/automatic.c` `session_init`, `setupSession`, `session_free` | `mySession` | build, replace, free | `SessionSignals`, `Automatic` |
| signal handlers | `src/automatic.c` `signal_handler` | the flags above | SIGTERM/SIGINT, SIGHUP | `SessionSignals`, `Automatic` |
| hand-over to Transmission | `src/automatic.c` `addTorrentToTM`, `addMagnetToTM`; `src/torrent.c`, `src/transmission.c` | what Transmission holds (external) | RPC, external program, file in a folder | `HandOver`, `Requests`, `Automatic` |
| HTTP transfers | `src/web.c` | buffers, `isMoveHeader`, `gSessionID` | GET, POST with one retry after a 409 | `WebTransfer` |
| Transmission messages | `src/json.c` | none | build requests, read answers | `Requests` |
| RSS documents | `src/xml_parser.c`, `src/feed_item.c`, `src/rss_feed.c` | the item put together, the list | extract items | `Documents` |
| filters | `src/filters.c`, `src/feed_item.c`, `src/regex.c` | none | match, rewrite URLs | `Documents`, `UrlRewriting` |
| configuration file | `src/config_parser.c` | scanner, buffers, the session being built | scan, set options | `ConfigParser`, `ConfigOptions` |
| linked lists | `src/list.c` | nodes | add, remove, reverse, free | `Lists` |
| files | `src/file.c` | files | read, save | `Documents`, `Automatic` |
| notifications | `src/prowl.c`, `src/pushover.c` | none | verify a key, send | `Requests` |
| strings and encodings | `src/utils.c`, `src/base64.c`, `src/urlcode.c` | none | pure functions | `Base64`, `UrlRewriting`, `ConfigOptions` |
| command line, daemonizing | `src/automatic.c` | options of the process | start | `Automatic` |
| logging, pid file, memwatch | `src/output.c`, `src/memwatch.c` | files | output | none |

They interact in one thread. `main` calls `processFeed` for each feed of the
session; that fetches the document (`web.c`), parses it (`xml_parser.c`) and
calls `processRSSList`, which reads the filters and the history of the session,
calls `addTorrentToTM` or `addMagnetToTM`, sends the notifications, adds to the
history and saves it. Concurrency comes from outside: signal handlers interrupt
the thread and share `mySession` and the flags with it; servers and Transmission
answer when and what they like, and Transmission may be restarted between two
requests; the process may be killed between any two steps and started again on
the state file it left.

### What is hard, and what makes each component correct

* **Saving is not atomic, and nobody looks at its result.** `save_state`
  truncates the file and rewrites it (`state.c:67`); its three callers ignore
  failure. Correct means: what is recorded is true, whatever is cut short; no id
  is there twice; without such faults, memory and disk agree whenever no save is
  due; and what is read back is what was written, up to one damaged line.
* **Hand-over and record are two steps**, and the hand-over itself is up to six
  requests. A kill, a lost reply or a lost history between them makes the daemon
  hand the torrent over again. Correct means: Transmission's "duplicate" is then
  taken for done, and the user is not told twice.
* **The history has a limit that changes.** The first check enlarges it by what
  each document lists; a reload resets it; `addToBucket` drops one entry at
  most. Correct means: it stays bounded, and nothing is dropped while its feed
  still lists it.
* **Reloads replace everything under a running loop.** Correct means: never
  during a check, not forgotten after it, the history carried over by way of
  the disk, `match_only` carried over by hand.
* **One set of buffers serves several responses.** The callbacks of `web.c` run
  for the response, the redirects before it, and the refusal (409) by which
  Transmission hands out session ids. Correct means: no write past the memory,
  no answer mixed up with another, one retry is enough.
* **Elements and characters come in any order.** The items of a feed are put
  together from elements under flags, the configuration by a scanner with three
  loops that each look for an end. Correct means: the item, and the session, are
  what the document, and the file, say.
* **Failures must not spread.** One failing item or feed must not keep the
  others from their turn, and SIGTERM must end the daemon wherever it arrives.

The list of hazards in `PROJECT.json` names each at its line, with the
properties for it, or why there is none.

## The modules

| module | what it is |
|---|---|
| `Downloads` | the operators of `downloads.c` on sequences of ids, newest first |
| `DurableHistory` | abstract specification: a history that only ever changes by one new id at its front, which may cost it the oldest |
| `Automatic` | the daemon: `main`, the check, the hand-over, saving, signals, crashes and restarts |
| `SessionSignals` | the signal handlers and the lifetime of `mySession`, at the grain at which they interrupt the loop, the shutdown, or themselves |
| `Base64` | `base64.c`: both functions, and the sizes of what they allocate |
| `WebTransfer` | `web.c`: a transfer with its callbacks, buffers, redirects and the retry; what servers answer is left open |
| `HandOver` | abstract specification: Transmission takes a torrent whole, once or not at all, and what is reported agrees with it |
| `Requests` | composes `WebTransfer` with the requests of the daemon (`json.c`, `torrent.c`, `prowl.c`, `pushover.c`), the servers, Transmission and its restarts, kills |
| `Lists` | `list.c` on a heap of addresses |
| `StateFile` | composes `Lists` with `addToBucket`, `save_state` and `load_state` on a file of characters |
| `UrlRewriting` | `regex.c`, `url_encode_whitespace`, the file name of a torrent |
| `Documents` | `parse_xmldata` and `processRSSList` on one document: from elements to what is fetched and saved |
| `ConfigOptions` | `set_option` and the parsing of values |
| `ConfigParser` | `parse_config_file`, character by character |
| `MC...` | small instances for TLC |
| `...Proofs` | the theorems; those about `Base64` are in `HandOverProofs` |
| `Induction` | induction on the natural numbers for a set, on which the proofs about recursive functions rest |

The modules meet where one takes for granted what another shows. `Automatic`
uses the history as `Downloads` speaks of it, and `StateFile` shows that lists in
memory and lines in a file do that (`KeepsBucket`, `RestoredIsSaved`). It takes a
hand-over as one step with the outcomes that `HandOver` allows, and `Requests`
implements `HandOver`. It takes a reload as one step, and `SessionSignals` says
when that is so. It takes an item as wanted or not, and `Documents` says which
are and what is asked for.

A definition whose comment begins with *Seeded bug* stands before the
definition it spoils. No other definition uses it: the mutants of `PROJECT.json`
put it in the place of the original, and the property named there must fail.

### How `Automatic` corresponds to the code

`pc` names the place in the code (the header of the module lists them). The
variables are those of the program: `session` is `mySession` with the fields
that the control flow reads, `first_run`, `current` and `items` are the loop
variables, `result` is the answer of the hand-over, `closing` and `seenHUP` are
the flags. `isRunning` is a function of `pc`: it is set exactly in `Checking` and
in a save that a check makes. `resume` says which of its callers `save_state`
returns to. Outside the process there are `statefile`, `published` (how far
each feed has come), `torrents` and `limited` (in Transmission), `saved` (the
torrent folder) and `notified`.

| actions | code |
|---|---|
| `Start`, `Shutdown`, `Exit`, `EndProcess` | `main` up to the loop, `shutdown_daemon`, `session_free` |
| `BeginCheck`, `EndCheck`, `LeaveLoop`, `GoToSleep`, `WakeUp`, `DeferredReload` | the loop of `main` |
| `Fetch`, `FetchFails`, `EndFeed` | `processFeed`, `processFile` |
| `SkipItem`, `HandOver...`, `ReportFailure`, `ReportSuccess`, `Record` | the body of the loop of `processRSSList`, with `addTorrentToTM`, `addMagnetToTM`, `sendTransmissionRPC`, `changeUploadSpeed`, `saveFile` |
| `SaveCannotOpen`, `SaveOpens`, `SaveWrites`, `SaveFails` | `save_state`: a failing `fopen`, the truncation, the writing, its failure |
| `Terminate`, `HangUp`, `HangUpDuringCheck`, `Reload`, `RejectReload`, `Setup` | `signal_handler`, `setupSession` |
| `Kill`, `KillInSave`, `Publish` | the environment |

Abstractions. An item is a record of its guid, its URL, whether that is a
magnet link, and whether it is *wanted*: it has a title and a URL, and a filter
matches. A list of the program is a sequence of what its nodes hold. A fetch
or a hand-over is one step with every outcome the code tells apart, a lost reply
included. A cut-short save leaves the first entries, the last one perhaps torn;
a torn line is the value `Torn`, assumed to be nobody's id. Transmission and
the folder keep what they are given. What counts as two torrents for
Transmission is told by their URLs.

### How `SessionSignals` corresponds to the code

`Automatic` takes a reload as one step, between steps of the loop. This module
looks inside. A session is an address; it is `allocated` by `session_init` and
`freed` by `session_free`. Two actors run the steps of `signal_handler`: `main`,
which calls it after a check in which SIGHUP was noted (`automatic.c:795`), and
`handler`, an interrupt. `signal` blocks a signal in its own handler
(`automatic.c:392`, the semantics of the C library the daemon is built with),
so that an interrupt is not interrupted by SIGHUP again, but the call by `main`
is. `main` runs only while `pc["handler"]` is `"idle"`.

| actions | code |
|---|---|
| `NoteHangUp`, `BeginReload`, `SessionInit`, `ParseConfig`, `ParseFails`, `DropSession`, `ClearFlag` | `signal_handler` |
| `CopySettings`, `SaveOld`, `FreeOld`, `Install`, `VerifyKey`, `CallLoadState`, `LoadState`, `PrintSettings`, `RPCVersion` | `setupSession` and what it calls |
| `TestClosing` ... `WakeUp`, `CallShutdown` | the loop of `main` |
| `SaveLast`, `FreeLast`, `Exit` | `shutdown_daemon` |
| `HangUp`, `Terminate`, `EditConfig` | the environment |
| `Misuse` | a step that would read from, or free, what is freed: the process is `"corrupt"`, anything may follow |

What counts is when an address is taken: `arg` is the session that was passed to
the call in progress, which may be another than `mySession` when the call goes
on. The requests to Prowl and Transmission in `setupSession` wait for the
network, so the places `"load"` and `"ask"` last seconds. `config`, `asked` and
`version` count the edits of the configuration: the last one, the one that was
there at the last SIGHUP, and the one a session was read from.

`Quiet` is what is assumed of the environment: the places of `main` at which
nobody sends SIGHUP. With `Anytime` (none) two properties hold; the others need
the eleven `Windows`. That set is minimal: TLC finds a violation when any one
of its places is taken out (`"copy"`: `ReloadHonoured`, `"verify"`:
`HistoryReadOnce`, every other: `SessionsAreAlive`). Outside the windows,
what `Automatic` assumes of a reload (all or nothing, never during a check)
is what `SessionSignals` shows.

### How `WebTransfer` and `Requests` correspond to the code

`step` is where the one transfer is: on its way, receiving headers or body, in
`write_data_callback`, over, returned. `webdata` is the struct of the callbacks;
`data` is the memory itself, a sequence in which `Junk` stands for bytes nobody
has written, so that what is copied out of it is what the code would copy.

| actions | code |
|---|---|
| `getHTTPData`, `sendHTTPData` | the functions up to `curl_easy_perform` |
| `HeaderLine` with `SizedBy`, `FirstSessionId`, `SessionIdAfter` | `write_header_callback`, `parse_Transmission_response` |
| `EndOfHeaders`, `Receive`, `Complete`, `Break` | libcurl (external): redirects, chunks, the end, a failure |
| `Receive`, `Double`, `Store` | `write_data_callback`: the buffer of a first chunk, one doubling, the copy |
| `Retry`, `ReturnNULL`, `ReturnResponse` | the end of the two functions |
| `VerifyProwlAPIKey`, `AskRPCVersion`, `SetUp` | what `setupSession` asks for |
| `downloadTorrent`, `DownloadFails`, `uploadTorrent`, `uploadMagnet`, `Uploaded`, `SpeedChanged`, `Notified` | `addTorrentToTM`, `addMagnetToTM`, `uploadTorrent`, `changeUploadSpeed`, the notifications of `processRSSList`; `Conclude` is their return |
| `Server`, `ConnectionBreaks`, `NewSession`, `Restart` | the environment: web servers, Prowl, Pushover, Transmission and its restarts, a kill |

Abstractions. A byte is a number, a header line a name and a value, the text of
an answer a sequence of fields, each one symbol; what JSON, `regex.c` and
`strtol` do with the text is which field is found. `LimitKey` is the choice of
`makeChangeUpSpeedJSON` between the names that the limit has before and since
RPC version 5; Transmission runs with one of `Versions` and `Knows` one of the
names, as `json.c:206` has it. Every server may answer, may
refuse, or may let the connection break at any point; Transmission may have taken
what it was sent all the same. Allocations do not fail.

### How `StateFile` and `Lists` correspond to the code

A heap maps allocated addresses to nodes or texts, and an operation of `list.c`
is an operator on heap and head. An allocation takes the least address that is
free, so that there always is one; a loop over the nodes is a recursive function
of the number of its turns (`Walk`). `am_free` takes an address away: what would
be used after it is outside the domain. `addToBucket`, `BeginSave`, `SaveEntry`,
`EndSave`, `BeginLoad`, `LoadLine`, `EndLoad`, `SessionFree` are `downloads.c`,
`save_state`, `load_state` and the freeing of the list; `EndSave` is any return
of `save_state`, one that nobody notices after a failing `fprintf` included;
`Kill` may come anywhere. `saved` and `whole` are history variables.

### How `Documents` and `UrlRewriting` correspond to the code

The tree of libxml is the input: item nodes are sequences of elements with a
text and attributes. `ReadTtl`, `NextNode`, `ReadTitle`, `ReadLink`,
`ReadCategory`, `ReadGuid`, `ReadEnclosure`, `ReadOther`, `EndNode`,
`EndDocument` are `xml_parser.c`, one element at a time; `PassOver`, `Match`,
`Known`, `AddMagnet`, `FetchFails`, `FetchForTransmission`, `FetchAndSave`,
`EndList` are the loop of `processRSSList` with `isMatch`, the rewriting of URLs and
`saveFile`. `item`, `name_set`, `url_set`, `download_folder` and `download_url`
are the variables that outlive a step; a freed pointer is the value `FREED`. What
a regular expression matches, and which groups it captures, are constants
(PCRE), and so is what a server has under a URL (`Answer`, a `Page` if anything).
A text is a sequence of words; `performRegexReplace` goes over it
character by character, `Replacement`, its reference, word by word. What the
loop makes is a sequence with two marks in it, `FAIL` where the flag is set and
`STOP` where the loop ends early; how many characters of it were written
(`Size`) decides whether they fit into `substitute[MAX_SUBST_LEN]`, 1024 in the
code and 6 in the run. Nothing in the code compares the two: `Overrun`
stands for what does not fit, the document ends there, and nothing is said of
what the process does afterwards.

### How `ConfigParser` and `ConfigOptions` correspond to the code

`pc` is the loop of `parse_config_file` that runs; every step reads one
character, or decides at one what to do next. `applied` records the calls of
`set_option`, which is an operator on the session, with the width of each number.
A character is a member of a small alphabet that has one for every kind the
scanner tells apart, `Control` for those that are neither printable nor blank
(a tab is a blank like any other); a keyword, or a run of digits, is one
character, and `Numerals` says which number it stands for.

Three places stand for what a C program must not do, and nothing is said of it
afterwards. At `"stray"` memory was read that is not the text's. At `"overrun"`
memory was written behind a buffer: the `MAX_OPT_LEN + 1` places of a name, or
the `MAXPATHLEN` places of a path below the home folder. At `"aborted"` an
assertion of `set_option` failed: `AssertsPath` (`utils.c:172`), or an empty URL
with cookies to look for (`config_parser.c:337`). A release build has no
assertions (`NDEBUG`, `configure.ac:23`), so both outcomes of each are steps of
the model.

The reference is a grammar: `Readings` are the ways to cut a text into comments,
blanks, names and values, `Meanings` the settings each gives.

## The runs

Those of `MCAutomatic` have `Uint16` = 65536 and default sizes of the history of
1 or 3 instead of 30, so that eviction happens after two to four items.

| run | instance | shows |
|---|---|---|
| `faults` | one feed of four items, one unwanted, Window 1, all faults, every command line, RPC, upload limit | `TypeOK`, `HistoryBounded`, `HistoryIsTruthful`, `NotifiedOnce`, `NoDuplicateEntries`, `MatchOnlyChangesNothing` |
| `durable` | two feeds of four items and one, Window 2, default size 3, reloads between one and both of them, kills, no Transmission | `DiskMatchesMemory`, that the daemon implements `DurableHistory` (`KeepsHistory`), `ListedIsKept` |
| `progress` | two items, failing fetches, hand-overs, saves and loads, fairness | `WantedIsRecorded`, `ClosingEnds`, `HangUpIsServed` |
| `save_file` | no faults beyond failing requests | violates what a comment says, see below |
| `signals` | three SIGHUPs at any time, two edits | `NoSessionLeaks`, `CheckIsUndisturbed` |
| `quiet` | two SIGHUPs outside the windows, two edits, fairness | `SessionsAreAlive`, `HistoryReadOnce`, `ReloadHonoured`, `HangUpIsAnswered` |
| `nested_reload` | two SIGHUPs at any time | violates `SessionsAreAlive` |
| `requests` | two hand-overs out of seven pages and a magnet link, RPC versions 4 and 5, two session ids, one redirect, chunks of up to three bytes, buffers of two, fairness | `WritesFit`, `AnswerIsWhole`, `RefusedTwiceMeansRestart`, `LimitIsSet`, `EncodingFits`, that the requests implement `HandOver` (`HandsOverAsPromised`), `CallsReturn` |
| `state_file` | lists of up to three entries (more when read back), three ids (one fits, one does not and has a line break, one is empty), lines of 4, maxima 0 to 2, kills and cut-short saves | `HeapInOrder`, `ListsAreSequences`, `KeepsBucket`, `RestoredIsSaved` |
| `config` | every file of up to five of ten characters; files written down in every style from the session that is meant; numbers, names, values and paths at their limits and one beyond | `TypeOK`, `StaysInside`, `ParsesAsGrammar`, `WrittenIsRead`, `NumbersAreKept`, `ScansForward` |
| `long_name` | the same with files of up to three characters | violates `LongNamesAreErrors`, see below |
| `documents` | every item node of up to four of eleven elements; every document of up to three of eight whole nodes, under two lists of filters and five feeds with their patterns (up to two nodes under more, with replacements at the edges of what is allowed, and some that fill their buffer to the last place or by one character more) | `ItemsAsWritten`, `AbortsAreKnown`, `CallsAreDue`, `RewritesAsWritten`, `FilesAreWhole` |

Why the bounds are enough. Items through a window of one make every item leave
its feed, and a size of one makes every item push another one out. In `durable`,
four items through a window of two, with a size of three (2 * Window - 1), are
the sharp case of `ListedIsKept`: with a size of two TLC finds it violated,
because an item may be recorded late, when it failed at first, and be pushed out
by the items recorded before it. The first check may come before anything is
published, so the size is enough without growing. Two feeds with one of them
optional is the smallest instance in which a reload changes the list that is
checked. No variable needs a constraint: the streams are finite and the history
is bounded.

Two SIGHUPs are enough for one that is noted in a check and one that interrupts
the reload `main` then does; in `signals` a third one stays pending meanwhile.
There is one more address than signals, so that `session_init` always finds one.

In `requests` a buffer of two bytes is doubled once or twice by a body of four in
chunks of one to three; the lengths announced are right, too small (a compressed
body, a redirect) and missing; two session ids give a refusal and a restart
between any two requests, and the second hand-over meets what the first one left
(buffers, `isMoveHeader`, a torrent that is there already). The bodies have
lengths 0, 1, 2 and 4, so every remainder modulo 3. Deadlock is not checked
there: after the last hand-over, `MaxOffers`, nothing is left to do.

In `state_file` an id of two characters fits a line buffer of four (with the
line break and the NUL), one of four does not and comes back as several. One
entry more than the largest maximum can be there, and the largest list is read
back as more.

In `config` the ten characters are one of each kind that the scanner tells
apart, so five of them reach every transition between its loops, with a comment,
an option and the end of the file in every order; longer files are those that
are written from what is meant. The properties about all files, however long, are
proved. In `documents` four elements are two of one kind in every order with
two of others, as many as the flags can tell apart; three whole nodes are two
torrents of one name with another item between them, which is what the
variables that outlive an item, and the file that is not truncated, need.

Fairness (`quiet`): the thread goes on, weak fairness of the steps of `main` and
of those of the handler. One thread, and every request has a timeout.

Fairness (`requests`): weak fairness of the transfer, of the daemon, and of
"the server answers or the connection breaks". One thread, no locks, and the
timeouts set on every curl handle end a transfer that nobody answers. Restarts
of Transmission are finitely many, by `MaxSessions`; nothing keeps a server from
refusing every request.

Fairness (`progress`). The process takes its next step (weak fairness of
`ProcessStep`: one thread, no locks). At the three places where a SIGHUP makes
the process reload rather than go on, going on is strongly fair: signals do not
arrive for ever at the few instructions between two waits. A feed that is asked
again and again answers some day, and Transmission some day acknowledges an item
it is offered again and again; both are environment assumptions, without them
nothing can be promised to a user. Nothing is assumed of saving and loading,
which may fail for ever. Kills are left out of this run (a daemon killed for
ever makes no progress), and so is the assertion.

### Where documents and code disagree

* `save_file`: `file.c:75` says `saveFile` returns 0 on success. It returns the
  size, the caller tests for 0, and a saved torrent counts as failed and is
  fetched again for ever.
* `nested_reload`: `automatic.c:324` says that a reload frees the memory of the
  previous session "properly". `main` calls the handler with `isRunning`
  cleared and SIGHUP not blocked; a second SIGHUP in there, or in
  `shutdown_daemon`, frees the session under the interrupted code.
* `long_name`: `config_parser.c:605` calls a name of `MAX_OPT_LEN` characters or
  more an error, and `:530` promises -1 for one. The loop that sets the flag
  (`:601-608`) does not end there: a name of `MAX_OPT_LEN + 2` characters is
  written behind `opt[MAX_OPT_LEN + 1]` (`:535`) before anything is returned.

Seen while modelling, and without a run of their own:

* A kill inside `save_state` loses older entries, although `TODO:6` has "save
  state file after each successful download to survive a kill -9" as done
  (`ListedIsKept` fails with the fault `"torn"`).
* `ChangeLog:113` promises room for "as many downloads as there are items in all
  feeds combined". Feeds that fail in the first check, or that a reload adds,
  get none. A reload resets the maximum and keeps the list, and
  `addToBucket` drops one entry at most, so the list is not "kept to
  maxBucketItems" (`downloads.c:86`).
* `torrent.c:140` asserts a packet. A torrent of no bytes has none.
* A SIGHUP inside the reload that `main` calls is served first, and then the
  older configuration that the interrupted reload has read takes its place
  (`ReloadHonoured` fails in the instance of `nested_reload`), where
  `ChangeLog:20` promises a reload "when SIGHUP is received".
* The answer to the request for an upload limit is ignored (`automatic.c:494`),
  and with an RPC version of 0 none is sent, so not "each new torrent" has one
  (`ChangeLog:93`). `LimitIsSet` says when it has.
* An id that fills the line buffer, or holds a line break, comes back from the
  state file as something else (`state.c:114`); `RestoredIsSaved` is about the
  others.
* An interval of 256 minutes is stored as 0 (`config_parser.c:469`), an upload
  limit of 32768 as a negative number (`:453`). A comment that the end of the
  file cuts off is read on behind the text (`:591`); so is a number option with
  an empty value. A file that ends inside an option is read without an error.
* A port that is refused is said to be "reverting to default"
  (`config_parser.c:462`), and the bounds to be 1025 and 65535. The session keeps
  the port it has, which may be one given earlier in the file, and 65535 is
  refused as well. `NumbersAreKept` says what the code does: the last
  port of 1025 to 65534, or the default if there is none.
* `utils.c:172` asserts that the home folder and the path below it are shorter
  than the buffer, and asks for one character less than there is room for.
  In a build without assertions the path overruns it. With assertions, a feed
  whose URL is a pair of quotes ends the program (`config_parser.c:337`).
* `performRegexReplace` builds its result in `substitute[MAX_SUBST_LEN]` and
  nowhere compares its position with the size (`regex.c:186`, `:241`, `:250`).
  `RewritesAsWritten` says exactly when that is an overrun.
* `base64_decode` allocates three bytes for every four characters, and two more.
  A text that leaves three letters over at its very end makes two bytes of them
  and a NUL, one too many (`base64.c:129`, `:152-169`). Only its tests call it.
* An enclosure with both a type and a content attribute fails the assertion of
  `getNodeText`; an empty `ttl` ends in `atoi` of NULL (`AbortsAreKnown`).
* Of two placeholders side by side in a replacement the second is copied as it
  is (`regex.c:250`).
* `saveFile` does not truncate: a shorter torrent of the same name leaves the
  end of a longer one behind it (`file.c:85`; `FilesAreWhole`).

## The proofs

Each module of proofs shows its theorems for every value of the constants that
satisfies the named assumptions of its module.

### `AutomaticProofs`

| theorem | states |
|---|---|
| `Invariance` | `Spec => []IInv` |
| `TypeCorrect`, `HistoryIsBounded`, `HistoryTellsTheTruth`, `NotifiedAtMostOnce`, `HistoryHasNoDuplicates`, `DiskAgreesWithMemory` | the safety invariants of the runs |
| `MatchOnlyIsADryRun` | the action property of the run `faults` |
| `DaemonKeepsHistory` | if none of the save faults occurs, `Automatic` implements `DurableHistory` |
| `ListedStays` | the action property of the run `durable`, `ListedIsKept`, for one feed whose items have different ids and a history of at least 2 * Window - 1, if none of the save faults occurs |

The assumptions: every item has a URL and no id is `Torn`
(`ItemsAssumption`); configurations name existing feeds, `MaxFeeds` of them at
most (`FeedsAssumption`); the settings have their types; and the default size
plus one document per feed fits into the 16 bits of `max_bucket_items`
(`BucketAssumption`, which is what rules out the wrap-around at
`automatic.c:655`).

The inductive invariant. No safety property is inductive as it stands.

* `ControlOK` says that the locals hold something where the loops use them, and
  that the first check is over once the process has slept.
* `HistoryBounded` needs `Room`: in the first check, the size so far plus a
  document for each feed that is left does not exceed the limit. A reload inside
  the first check is impossible, which is why the reset of the size does no harm.
* `HistoryIsTruthful` needs `AnswerOK`: between the answer and the record
  Transmission holds the torrent of the item.
* `NotifiedOnce` (part of `AnswerOK`) needs that everything notified is held by
  Transmission, so that "added" can only be said of what was not notified.
* `NoDuplicateEntries` needs `HistoriesOK` of memory *and* disk, with a torn
  line only at the end of either, because a reload or a restart reads back what
  a failed save has left; and that an item with an answer is not in the history.
* `DiskMatchesMemory` needs `SaveOK`: a save for `processRSSList` is one
  `addToBucket` ahead of the disk, every other save finds there what it writes.
* `MatchOnlyChangesNothing` needs `DryRunOK`: the session of a dry run has
  `match_only` set and an unchanged history.

Each part has a lemma that every step preserves it. `ListsStep` says once and
for all which steps touch the two lists. The refinement maps the history to
`Durable`, the file on disk with an unfinished save counted as done: the step that
opens the file to save a record is `Remember`, every other step is a stutter.
`DurableStep` singles out that step; both `DaemonKeepsHistory` and `ListedStays`
rest on it.

`ListedStays`. An entry is dropped only by a record, and the oldest one at that.
The invariant `Kept` adds to `IInv` that memory and disk are `IsRecent`: they know
only what was published, and no entry stands in front of one that was published a
window or more after it (`WithinWindow`: a document lists `Window` items, and an
item is recorded only while some document lists it); and that the items left in
a check end a document that was fetched when the history knew nothing newer
(`Document`). So the entries in front of one that is still listed were published
less than `Window` before it or less than `Window` after it. By `IdsDiffer` they
are different, `FewAround` counts them with the pigeonhole principle, and
together with it they are at most 2 * Window - 1. The hypotheses are the
conditions under which the code keeps what is listed, and none can be left out: a
second feed may publish any number of items while the first lists its own, an id
that is published twice is listed again after any time, and with a size of
2 * Window - 2 TLC finds the violation. `AM_DEFAULT_MAXBUCKET`, 30, is enough for
documents of up to 15 items; the run `durable` is the tight case, 3 for documents
of 2.

### `SessionSignalsProofs`

For any set of addresses and any number of signals and edits:

| theorem | states |
|---|---|
| `SignalsInvariant`, `ChecksAreUndisturbed`, `SessionsDoNotLeak` | `CheckIsUndisturbed` and `NoSessionLeaks` hold for signals at any time |
| `QuietInvariant`, `SessionsStayAlive`, `HistoryIsReadOnce`, `ReloadsAreHonoured` | if `Windows \subseteq Quiet`, so do `SessionsAreAlive`, `HistoryReadOnce`, `ReloadHonoured` |

`SignalsInv` says who refers to each session that is not freed: `mySession`, or
one of the two reloads, and never two of them; that `mySession` is freed only
between `session_free` and the assignment after it, or at the very end; and
that `isRunning` is set in every check. `QuietInv` adds that what `main` has
passed to a call is still `mySession`, that a session has no history before
`load_state` runs for it, and where the knowledge of a SIGHUP is at each place:
in the session, in a handler that will run, in `pending`, or in `seenHUP`.
The assumption on `Quiet` is used in `WorldQuiet` only.

### `RequestsProofs`, `HandOverProofs`

| theorem | states |
|---|---|
| `DecodesWhatWasEncoded`, `BuffersAreLargeEnough` | `base64_decode` gives back what `base64_encode` was given; `base64_encode` allocates enough for any bytes, `base64_decode` for any text but one that leaves three letters over at its end |
| `TransfersInvariant`, `WritesAlwaysFit`, `AnswersAreWhole` | `WritesFit` and `AnswerIsWhole`, for bodies and chunks of any length |
| `OneRetryIsEnough`, `LimitsAreSet` | `RefusedTwiceMeansRestart` and `LimitIsSet`, for any number of restarts |
| `HandOverKeepsPromise`, `EncodingsFit` | `Requests` implements `HandOver`; `EncodingFits` |

Every safety property of the run `requests` is proved. The assumptions: a buffer
and a chunk have at least one byte (`SizesAssumption`); pages are what web
servers send, codes, header lines and bytes, of any number and length
(`PagesAssumption`); a magnet link is not empty (`MagnetsAssumption`); the RPC
version of Transmission is 1 to 127 (`VersionsAssumption`), what the field of
the session has room for.

* `WebInv` strengthens the two properties of the buffers. `Sized`: the buffer is
  as large as it claims, but while `Double` goes on. `Stores`: what is in the
  buffer up to `buffer_pos` is the beginning of the body that arrives, which a
  header line, by freeing and sizing anew, does not disturb, because nothing
  has been stored before the headers are over.
* `RetryInv` says where the new session id is after a first refusal: in a
  header line to come, in `gSessionID`, in the request that is repeated, unless
  Transmission was restarted meanwhile (`Told`).
* `VersionInv`: the version the daemon knows is 0, when it could not ask, or
  that of this Transmission; while it asks, the answer on its way says so.
* `LimitInv` follows the request for the limit: its packet names the torrent
  just added and has the key of the version known, hence (`VersionInv`) one that
  Transmission knows, and an answer other than a 409 means that it is limited.
* `HandOverInv` follows a torrent: what is sent encodes the document
  (`Encodes`, by `DecodesWhatWasEncoded`), what is offered has not been taken
  unless `taken`, and the answer on its way, or what was returned of it, agrees
  with what Transmission holds. The refinement maps a hand-over to the time
  between the upload and its conclusion; the five kinds of `PromiseStep` are the
  steps of `HandOver` and the stutter.

### `ConfigParserProofs`

`ScannerStaysInside` and `ScannerScansForward` prove `StaysInside` and
`ScansForward` for files of any length over any characters. The strengthening,
`Scanning`, says at each `pc` that the position is inside the text, where the
comment that is being skipped began, and which setting was last applied. The NUL
behind the text is in no text (`ParserAssumption`), which is what stops every
loop but the one over comments.

`TypesAreKept` proves `TypeOK`, with `TypeInv`: what is in the buffers of a name
and a value fits, and every number fits its field, whatever `set_option` is
called with. That does not mean that the code writes nothing else: a character
that has no place in the buffer of a name ends the scan at `"overrun"`, and
`StaysInside` says that this, and a path that is too long, is what leads there.
`LastNumberIsKept` proves `NumbersAreKept`, also for numbers that do not fit
their fields, with `KeepInv`, which says it of the settings applied so far, and
of a session that the parser has not given up: one more setting is the last of
its name, or leaves the last one what it was (`SetOptionSets`).

`ScannerParsesAsGrammar` proves `ParsesAsGrammar` for files of any length
(`GrammarSize` is any number) and buffers of any size. Three steps lead there.
`Readings` is a function by recursion on the length of what is read; that it
exists and satisfies its equation is shown by `BoundedInduction`
(`ReadingsAre`). The pieces of the grammar, sequences cut out of sequences,
become statements about places in the file (`BlankIsAt`, `ValueIsAt`,
`SettingIsAt`, `UnfinishedIsAt`). The invariant, `GrammarInv`, says for each
`pc` what the scanner knows of the piece it is in: where it began, its name, the
part of its value that is in the buffer (`ScannedAt`).

That alone is not inductive. A file has been read when *some* reading ends in
a rest, so a scanner that gives up must know that there is none, also none that
cuts the text where the scanner did not. Hence `Begun`: up to the place b where
the piece began there is one reading only, what was applied, and whatever else
was begun before b ended before b (`Solid`). What begins at b then has one end
(`EndsOnly`: `CommentEnds`, `OnlyValue`) or none (`NoName`, `NoEquals`, a value
that does not close), and nothing that is read ends inside of it
(`NothingInside`). It follows that the grammar, which says nothing of the order
in which its pieces are tried, is not ambiguous on the files that are read.

### `StateFileProofs`

| theorem | states |
|---|---|
| `MemoryInOrder`, `OperationsOnLists`, `BucketInMemory` | `HeapInOrder`, `ListsAreSequences`, `KeepsBucket` |
| `RestoredAsSaved` | `RestoredIsSaved` |

For any ids that are texts, any maxima, and any length of a line above 2
(`FileAssumption`). `MemoryInv` is one fact about memory, `InOrder` (the list
holds some sequence of texts, `Holds`, and nothing else is allocated), with where
the program is (`Places`) and the type of the file (`Characters`). `Holds` names
the addresses of the nodes and of their texts, all of them different, so that
each operation of `list.c` has one lemma that says what it makes of `Holds`
(`HeadHolds`, `TailHolds`, `FrontHolds`, `RestHolds`, `ReverseHolds`,
`FreeHolds`); the lemmas about loops go by induction on their turns.

`FileInv` says what the file is at each place: a beginning of the lines of the
first k entries of `saved` (`Written`, with the places `off` at which they end),
all of them if `whole`; while a save goes on, k is where `current` stands. While
the file is read, the list has the entries whose lines lie before `place`, or,
at the end of a file that was cut short, in addition the beginning of the next
(`ReadSoFar`). A cut at any character keeps `Written`, which is why neither a
kill nor a failing write needs a case of its own.

### `DocumentsProofs`

| theorem | states |
|---|---|
| `ReadingInvariant` | `Spec => []Reading` |
| `ItemsAreRead`, `AbortsAreFew` | `ItemsAsWritten`, `AbortsAreKnown` |
| `CallsAreMade` | `CallsAreDue` |
| `FilesHoldTorrents` | `FilesAreWhole` |
| `RewritesAreWritten` | `RewritesAsWritten` |

For any documents and filters of the right shape (`InputsAssumption`), any
regular expressions that capture texts (`CapturesAssumption`: groups are pieces
of a URL, of any length, and the model's marks are none of them), a buffer for
replacements of any size (`SubstAssumption`) and any servers.
`Reading`: the item under construction is
what the elements before `child` describe (`Start`), its flags say which fields
are set, and the list is that of the nodes before `i`, newest first.
`ElementByElement` is the core: one more element changes the description of a
node as the code changes the item. `Doing`: at each item p of the list the
deeds so far are those due for the wanted items before p, in order; and
`download_url`, which outlives an item, is never anything but NULL where it is
looked at, since a feed either rewrites every URL or none. `Filing`: a file is
never longer than the longest torrent that was saved, or begun, under its name,
which is what makes a write that does not truncate a whole one.

`RewritesAreWritten` needs no invariant of its own, but a proof about
`performRegexReplace`: two recursions that cut the same text in different places
agree. `SubstitutionTurns` turns the loop into a function with one value for
every place of the text; `WordIsPut` says, for each kind of word (a character,
an escape, a placeholder), that the value at its first place is what becomes of
the word, followed by the value behind it, and at the end of the text by the
NUL that a placeholder takes along (`TakesEnd`); `LoopGoesOn` is the induction
over the words. What is made is then cut at its marks: `MarkOfParts` finds a
mark in the whole when there is one in a part; `GoodAreMade` and `BadStops` count
the characters that are written when every group is there, and when the
first that is not ends the loop (`SizeUpTo`). `CleanIsReplaced` compares that
count with the buffer, on both sides of the equation, which gives the exact
condition of the overrun. `IsClean` says of which replacements this holds, and
why not of all: a placeholder takes every digit behind it, and a backslash right
behind a placeholder stays one.

### What is only model-checked

Liveness under fairness is out of the prover's reach: `WantedIsRecorded`,
`ClosingEnds`, `HangUpIsServed`, `HangUpIsAnswered`, `CallsReturn`.

Induction over data is within its reach as far as a set can state the claim: the
library's induction theorems take an operator, which no backend instantiates,
but `SetInduction` (from the least element of a well-founded order) takes a set,
and serves for loops and recursive functions. Left to TLC is one safety
property, `WrittenIsRead`: the session that is `meant` is known to `MCConfig`
alone, which writes the files. For every value of `Inputs` the property would
have to be assumed of them; what can be said of any file is `ParsesAsGrammar`.

## What is not modelled, and what could come next

Limits, on purpose.

* `Automatic`: a SIGHUP inside `shutdown_daemon` or inside the deferred reload
  (that is in `SessionSignals`); statefile, folders and Transmission settings
  that change in a reload; signals before `setup_signals`.
* The runs of `Automatic` use RPC (`faults`, `progress`) or no Transmission
  (`durable`, `save_file`). The external program differs from the latter by the
  file that is removed and by failing; the theorems cover it.
* `SessionSignals`: a signal in the middle of one C expression, or between the
  loads and stores of one; two saves that interleave byte by byte; what is in a
  session besides its history and its configuration.
* `WebTransfer`, `Requests`: a Transmission that is upgraded while the daemon
  runs (it asks for the RPC version only when it is set up); allocations
  that fail, the options of a handle and handles that are not closed
  (`automatic.c:644`), the length of timeouts.
* `Documents`, `ConfigParser`: anything after an overrun or a stray read.
* `Documents`: the namespaces of elements; a document that is not well-formed is
  a fetch that fails.
* `ConfigParser`: a file that changes between `stat` and `fread`.

Not modelled at all: `memwatch.c` (third-party, not in a normal build);
`output.c`, which has no state that is read back; `readargs` and the two forks;
`url_encode` and `url_decode`, which nothing in the daemon calls; the
regular expressions themselves (PCRE), the reading of XML (libxml2), HTTP
(libcurl). The exit status of the external program (`transmission.c:90`) is not
modelled, since nothing gets that far: see `save_file`.

Next: that `StateFile` implements the save and
load of `Automatic`; `readargs`; handles of libcurl as a resource.
