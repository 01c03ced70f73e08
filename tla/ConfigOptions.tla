--------------------------- MODULE ConfigOptions ---------------------------
(***************************************************************************)
(* What the value of an option does to a session: set_option of            *)
(* src/config_parser.c, what it calls there, and the path helpers of       *)
(* src/utils.c.  A text is a sequence of characters; a character is a      *)
(* string, and a keyword is one character, as is a run of digits.          *)
(***************************************************************************)
EXTENDS SequencesExt, Integers

CONSTANTS
    MAXPATHLEN,
    Home,           \* the home folder, a text
    Numerals        \* the numbers that the runs of digits stand for

ASSUME PathAssumption ==
    /\ MAXPATHLEN \in Nat
    /\ Home \in Seq(STRING)
    /\ Numerals \in [DOMAIN Numerals -> Nat]

Nl == "\n"
Quote == "\""
Backslash == "\\"

NULL == <<"NULL">>       \* no text; the empty text is <<>>

IsSpace(c) == c \in {Nl, " "}

IsQuote(c) == c \in {Quote, "'"}

Begins(text, c) == Len(text) > 0 /\ text[1] = c

am_strdup(text) == IF text = <<>> THEN NULL ELSE text

\* trim: the spaces at both ends, and then one quote at either end.
trim(str) ==
    LET solid == {k \in 1..Len(str) : ~IsSpace(str[k])}
        from  == Min(solid) + (IF IsQuote(str[Min(solid)]) THEN 1 ELSE 0)
        end   == Max({from} \cup solid)
    IN  IF str = NULL \/ solid = {} \/ from > Len(str) THEN NULL
        ELSE SubSeq(str, from, IF IsQuote(str[end]) THEN end - 1 ELSE end)

\* parseUInt.  Without a text it reads through a null pointer.
parseUInt(str) ==
    LET digits == trim(str) IN
    IF Len(digits) = 1 /\ digits[1] \in DOMAIN Numerals
         /\ Numerals[digits[1]] > 0
    THEN Numerals[digits[1]]
    ELSE -1

-----------------------------------------------------------------------------
(***************************************************************************)
(* Paths.                                                                  *)
(***************************************************************************)
IsBelowHome(path) == Len(path) > 2 /\ path[1] = "~" /\ path[2] = "/"

\* Two characters are too short for a path.
resolve_path(path) ==
    CASE Len(path) <= 2    -> NULL
      [] IsBelowHome(path) -> Home \o Tail(path)
      [] OTHER             -> path

\* The home folder and the path together get a buffer of MAXPATHLEN, and the
\* '~' leaves its place to the NUL.  An assertion wants one character less.
AssertsPath(path) ==
    /\ IsBelowHome(path) /\ Len(path) < MAXPATHLEN
    /\ Len(Home) + Len(path) >= MAXPATHLEN

OverrunsPath(path) ==
    /\ IsBelowHome(path) /\ Len(path) < MAXPATHLEN
    /\ Len(Home) + Len(path) > MAXPATHLEN

am_replace_str(s, pattern, subst) ==
    LET Replaced[t \in Seq(STRING)] ==
          IF t = <<>> THEN <<>>
          ELSE IF IsPrefix(pattern, t)
               THEN subst \o Replaced[SubSeq(t, Len(pattern) + 1, Len(t))]
               ELSE <<t[1]>> \o Replaced[Tail(t)]
    IN  Replaced[s]

\* The new value of a path that was dst.
set_path(src, dst) ==
    IF src # NULL /\ Len(src) < MAXPATHLEN /\ resolve_path(src) # NULL
    THEN am_replace_str(resolve_path(src), <<Backslash, " ">>, <<" ">>)
    ELSE dst

-----------------------------------------------------------------------------
(***************************************************************************)
(* Feeds and filters: suboptions  name => "value", one on a line.          *)
(***************************************************************************)
\* One suboption, in a sequence that is empty if it is malformed.  The
\* character before => is taken for a blank.
parseSubOption(line) ==
    LET arrows == {k \in 1..Len(line) - 1 :
                     line[k] = "=" /\ line[k + 1] = ">"}
        k     == Min(arrows)
        value == trim(SubSeq(line, k + 2, Len(line)))
    IN  IF arrows = {} \/ k <= 2 \/ value = NULL THEN <<>>
        ELSE <<[option |-> SubSeq(line, 1, k - 2), value |-> value]>>

(***************************************************************************)
(* parseMultiOption reads its lines character by character:                *)
(*   "skip"    the spaces before a suboption                               *)
(*   "text"    a suboption, tmp; quote is the place of its last quote      *)
(*   "joined"  after a line break behind \ or +, up to the next quote      *)
(*   "copy"    the character behind that quote, whatever it is             *)
(*   "failed"  anything else followed the line break: the rest is ignored  *)
(***************************************************************************)
NewLines == [mode |-> "skip", tmp |-> <<>>, quote |-> 0, lines |-> <<>>]

\* Seeded bug: the second part of a text gets a quote of its own.
JoinedWithQuote(m) == [m EXCEPT !.mode = "copy"]

\* What was read since the last quote is dropped, and the quote with it.
Joined(m) == [m EXCEPT !.mode = "copy", !.tmp = SubSeq(@, 1, m.quote - 1)]

NextCharacter(m, c) ==
    CASE m.mode = "skip" /\ IsSpace(c) -> m
      [] m.mode = "text" /\ c = Nl /\ Last(m.tmp) \in {Backslash, "+"} ->
           [m EXCEPT !.mode = "joined"]
      [] m.mode = "text" /\ c = Nl /\ Last(m.tmp) \notin {Backslash, "+"} ->
           [NewLines EXCEPT !.lines = Append(m.lines, m.tmp)]
      [] m.mode \in {"skip", "text"} /\ ~(IsSpace(c) /\ m.mode = "skip")
           /\ c # Nl ->
           [m EXCEPT !.mode = "text", !.tmp = Append(@, c),
                     !.quote = IF c = Quote THEN Len(m.tmp) + 1 ELSE @]
      [] m.mode = "joined" /\ IsSpace(c) -> m
      [] m.mode = "joined" /\ c = Quote /\ m.quote > 0 -> Joined(m)
      [] m.mode = "joined" /\ ~IsSpace(c) /\ (c # Quote \/ m.quote = 0) ->
           [m EXCEPT !.mode = "failed"]
      [] m.mode = "copy" ->
           [m EXCEPT !.mode = "text", !.tmp = Append(@, c)]
      [] m.mode = "failed" -> m

Lines(str) ==
    LET m == FoldLeft(NextCharacter, NewLines, str) IN
    IF m.mode \in {"text", "copy"} THEN Append(m.lines, m.tmp) ELSE m.lines

\* The suboptions, the last one first (addItem adds at the head).
parseMultiOption(str) ==
    Reverse(FlattenSeq([k \in DOMAIN Lines(str) |->
                          parseSubOption(Lines(str)[k])]))

filter_new == [pattern |-> NULL, folder |-> NULL, feedID |-> NULL]

WithFilterOption(filter, item) ==
    CASE Begins(item.option, "pattern") ->
           [filter EXCEPT !.pattern = trim(item.value)]
      [] Begins(item.option, "folder") ->
           [filter EXCEPT !.folder = set_path(trim(item.value), @)]
      [] Begins(item.option, "feedid") ->
           [filter EXCEPT !.feedID = trim(item.value)]
      [] OTHER -> filter

\* The filter that a text describes; one without a pattern is refused.
parseFilter(str) ==
    FoldLeft(WithFilterOption, filter_new, parseMultiOption(str))

feed_new == [url |-> NULL, cookies |-> NULL, id |-> NULL,
             url_pattern |-> NULL, url_replace |-> NULL]

WithFeedOption(feed, item) ==
    CASE Begins(item.option, "url_pattern") ->
           [feed EXCEPT !.url_pattern = trim(item.value)]
      [] Begins(item.option, "url_replace") ->
           [feed EXCEPT !.url_replace = trim(item.value)]
      [] Begins(item.option, "url") -> [feed EXCEPT !.url = trim(item.value)]
      [] Begins(item.option, "cookies") ->
           [feed EXCEPT !.cookies = trim(item.value)]
      [] Begins(item.option, "id") -> [feed EXCEPT !.id = trim(item.value)]
      [] OTHER -> feed

\* Cookies may stand in the URL, behind :COOKIE:.
parseCookiesFromURL(url) ==
    LET marks == {k \in 1..Len(url) - 1 : url[k] = ":COOKIE:"} IN
    IF marks = {} THEN NULL ELSE SubSeq(url, Min(marks) + 1, Len(url))

\* The feed that a text describes; one without a URL is refused.
parseFeed(str) ==
    LET feed == FoldLeft(WithFeedOption, feed_new, parseMultiOption(str)) IN
    IF feed.url # NULL /\ feed.cookies = NULL
    THEN [feed EXCEPT !.cookies = parseCookiesFromURL(feed.url)]
    ELSE feed

-----------------------------------------------------------------------------
(***************************************************************************)
(* set_option.                                                             *)
(***************************************************************************)
get_tr_folder == Home \o <<"/", ".config/transmission">>

get_temp_folder == <<"/", "tmp">>

session_init == [
    transmission_path |-> get_tr_folder, torrent_folder |-> get_temp_folder,
    statefile |-> Home \o <<"/", ".automatic.state">>,
    transmission_external |-> NULL, auth |-> NULL, host |-> NULL,
    prowl_key |-> NULL, pushover_key |-> NULL,
    feeds |-> <<>>, filters |-> <<>>, check_interval |-> 30,
    use_transmission |-> 1, start_torrent |-> 1, rpc_port |-> 9091,
    transmission_version |-> "1.3", upspeed |-> -1]

PathOf ==
    [name \in {"transmission-home", "statefile", "torrent-folder",
               "transmission-external"} |->
       CASE name = "transmission-home" -> "transmission_path"
         [] name = "statefile" -> "statefile"
         [] name = "torrent-folder" -> "torrent_folder"
         [] name = "transmission-external" -> "transmission_external"]

TextOf ==
    [name \in {"rpc-auth", "rpc-host", "prowl-apikey", "pushover-apikey"} |->
       CASE name = "rpc-auth" -> "auth"
         [] name = "rpc-host" -> "host"
         [] name = "prowl-apikey" -> "prowl_key"
         [] name = "pushover-apikey" -> "pushover_key"]

SwitchOf ==
    [name \in {"use-transmission", "start-torrents"} |->
       CASE name = "use-transmission" -> "use_transmission"
         [] name = "start-torrents" -> "start_torrent"]

\* Seeded bug: the interval is not cut to its width.
AsItIs(n) == n

\* Numbers as the fields of the session keep them, in 8 and in 16 bits.
AsUint8(n) == n % 256

AsInt16(n) == ((n + 32768) % 65536) - 32768

\* Seeded bug: the upper bound of the port is missing.
IsPortNumber(n) == n > 1024

IsPort(n) == n > 1024 /\ n < 65535

IsNo(param) == Begins(param, "0") \/ Begins(param, "no")

IsYes(param) == Begins(param, "1") \/ Begins(param, "yes")

VersionOf(param) ==
    CASE param = <<"external">> -> "external"
      [] Begins(param, "1.2") -> "1.2"
      [] Begins(param, "1.3") -> "1.3"

\* The option when its name is that keyword alone, else nothing it knows.
Known(opt) == IF Len(opt) = 1 THEN opt[1] ELSE "unknown"

WithPath(as, name, param) ==
    [as EXCEPT ![PathOf[name]] = set_path(param, @)]

set_option(as, name, param) ==
    LET numval == parseUInt(param) IN
    CASE name = "feed" -> [as EXCEPT !.feeds = <<parseFeed(param)>> \o @]
      [] name = "filter" -> [as EXCEPT !.filters = <<parseFilter(param)>> \o @]
      [] name = "transmission-external" ->
           [WithPath(as, name, param) EXCEPT
              !.transmission_version = "external"]
      [] name \in DOMAIN PathOf \ {"transmission-external"} ->
           WithPath(as, name, param)
      [] name \in DOMAIN TextOf ->
           [as EXCEPT ![TextOf[name]] = am_strdup(param)]
      [] name = "transmission-version"
           /\ (param = <<"external">> \/ Begins(param, "1.2")
                 \/ Begins(param, "1.3")) ->
           [as EXCEPT !.transmission_version = VersionOf(param)]
      [] name \in DOMAIN SwitchOf /\ IsNo(param) ->
           [as EXCEPT ![SwitchOf[name]] = 0]
      [] name \in DOMAIN SwitchOf /\ IsYes(param) ->
           [as EXCEPT ![SwitchOf[name]] = 1]
      [] name = "interval" /\ numval > 0 ->
           [as EXCEPT !.check_interval = AsUint8(numval)]
      [] name = "upload-limit" /\ numval > 0 ->
           [as EXCEPT !.upspeed = AsInt16(numval)]
      [] name = "rpc-port" /\ IsPort(numval) -> [as EXCEPT !.rpc_port = numval]
      [] OTHER -> as

\* set_option returns FAILURE.
IsRefused(name, param) ==
    \/ name \in {"url", "patterns"}
    \/ name = "feed" /\ parseFeed(param).url = NULL
    \/ name = "filter" /\ parseFilter(param).pattern = NULL

\* What set_option hands to set_path.
PathsOf(name, param) ==
    IF name \in DOMAIN PathOf THEN {param}
    ELSE {trim(item.value) :
            item \in {i \in Range(parseMultiOption(param)) :
                        name = "filter" /\ Begins(i.option, "folder")}}

\* An assertion fails, if it is compiled in: a path is too long, or cookies
\* are looked for in an empty URL.
AssertionFails(name, param) ==
    \/ \E path \in PathsOf(name, param) : AssertsPath(path)
    \/ /\ name = "feed"
       /\ parseFeed(param).url = <<>> /\ parseFeed(param).cookies = NULL

\* Without it, the path is too long for its buffer.
Overruns(name, param) ==
    \E path \in PathsOf(name, param) : OverrunsPath(path)

\* set_option has parseUInt look for a number where there is no text.
LacksNumber(name, param) ==
    name \in {"interval", "upload-limit", "rpc-port"} /\ trim(param) = NULL
=============================================================================
