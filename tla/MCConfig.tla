------------------------------ MODULE MCConfig ------------------------------
(***************************************************************************)
(* Instances of ConfigParser: every short file over the characters that    *)
(* the scanner tells apart, and files that were written down from the      *)
(* session their author wants.                                             *)
(***************************************************************************)
EXTENDS ConfigParser

CONSTANT RawLength

Symbols == {Nl, " ", "#", "=", Quote, "{", "}", "interval",
            "5", Control}

Raw == {[text |-> t, meant |-> NoMeaning] : t \in SeqOf(Symbols, RawLength)}

-----------------------------------------------------------------------------
\* What an author writes, and what he wants: a field set, or an item added.
Wants(written, key, wanted) ==
    [text |-> written, field |-> key, value |-> wanted]

InQuotes(t, q) == <<q>> \o t \o <<q>>

InBraces(t) == <<"{">> \o t \o <<"}">>

Assign(name, t) == {<<name, "=">> \o t, <<name, " ", "=", Nl>> \o t}

Styles(t) == {t, InQuotes(t, Quote), InQuotes(t, "'"),
              InBraces(<<" ">> \o t \o <<Nl>>)}

WithNumber(name, key, n) ==
    {Wants(t, key, Numerals[n]) :
       t \in UNION {Assign(name, s) : s \in Styles(<<n>>)}}

Place == <<"~", "/", "a", Backslash, " ", "b">>

OtherOptions ==
    {Wants(t, "torrent_folder", Home \o <<"/", "a", " ", "b">>) :
       t \in Assign("torrent-folder", InQuotes(Place, Quote))} \cup
    {Wants(<<"rpc-host", "=", "a">>, "host", <<"a">>),
     Wants(<<"rpc-auth", "=", "a">>, "auth", <<"a">>),
     Wants(<<"prowl-apikey", "=", "a">>, "prowl_key", <<"a">>),
     Wants(<<"pushover-apikey", "=", "a">>, "pushover_key", <<"a">>),
     Wants(<<"statefile", "=", "/", "a", "b">>, "statefile",
           <<"/", "a", "b">>),
     Wants(<<"transmission-home", "=", "a", "b", "c">>, "transmission_path",
           <<"a", "b", "c">>),
     Wants(<<"use-transmission", "=", "no">>, "use_transmission", 0),
     Wants(<<"start-torrents", "=", "yes">>, "start_torrent", 1),
     Wants(<<"transmission-version", "=", "1.2", "a">>,
           "transmission_version", "1.2"),
     Wants(<<"transmission-version", "=", "external">>,
           "transmission_version", "external")}

\* Suboptions, on lines of their own; a text may be broken over two lines.
Sub(name, t) == <<" ", name, " ", "=", ">", " ">> \o t \o <<Nl>>

Broken(t1, t2, mark) ==
    InQuotes(t1, Quote) \o <<" ", mark, Nl, " ">> \o InQuotes(t2, Quote)

Texts == {InQuotes(<<"a", "b">>, Quote), <<"a", "b">>,
             InQuotes(<<"a", "b">>, "'"), Broken(<<"a">>, <<"b">>, "+"),
             Broken(<<"a">>, <<"b">>, Backslash)}

Filters ==
    {Wants(<<"filter", "=">> \o InBraces(<<Nl>> \o s), "filters",
           [filter_new EXCEPT !.pattern = <<"a", "b">>, !.feedID = <<"c">>,
                              !.folder = <<"/", "d", "e">>]) :
       s \in UNION {{Sub("pattern", t) \o Sub("feedid", <<"c">>)
                       \o Sub("folder", <<"/", "d", "e">>),
                     Sub("folder", <<"/", "d", "e">>) \o Sub("pattern", t)
                       \o Sub("feedid", InQuotes(<<"c">>, Quote))} :
                    t \in Texts}} \cup
    {Wants(<<"filter", "=">> \o InBraces(Sub("pattern", <<"f">>)
             \o Sub("pattern", <<"g">>)), "filters",
           [filter_new EXCEPT !.pattern = <<"f">>])}

Feeds ==
    {Wants(<<"feed", "=">> \o InBraces(<<Nl>> \o s), "feeds",
           [feed_new EXCEPT !.url = <<"a", "b">>, !.id = <<"c">>,
                            !.cookies = <<"d">>]) :
       s \in {Sub("url", <<"a", "b">>) \o Sub("id", <<"c">>)
                \o Sub("cookies", <<"d">>),
              Sub("id", <<"c">>) \o Sub("cookies", InQuotes(<<"d">>, Quote))
                \o Sub("url", Broken(<<"a">>, <<"b">>, "+"))}} \cup
    {Wants(<<"feed", "=">> \o InBraces(Sub("url", <<"a", ":COOKIE:", "b">>)
             \o Sub("url_pattern", <<"c">>) \o Sub("url_replace", <<"d">>)),
           "feeds",
           [feed_new EXCEPT !.url = <<"a", ":COOKIE:", "b">>,
                            !.cookies = <<"b">>, !.url_pattern = <<"c">>,
                            !.url_replace = <<"d">>])}

Items == WithNumber("interval", "check_interval", "5") \cup
         WithNumber("upload-limit", "upspeed", "32767") \cup
         WithNumber("rpc-port", "rpc_port", "40000") \cup
         OtherOptions \cup Filters \cup Feeds

Wanted(as, item) ==
    IF item.field \in {"feeds", "filters"}
    THEN [as EXCEPT ![item.field] = <<item.value>> \o @]
    ELSE [as EXCEPT ![item.field] = item.value]

Between == <<" ", "#", "a", Nl>>

Written ==
    {[text |-> Between \o i.text \o Between \o j.text,
      meant |-> Wanted(Wanted(session_init, i), j)] :
       i \in Items, j \in Feeds \cup Filters} \cup
    {[text |-> i.text \o <<Nl>>, meant |-> Wanted(session_init, i)] :
       i \in Items}

-----------------------------------------------------------------------------
MCHome == <<"/", "h">>

\* A path of n characters.
BelowHome(n) == <<"~", "/">> \o [k \in 1..n - 2 |-> "a"]

\* Numbers at the limits of their fields, options that are refused, names
\* and values that are too long.
Odd ==
    {<<name, "=", n>> :
       name \in {"interval", "upload-limit", "rpc-port"},
       n \in DOMAIN Numerals} \cup
    {<<"url", "=", "a">>, <<"patterns", "=", "a">>,
     <<"transmission-external", "=", "/", "a", "b">>,
     <<"interval", "=", Quote, Quote>>,
     <<"feed", "=">> \o InBraces(Sub("id", <<"c">>)),
     <<"feed", "=">> \o InBraces(Sub("url", <<Quote, Quote>>)),
     <<"feed", "=">> \o InBraces(Sub("url", <<Quote, Quote>>)
                                   \o Sub("cookies", <<"c">>)),
     <<"filter", "=">> \o InBraces(Sub("folder", <<"c">>)),
     <<"rpc-port", "=", "40000", Nl, "rpc-port", "=", "65535">>} \cup
    {[k \in 1..MAX_OPT_LEN + n |-> "a"] \o <<"=", "a">> : n \in 0..2} \cup
    {<<"statefile", "=">> \o BelowHome(MAXPATHLEN - Len(MCHome) + n) :
       n \in -1..1} \cup
    {<<"filter", "=">> \o InBraces(Sub("folder", BelowHome(n))
                                     \o Sub("pattern", <<"c">>)) :
       n \in {MAXPATHLEN - 1, MAXPATHLEN}} \cup
    {<<"filter", "=", open>> \o [k \in 1..MAX_PARAM_LEN |-> "a"] :
       open \in {"{", Quote, "a"}}

MCInputs == Raw \cup Written
            \cup {[text |-> t, meant |-> NoMeaning] : t \in Odd}

MCNumerals ==
    ("0" :> 0) @@ ("1" :> 1) @@ ("5" :> 5) @@ ("255" :> 255) @@
    ("256" :> 256) @@ ("1024" :> 1024) @@ ("1025" :> 1025) @@
    ("32767" :> 32767) @@ ("32768" :> 32768) @@ ("40000" :> 40000) @@
    ("65534" :> 65534) @@ ("65535" :> 65535) @@ ("70000" :> 70000)
=============================================================================
