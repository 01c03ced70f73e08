---------------------------- MODULE MCDocuments ----------------------------
(***************************************************************************)
(* Instances of Documents: every node of a few elements, and every short   *)
(* list of some whole nodes under many settings.                           *)
(***************************************************************************)
EXTENDS Documents

CONSTANTS
    NodeSize,       \* the elements of a free node
    ListSize        \* the nodes of a document of whole nodes

-----------------------------------------------------------------------------
\* Texts and URLs.
Name  == [n \in {"show", "film", "news"} |-> <<n>>]
Short == <<"http:", "/", "/", "h", "/", "1", "/", "a", " ", "b">>
Long  == <<"http:", "/", "/", "h", "/", "2", "/", "a", " ", "b", "/">>
Named == <<"http:", "/", "/", "h", "/", "3">>
Mag   == <<"magnet:", "?">>

\* The server: some torrents are longer than others, one comes with a name
\* of its own, and what else is asked for is not there.
Has(url, c) == \E k \in DOMAIN url : url[k] = c

MCAnswer(url) ==
    CASE Has(url, "1") -> [filename |-> NULL, data |-> <<"s">>]
      [] Has(url, "2") -> [filename |-> NULL, data |-> <<"l", "m">>]
      [] Has(url, "3") -> [filename |-> <<"a", " ", "b">>, data |-> <<"n">>]
      [] OTHER         -> NULL

\* The expressions: one for the show, one for the show and the film, and
\* two that take a URL apart.
MCMatches(p, s) ==
    \/ p = <<"show">> /\ s = Name["show"]
    \/ p = <<"all">>  /\ s \in {Name["show"], Name["film"]}

MCCaptures(p, s) ==
    CASE p = <<"host">> /\ s = Short -> <<<<"h">>, <<"1">>>>
      [] p = <<"host">> /\ s = Named -> <<<<"h">>>>
      [] OTHER -> <<>>

MCSameId(a, b) ==
    a = b \/ {a, b} = {<<"tv">>, <<"TV">>}

MCFolder == <<"/", "t">>

-----------------------------------------------------------------------------
\* Free nodes.
Plain(name, text) == [name |-> name, text |-> text, attributes |-> <<>>]

Enclosure(attributes) ==
    [name |-> "enclosure", text |-> NULL, attributes |-> attributes]

Attr(name, text) == [name |-> name, text |-> text]
Torrent == <<"application/x-bittorrent">>

FreeElements ==
    {Plain("title", Name["show"]), Plain("title", NULL),
     Plain("link", Short), Plain("link", NULL),
     Plain("guid", <<"g">>), Plain("guid", <<"h">>),
     Enclosure(<<Attr("url", Long), Attr("type", Torrent)>>),
     Enclosure(<<Attr("content", Torrent), Attr("url", Named)>>),
     Enclosure(<<Attr("url", Short), Attr("length", <<"1">>),
                 Attr("type", <<"audio">>)>>),
     Enclosure(<<Attr("type", Torrent)>>),
     Enclosure(<<Attr("type", <<"audio">>), Attr("url", Long),
                 Attr("content", Torrent)>>)}

Bare == [ttls |-> <<>>, feed |-> NoFeed, filters |-> <<>>, asserts |-> TRUE,
         rpc |-> FALSE, nodes |-> <<>>]

FreeNodes ==
    {[Bare EXCEPT !.nodes = <<n>>] : n \in SeqOf(FreeElements, NodeSize)}
    \cup {[Bare EXCEPT !.nodes = <<n>>, !.asserts = FALSE] :
            n \in SeqOf(FreeElements, NodeSize - 1)}

-----------------------------------------------------------------------------
\* Whole nodes under many settings.
Whole(name, url) ==
    <<Plain("title", Name[name]), Plain("link", url)>>

Menu ==
    {<<>>, <<Plain("title", Name["show"])>>,
     Whole("show", Short), Whole("show", Mag), Whole("film", Short),
     Whole("film", Named), Whole("show", Long),
     Whole("news", Short) \o <<Plain("category", NULL),
                               Plain("category", <<"c">>),
                               Plain("category", <<"d">>),
                               Plain("pubDate", <<"e">>)>>}

Filter(pattern, folder, id) ==
    [pattern |-> pattern, folder |-> folder, feedID |-> id]

FilterLists ==
    {<<Filter(<<"show">>, <<"f">>, NULL), Filter(<<"all">>, NULL, NULL)>>,
     <<Filter(<<"all">>, <<"e">>, <<"tv">>),
       Filter(<<"show">>, NULL, NULL)>>}

Feed(id, pattern, replace) ==
    [id |-> id, url_pattern |-> pattern, url_replace |-> replace]

\* Replacements: the usual ones of placeholders and characters, and those that
\* test the edges.
Usual ==
    {<<<<"x">>, <<"/">>, <<Backslash, "2">>>>,
     <<<<Backslash, "1">>, <<"/">>, <<Backslash, "2">>, <<" ">>>>}

\* n characters, and something behind them: replacements that just fit into
\* the buffer, or just do not.
Xs(n) == [k \in 1..n |-> <<"x">>]

Filling ==
    {Xs(MAX_SUBST_LEN - n) \o rest :
       n \in 1..3, rest \in {<<>>, <<<<Backslash, "1">>>>, <<<<Backslash>>>>,
                             <<<<Backslash, "7">>, <<"x">>>>,
                             <<<<Backslash, "1">>, <<"x">>>>}}

Unusual ==
    {<<<<Backslash, "a">>, <<Backslash, "1", "2">>>>,
     <<<<Backslash, "0">>>>,
     <<<<"1">>, <<Backslash>>>>,
     <<<<Backslash, "0", "1">>, <<"1">>>>,
     <<<<Backslash, "1">>, <<Backslash, "2">>>>,
     <<<<Backslash, "0", "0", "0", "1">>, <<"1">>>>} \cup Filling

Rewriting(replacements) == {Feed(<<"tv">>, <<"host">>, r) : r \in replacements}

UsualFeeds ==
    {NoFeed, Feed(NULL, NULL, NULL), Feed(<<"TV">>, <<"host">>, NULL)}
      \cup Rewriting(Usual)

Under(feeds, rpc, size) ==
    {[ttls |-> <<>>, feed |-> f, filters |-> l, asserts |-> TRUE,
      rpc |-> rpc, nodes |-> n] :
        f \in feeds, l \in FilterLists, n \in SeqOf(Menu, size)}

WholeNodes ==
    Under(UsualFeeds, FALSE, ListSize)
      \cup Under(Rewriting(Unusual), FALSE, ListSize - 1)
      \cup Under(UsualFeeds \cup Rewriting(Unusual), TRUE, ListSize - 1)

WithTtl ==
    {[Bare EXCEPT !.ttls = t] : t \in {<<NULL>>, <<<<"30">>>>,
                                       <<<<"5">>, NULL>>}}

MCInputs == FreeNodes \cup WholeNodes \cup WithTtl
=============================================================================
