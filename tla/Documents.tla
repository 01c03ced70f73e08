------------------------------ MODULE Documents ------------------------------
(***************************************************************************)
(* One document of a feed, from its elements to the torrents it leads to:  *)
(* parse_xmldata of src/xml_parser.c, which makes a list of items of it,   *)
(* and the loop of processRSSList, which asks the filters about each item  *)
(* and fetches and saves what they want.  libxml's tree is the input.      *)
(*                                                                         *)
(* pc names the place in the code:                                         *)
(*   ttl       parse_xmldata looks for the ttl of the channel              *)
(*   node      the loop over the item nodes in extract_feed_items          *)
(*   child     the loop over the children of one of them                   *)
(*   list      the loop of processRSSList                                  *)
(*   found     an item has matched and match_only is not set               *)
(*   done      the document is processed                                   *)
(*   aborted   the process is gone                                         *)
(*   overrun   performRegexReplace wrote behind its buffer: what the       *)
(*             process does from there on is anything                      *)
(* What Automatic models of this loop (the history, the answers of         *)
(* Transmission, notifications, match_only) is left out here, but that an  *)
(* item may be known already.                                              *)
(***************************************************************************)
EXTENDS UrlRewriting

CONSTANTS
    Inputs,         \* a document with the settings it meets:
                    \*   ttls      the texts of the ttl elements
                    \*   nodes     the item nodes: sequences of elements
                    \*   feed      the feed, or NoFeed when a file is read
                    \*   filters   the filters of the session
                    \*   asserts   assertions are compiled in
                    \*   rpc       torrents go to Transmission, not to files
    NoFeed,
    strcasecmp_eq(_, _),    \* two ids are the same but for their case
    Answer(_),      \* what the server has under a URL, a Page if anything
    torrent_folder

VARIABLES
    pc,
    input,
    i, child,           \* extract_feed_items: the node, and its element
    item,               \* the item that is put together
    name_set, url_set,
    itemList,
    current,            \* processRSSList: the items left
    download_folder, download_url,
    deeds,              \* what was done about each item that matched
    files               \* the saved torrents: a name and its bytes

readVars == <<i, child, item, name_set, url_set, itemList>>
listVars == <<current, download_folder, download_url, deeds, files>>
vars     == <<pc, input, readVars, listVars>>

\* A pointer to a text that was freed.
FREED == <<"freed">>

\* An element is [name, text, attributes].  Its text is that of its first
\* child node; attributes are [name, text].  An item node is a sequence of
\* elements.  A name or a URL is never only slashes.
Attribute == [name : STRING, text : Text]
Elements  == [name : STRING, text : Text, attributes : Seq(Attribute)]
Filters   == [pattern : Text, folder : Text, feedID : Text]

ASSUME InputsAssumption ==
    \A in \in Inputs :
       /\ in.nodes \in Seq(Seq(Elements))
       /\ in.filters \in Seq(Filters)
       /\ in.feed # NoFeed => in.feed.url_replace \in Seq(Text)

\* The response to a fetch that was answered.
Page == [filename : Text, data : Text]

Nodes    == input.nodes
Element  == Nodes[i][child]
FeedID   == IF input.feed = NoFeed THEN NULL ELSE input.feed.id
Found    == Head(current)

newFeedItem == [name |-> NULL, url |-> NULL, category |-> NULL, guid |-> NULL]

Init ==
    /\ pc = "ttl"
    /\ input \in Inputs
    /\ i = 1
    /\ child = 1
    /\ item = newFeedItem
    /\ name_set = FALSE
    /\ url_set = FALSE
    /\ itemList = <<>>
    /\ current = <<>>
    /\ download_folder = NULL
    /\ download_url = NULL
    /\ deeds = <<>>
    /\ files = <<>>

-----------------------------------------------------------------------------
(***************************************************************************)
(* parse_xmldata: the ttl, if the document has exactly one.  Its number is *)
(* read by nobody; atoi crashes on the NULL that an empty element yields.  *)
(***************************************************************************)
ReadTtl ==
    /\ pc = "ttl"
    /\ pc' = IF input.ttls = <<NULL>> THEN "aborted" ELSE "node"
    /\ UNCHANGED <<input, readVars, listVars>>

-----------------------------------------------------------------------------
(***************************************************************************)
(* extract_feed_items.                                                     *)
(***************************************************************************)
NextNode ==
    /\ pc = "node"
    /\ i <= Len(Nodes)
    /\ IF Nodes[i] = <<>>
       THEN i' = i + 1 /\ UNCHANGED <<pc, child, item, name_set, url_set>>
       ELSE /\ pc' = "child"
            /\ child' = 1
            /\ item' = newFeedItem
            /\ name_set' = FALSE
            /\ url_set' = FALSE
            /\ UNCHANGED i
    /\ UNCHANGED <<input, itemList, listVars>>

AtChild(name) ==
    /\ pc = "child"
    /\ child <= Len(Nodes[i])
    /\ Element.name = name

\* getNodeText asserts that nothing is overwritten.
Asserts(is_set) == input.asserts /\ is_set

\* One element is read: it fails its assertion, or changes the item.
Reads(is_set, changed) ==
    /\ IF Asserts(is_set)
       THEN pc' = "aborted" /\ UNCHANGED <<item, child>>
       ELSE pc' = "child" /\ item' = changed /\ child' = child + 1
    /\ UNCHANGED <<input, i, itemList, listVars>>

Skips ==
    /\ child' = child + 1
    /\ UNCHANGED <<pc, input, i, item, name_set, url_set, itemList,
                   listVars>>

ReadTitle ==
    /\ AtChild("title")
    /\ IF name_set THEN Skips
       ELSE /\ Reads(item.name # NULL, [item EXCEPT !.name = Element.text])
            /\ name_set' = (Element.text # NULL)
            /\ UNCHANGED url_set

\* Seeded bug: every link is used.
TakesEveryLink == TRUE

\* A link is used unless there was a link or an enclosure before it.
TakesLink == ~url_set

ReadLink ==
    /\ AtChild("link")
    /\ IF ~TakesLink THEN Skips
       ELSE /\ Reads(item.url # NULL, [item EXCEPT !.url = Element.text])
            /\ url_set' = (Element.text # NULL)
            /\ UNCHANGED name_set

ReadCategory ==
    /\ AtChild("category")
    /\ IF item.category # NULL THEN Skips
       ELSE /\ Reads(item.category # NULL,
                     [item EXCEPT !.category = Element.text])
            /\ UNCHANGED <<name_set, url_set>>

\* Seeded bug: every guid is read.
TakesEveryGuid == TRUE

TakesGuid == item.guid = NULL

ReadGuid ==
    /\ AtChild("guid")
    /\ IF ~TakesGuid THEN Skips
       ELSE /\ Reads(item.guid # NULL, [item EXCEPT !.guid = Element.text])
            /\ UNCHANGED <<name_set, url_set>>

\* getNodeAttributes: "content" and "type" go to the same field.
Attributes(e, names) ==
    {k \in DOMAIN e.attributes : e.attributes[k].name \in names}

LastText(e, names) ==
    LET at == Attributes(e, names)
    IN  IF at = {} THEN NULL ELSE e.attributes[Max(at)].text

TypeAttributes(e) == Attributes(e, {"content", "type"})
UrlOf(e)          == LastText(e, {"url"})
TypeOf(e)         == LastText(e, {"content", "type"})

\* The destination of one of them holds a text already.
TypeIsSet(e) ==
    \E k, l \in TypeAttributes(e) : k < l /\ e.attributes[k].text # NULL

IsTorrent(e) ==
    UrlOf(e) # NULL /\ TypeOf(e) = <<"application/x-bittorrent">>

ReadEnclosure ==
    /\ AtChild("enclosure")
    /\ Reads(TypeIsSet(Element),
             IF IsTorrent(Element)
             THEN [item EXCEPT !.url = UrlOf(Element)] ELSE item)
    /\ url_set' = (url_set \/ IsTorrent(Element))
    /\ UNCHANGED name_set

ReadOther ==
    /\ pc = "child"
    /\ child <= Len(Nodes[i])
    /\ Element.name \notin {"title", "link", "category", "enclosure", "guid"}
    /\ Skips

\* addItem puts the item at the head of the list, or it is freed.
EndNode ==
    /\ pc = "child"
    /\ child > Len(Nodes[i])
    /\ itemList' = IF name_set /\ url_set THEN <<item>> \o itemList
                   ELSE itemList
    /\ pc' = "node"
    /\ i' = i + 1
    /\ UNCHANGED <<input, child, item, name_set, url_set, listVars>>

EndDocument ==
    /\ pc = "node"
    /\ i > Len(Nodes)
    /\ pc' = "list"
    /\ current' = itemList
    /\ UNCHANGED <<input, readVars, download_folder, download_url, deeds,
                   files>>

-----------------------------------------------------------------------------
(***************************************************************************)
(* processRSSList.                                                         *)
(***************************************************************************)
\* A filter without an id is for every feed.
Applies(filter) ==
    \/ filter.feedID = NULL
    \/ FeedID # NULL /\ strcasecmp_eq(FeedID, filter.feedID)

\* The first filter that matches a name, 0 if there is none.
isMatch(name) ==
    SelectInSeq(input.filters, LAMBDA f : /\ Applies(f)
                                          /\ isRegExMatch(f.pattern, name))

PassOver ==
    /\ pc = "list"
    /\ current # <<>>
    /\ isMatch(Found.name) = 0
    /\ current' = Tail(current)
    /\ UNCHANGED <<pc, input, readVars, download_folder, download_url, deeds,
                   files>>

\* Seeded bug: a filter without a folder leaves the variable alone.
FolderIfAny(filter) ==
    IF filter.folder # NULL THEN filter.folder ELSE download_folder

FolderOf(filter) == filter.folder

Match ==
    /\ pc = "list"
    /\ current # <<>>
    /\ isMatch(Found.name) # 0
    /\ download_folder' = FolderOf(input.filters[isMatch(Found.name)])
    /\ pc' = "found"
    /\ UNCHANGED <<input, readVars, current, download_url, deeds, files>>

\* What was done about the item, and on to the next one.
Ends(kind, url, file, data) ==
    /\ pc = "found"
    /\ deeds' = Append(deeds, [item |-> Found, kind |-> kind, url |-> url,
                               folder |-> download_folder, file |-> file,
                               data |-> data])
    /\ current' = Tail(current)
    /\ pc' = "list"
    /\ UNCHANGED <<input, readVars, download_folder>>

Known ==
    /\ Ends("known", NULL, NULL, NULL)
    /\ UNCHANGED <<download_url, files>>

AddMagnet ==
    /\ pc = "found"
    /\ isMagnetURI(Found.url)
    /\ Ends("magnet", Found.url, NULL, NULL)
    /\ UNCHANGED <<download_url, files>>

Rewrites ==
    /\ input.feed # NoFeed
    /\ NULL \notin {input.feed.url_pattern, input.feed.url_replace}

RewrittenURL ==
    IF Rewrites
    THEN performRegexReplace(Found.url, input.feed.url_pattern,
                             FlattenSeq(input.feed.url_replace))
    ELSE download_url

AskedFor ==
    url_encode_whitespace(IF RewrittenURL # NULL THEN RewrittenURL
                          ELSE Found.url)

\* am_free leaves the pointer as it is.
FreesURL == download_url' = IF RewrittenURL = NULL THEN NULL ELSE FREED

\* The URL is rewritten, in whatever room that takes, before it is fetched.
Overrun ==
    /\ pc = "found"
    /\ ~isMagnetURI(Found.url)
    /\ RewrittenURL = OVERRUN
    /\ pc' = "overrun"
    /\ UNCHANGED <<input, readVars, listVars>>

Fetches ==
    /\ pc = "found"
    /\ ~isMagnetURI(Found.url)
    /\ RewrittenURL # OVERRUN

\* No answer, or not a 200.
FetchFails ==
    /\ Fetches
    /\ Ends("nothing", AskedFor, NULL, NULL)
    /\ FreesURL
    /\ UNCHANGED files

FetchForTransmission ==
    /\ Fetches
    /\ input.rpc
    /\ Answer(AskedFor) \in Page
    /\ Ends("added", AskedFor, NULL, Answer(AskedFor).data)
    /\ FreesURL
    /\ UNCHANGED files

\* saveFile opens the file without truncating it; write may stop anywhere.
Old(name) == IF name \in DOMAIN files THEN files[name] ELSE <<>>

\* Seeded bug: the file is opened to append.
Appended(old, data) == old \o data

Written(old, data) == data \o SubSeq(old, Len(data) + 1, Len(old))

SavesAs(name, data) ==
    files' = [f \in DOMAIN files \cup {name} |->
                IF f = name THEN Written(Old(name), data) ELSE files[f]]

FetchAndSave ==
    /\ Fetches
    /\ ~input.rpc
    /\ Answer(AskedFor) \in Page
    /\ FreesURL
    /\ LET answer == Answer(AskedFor)
           name   == get_filename(answer.filename, Found.url, torrent_folder)
       IN  \/ /\ Ends("failed", AskedFor, NULL, NULL)
              /\ UNCHANGED files
           \/ /\ answer.data # NULL
              /\ \E n \in 0..Len(answer.data) :
                   /\ Ends(IF n = Len(answer.data) THEN "saved" ELSE "broken",
                           AskedFor, name, answer.data)
                   /\ SavesAs(name, SubSeq(answer.data, 1, n))

EndList ==
    /\ pc = "list"
    /\ current = <<>>
    /\ pc' = "done"
    /\ UNCHANGED <<input, readVars, listVars>>

\* Nothing more happens.
Ended ==
    /\ pc \in {"done", "aborted", "overrun"}
    /\ UNCHANGED vars

Next ==
    \/ ReadTtl \/ NextNode \/ ReadTitle \/ ReadLink \/ ReadCategory
    \/ ReadGuid \/ ReadEnclosure \/ ReadOther \/ EndNode \/ EndDocument
    \/ PassOver \/ Match \/ Known \/ AddMagnet \/ Overrun
    \/ FetchFails \/ FetchForTransmission \/ FetchAndSave \/ EndList \/ Ended

Spec == Init /\ [][Next]_vars

-----------------------------------------------------------------------------
(***************************************************************************)
(* Properties.                                                             *)
(***************************************************************************)
\* The item that a node describes, whatever the order of its elements: the
\* first title, category and guid that are not empty; the last torrent that
\* is enclosed, and only without any the first link.
FirstText(node, name) ==
    LET at == {k \in DOMAIN node : /\ node[k].name = name
                                   /\ node[k].text # NULL}
    IN  IF at = {} THEN NULL ELSE node[Min(at)].text

Described(node) ==
    LET enclosed == {k \in DOMAIN node : /\ node[k].name = "enclosure"
                                         /\ IsTorrent(node[k])}
    IN  [name     |-> FirstText(node, "title"),
         category |-> FirstText(node, "category"),
         guid     |-> FirstText(node, "guid"),
         url      |-> IF enclosed # {} THEN UrlOf(node[Max(enclosed)])
                      ELSE FirstText(node, "link")]

\* What is captured in a URL are texts (pieces of it, in the code).
ASSUME CapturesAssumption ==
    \A in \in Inputs :
       in.feed # NoFeed =>
          \A k \in DOMAIN in.nodes :
             Captures(in.feed.url_pattern, Described(in.nodes[k]).url)
               \in Seq(Text)

\* The nodes that describe something to download.
Complete(nodes) ==
    {k \in DOMAIN nodes : LET it == Described(nodes[k])
                          IN  it.name # NULL /\ it.url # NULL}

\* extract_feed_items lists every node that has a name and a URL as the item
\* it describes, in front of it those of the nodes behind it.
ItemsAsWritten ==
    pc \in {"list", "found", "done", "overrun"} =>
       /\ Len(itemList) = Cardinality(Complete(Nodes))
       /\ \A k \in Complete(Nodes) :
            itemList[Cardinality({l \in Complete(Nodes) : l >= k})]
              = Described(Nodes[k])

\* The assertion of getNodeText ("nothing is overwritten") can only fail on an
\* enclosure that has both a type and a content attribute, and atoi only on an
\* empty ttl: no order of titles, links, guids and enclosures ends the daemon.
AbortsAreKnown ==
    pc = "aborted" =>
       \/ input.ttls = <<NULL>>
       \/ /\ input.asserts
          /\ \E node \in Range(Nodes) : \E e \in Range(node) :
                Cardinality(TypeAttributes(e)) > 1

\* The loop of processRSSList keeps a folder and a URL in variables that
\* outlive an item, one of them a freed pointer.  What is done about an item
\* depends on that item alone all the same: it goes to the folder of the first
\* filter that is meant for this feed and matches it, and its own URL, or what
\* the feed's pattern makes of it, is asked for.
Wanting(it) ==
    {k \in DOMAIN input.filters :
       LET f == input.filters[k]
       IN  /\ it.name # NULL /\ Matches(f.pattern, it.name)
           /\ \/ f.feedID = NULL
              \/ /\ input.feed # NoFeed
                 /\ input.feed.id # NULL
                 /\ strcasecmp_eq(input.feed.id, f.feedID)}

Rewritten(it) ==
    IF Rewrites
    THEN performRegexReplace(it.url, input.feed.url_pattern,
                             FlattenSeq(input.feed.url_replace))
    ELSE NULL

DueURL(it) ==
    CASE isMagnetURI(it.url) -> it.url
      [] ~isMagnetURI(it.url) /\ Rewritten(it) = NULL ->
           url_encode_whitespace(it.url)
      [] OTHER -> url_encode_whitespace(Rewritten(it))

Wanted == {k \in DOMAIN itemList : Wanting(itemList[k]) # {}}

CallsAreDue ==
    /\ Len(deeds) <= Cardinality(Wanted)
    /\ pc = "done" => Len(deeds) = Cardinality(Wanted)
    /\ \A k \in Wanted :
         LET n     == Cardinality({l \in Wanted : l <= k})
             first == Min(Wanting(itemList[k]))
         IN  n <= Len(deeds) =>
               /\ deeds[n].item = itemList[k]
               /\ deeds[n].folder = input.filters[first].folder
               /\ deeds[n].kind # "known" =>
                    deeds[n].url = DueURL(itemList[k])

\* performRegexReplace, which works character by character, puts the groups
\* into the words of the replacement, or returns nothing when a word asks for
\* a group there is not.  Where what it puts, and the NUL that it may copy
\* before it adds one, is as long as its buffer, it writes behind it
\* (regex.c:186, :241, :250), and it does so nowhere else.
RewritesAsWritten ==
    Rewrites /\ IsClean(input.feed.url_replace) =>
       \A it \in Range(itemList) :
          LET groups == Captures(input.feed.url_pattern, it.url)
          IN  Rewritten(it) =
                IF groups = <<>> THEN NULL
                ELSE Replacement(input.feed.url_replace, groups)

\* Torrents of one name share a file, which is not truncated.  A torrent that
\* was saved as a whole is all the file holds, unless one that was longer had
\* the name before.
FilesAreWhole ==
    \A k \in DOMAIN deeds :
       /\ deeds[k].kind = "saved"
       /\ \A j \in DOMAIN deeds :
            deeds[j].file = deeds[k].file =>
               j <= k /\ Len(deeds[j].data) <= Len(deeds[k].data)
       => /\ deeds[k].file \in DOMAIN files
          /\ files[deeds[k].file] = deeds[k].data
=============================================================================
