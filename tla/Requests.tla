------------------------------ MODULE Requests ------------------------------
(***************************************************************************)
(* What Automatic asks of other machines: setupSession verifies the key    *)
(* for Prowl and asks Transmission for its RPC version; processRSSList     *)
(* downloads a torrent, adds it to Transmission, limits its upload speed   *)
(* and sends notifications.  The servers answer, refuse, or let the        *)
(* connection break; Transmission may be restarted, which makes its        *)
(* session id a new one; the daemon may be killed.                         *)
(*                                                                         *)
(* task says which call of getHTTPData or sendHTTPData is under way, or is *)
(* to come: "setup", "version", "idle", "download", "add", "limit",        *)
(* "prowl", "pushover"; "aborted" is an assertion that failed.             *)
(***************************************************************************)
EXTENDS WebTransfer

CONSTANTS
    Pages,         \* answers of web servers: [code, headers, body]
    Magnets,       \* magnet links
    Options,       \* configurations: [upload_limit, prowl_key, pushover_key]
    Versions,      \* RPC versions that Transmission may have
    MaxSessions,   \* bound: how many session ids Transmission goes through
    MaxOffers      \* bound: how many torrents are handed over

VARIABLES
    task,            \* see above
    item,            \* the torrent being handed over: a document or a link
    tid,             \* its id in Transmission, once it is added
    rpc_version, prowl_key_valid,     \* of the session
    options,         \* of the session: what is set in the configuration
    reported,        \* the result of the last hand-over
    tm,              \* Transmission: its version and session id, its
                     \* torrents, those that are limited
    \* History variables.
    taken,           \* Transmission took the torrent in this hand-over
    trouble,         \* something broke or was refused in this hand-over
    renewed,         \* a new session id since the first 409 of a request
    offers           \* how many hand-overs there were

appVars == <<task, item, tid, rpc_version, prowl_key_valid, options,
             reported>>
histVars == <<taken, trouble, renewed, offers>>
vars == <<webVars, appVars, tm, histVars>>

ASSUME OptionsAssumption ==
    Options \subseteq [upload_limit : BOOLEAN, prowl_key : BOOLEAN,
                       pushover_key : BOOLEAN]

ASSUME PagesAssumption ==
    \A p \in Pages :
        /\ p.code \in Nat
        /\ p.body \in Seq(Byte)
        /\ p.headers \in Seq(Lines)

ASSUME MagnetsAssumption == NULL \notin Magnets

\* A version is at least 1 and fits into int8_t.
ASSUME VersionsAssumption == Versions \subseteq 1..127

Torrent(content) == [magnet |-> FALSE, content |-> content]
Magnet(uri)      == [magnet |-> TRUE, content |-> uri]
Nothing          == Magnet(NULL)

Length(body)  == Header("Content-Length", Len(body))
SessionId(id) == Header("Session-Id", id)

-----------------------------------------------------------------------------
(***************************************************************************)
(* Messages (json.c, prowl.c, pushover.c).  The text of an answer is a     *)
(* sequence of fields; a field is one symbol, a value and a kind.          *)
(***************************************************************************)
Result(r)     == 1000 * r + 300
Id(n)         == 1000 * n + 400
RPCVersion(v) == 1000 * v + 500
Success   == 1
Duplicate == 2
Refused   == 3

Packet(method, magnet, content, ids, key) ==
    [method |-> method, magnet |-> magnet, content |-> content, ids |-> ids,
     key |-> key]

NoPacket == Packet("none", FALSE, NULL, 0, "none")

makeTorrentAddFilenameJSON(uri) == Packet("torrent-add", TRUE, uri, 0, "none")

\* No packet without data.
makeTorrentAddMetaInfoJSON(data) ==
    IF data = NULL THEN NoPacket
    ELSE Packet("torrent-add", FALSE, base64_encode(data), 0, "none")

\* Seeded bug: version 5 is given the key of the versions before it.
KeyBefore6(version) ==
    IF version <= 5 THEN "speed-limit-up" ELSE "uploadLimit"

\* The key under which a torrent is limited.
LimitKey(version) ==
    IF version <= 4 THEN "speed-limit-up" ELSE "uploadLimit"

\* No packet without an id or a version.
makeChangeUpSpeedJSON(id, version) ==
    IF id > 0 /\ version # 0
    THEN Packet("torrent-set", FALSE, NULL, id, LimitKey(version))
    ELSE NoPacket

SessionGet == Packet("session-get", FALSE, NULL, 0, "none")

\* The messages of both services say what was added or failed.
createProwlMessage(event) == Packet(event, FALSE, NULL, 0, "none")
createMessage(event)      == Packet(event, FALSE, NULL, 0, "none")

\* getRegExMatch: the value of the first field of a kind, -1 without one.
Field(text, kind) ==
    LET at == {k \in 1..Len(text) : text[k] % 1000 = kind}
    IN  IF at = {} THEN -1
        ELSE text[CHOOSE k \in at : \A j \in at : k <= j] \div 1000

parseResponse(text)   == Field(text, 300)
parseTorrentID(text)  == Field(text, 400)

parseRPCVersion(text) == Field(text, 500)

-----------------------------------------------------------------------------
(***************************************************************************)
(* What is made of an answer (torrent.c, transmission.c, prowl.c).         *)
(***************************************************************************)
Answered(result) ==
    response.code = 200 /\ parseResponse(response.data) = result

\* Seeded bug: whatever is no success is taken for a duplicate.
sentTransmissionRPC ==
    IF Answered(Success) THEN parseTorrentID(response.data) ELSE 0

\* The id of the new torrent, 0 for a duplicate, -1 for an error.
sendTransmissionRPC ==
    CASE Answered(Success)   -> parseTorrentID(response.data)
      [] Answered(Duplicate) -> 0
      [] OTHER               -> -1

getRPCVersion ==
    IF Answered(Success) THEN parseRPCVersion(response.data) ELSE 0

-----------------------------------------------------------------------------
(***************************************************************************)
(* setupSession.                                                           *)
(***************************************************************************)
VerifyProwlAPIKey ==
    /\ task = "setup" /\ step = "ready"
    /\ options.prowl_key
    /\ getHTTPData
    /\ UNCHANGED <<appVars, tm, histVars>>

AskRPCVersion ==
    /\ task = "setup"
    /\ step = "returned" \/ (step = "ready" /\ ~options.prowl_key)
    /\ prowl_key_valid' = (response.code = 200)
    /\ sendHTTPData(SessionGet, TRUE)
    /\ task' = "version"
    /\ UNCHANGED <<item, tid, rpc_version, options, reported, tm, histVars>>

SetUp ==
    /\ task = "version" /\ step = "returned"
    /\ rpc_version' = getRPCVersion
    /\ task' = "idle"
    /\ HTTPResponse_free
    /\ UNCHANGED <<isMoveHeader, gSessionID, item, tid, prowl_key_valid,
                   options, reported, tm, histVars>>

-----------------------------------------------------------------------------
(***************************************************************************)
(* processRSSList: one item that is new.                                   *)
(***************************************************************************)
BeginItem ==
    /\ task = "idle"
    /\ offers < MaxOffers
    /\ offers' = offers + 1
    /\ taken' = FALSE
    /\ trouble' = FALSE
    /\ tid' = 0
    /\ UNCHANGED <<rpc_version, prowl_key_valid, options, reported, tm,
                   renewed>>

downloadTorrent ==
    /\ BeginItem
    /\ getHTTPData
    /\ task' = "download"
    /\ UNCHANGED item

uploadMagnet(uri) ==
    /\ BeginItem
    /\ sendHTTPData(makeTorrentAddFilenameJSON(uri), TRUE)
    /\ task' = "add"
    /\ item' = Magnet(uri)

\* The result of an item: a notification unless Transmission had it already.
Conclude(result) ==
    /\ reported' = result
    /\ item' = Nothing
    /\ IF result # 0 /\ prowl_key_valid
       THEN /\ task' = "prowl"
            /\ sendHTTPData(createProwlMessage("event"), FALSE)
       ELSE IF result # 0 /\ options.pushover_key
       THEN /\ task' = "pushover"
            /\ sendHTTPData(createMessage("event"), FALSE)
       ELSE /\ task' = "idle"
            /\ HTTPResponse_free
            /\ UNCHANGED <<isMoveHeader, gSessionID>>
    /\ UNCHANGED <<rpc_version, prowl_key_valid, options, tm, histVars>>

DownloadFails ==
    /\ task = "download" /\ step = "returned"
    /\ response.code # 200
    /\ Conclude(-1)
    /\ UNCHANGED tid

\* uploadTorrent.  The assertion on the packet may be compiled in or not.
uploadTorrent ==
    /\ task = "download" /\ step = "returned"
    /\ response.code = 200
    /\ LET packet == makeTorrentAddMetaInfoJSON(response.data) IN
       \/ /\ packet # NoPacket
          /\ sendHTTPData(packet, TRUE)
          /\ task' = "add"
          /\ item' = Torrent(answer.body)
       \/ /\ packet = NoPacket
          /\ sendsNothing
          /\ task' = "add"
          /\ item' = Torrent(answer.body)
       \/ /\ packet = NoPacket
          /\ task' = "aborted"
          /\ UNCHANGED <<item, webVars>>
    /\ UNCHANGED <<tid, rpc_version, prowl_key_valid, options, reported, tm,
                   histVars>>

\* addTorrentToTM and addMagnetToTM, after the RPC.
Uploaded ==
    /\ task = "add" /\ step = "returned"
    /\ LET id == sendTransmissionRPC IN
       \/ /\ id > 0 /\ options.upload_limit
          /\ tid' = id
          /\ task' = "limit"
          /\ LET packet == makeChangeUpSpeedJSON(id, rpc_version) IN
             IF packet = NoPacket
             THEN sendsNothing
             ELSE sendHTTPData(packet, TRUE)
          /\ UNCHANGED <<item, rpc_version, prowl_key_valid, options, reported,
                         tm, histVars>>
       \/ /\ id > 0 /\ ~options.upload_limit
          /\ tid' = id
          /\ Conclude(1)
       \/ /\ id <= 0
          /\ Conclude(id)
          /\ UNCHANGED tid

\* changeUploadSpeed has returned; nobody asks what.
SpeedChanged ==
    /\ task = "limit" /\ step = "returned"
    /\ Conclude(1)
    /\ UNCHANGED tid

\* A notification is sent; nobody asks whether it was.
Notified ==
    /\ task \in {"prowl", "pushover"} /\ step = "returned"
    /\ IF task = "prowl" /\ options.pushover_key
       THEN /\ task' = "pushover"
            /\ sendHTTPData(createMessage("event"), FALSE)
       ELSE /\ task' = "idle"
            /\ HTTPResponse_free
            /\ UNCHANGED <<isMoveHeader, gSessionID>>
    /\ UNCHANGED <<item, tid, rpc_version, prowl_key_valid, options, reported,
                   tm, histVars>>

-----------------------------------------------------------------------------
(***************************************************************************)
(* The other machines.                                                     *)
(***************************************************************************)
WebServerAnswers ==
    /\ ~request.rpc
    /\ \E p \in Pages : Respond(p.code, p.headers, p.body)
    /\ UNCHANGED <<appVars, tm, histVars>>

\* Transmission refuses a session id that is not its own, and tells its own.
SessionRefused ==
    /\ request.rpc
    /\ request.id # tm.session
    /\ Respond(409, <<SessionId(tm.session), Length(<<200>>)>>, <<200>>)
    /\ renewed' = (renewed /\ tries = 0)
    /\ UNCHANGED <<appVars, tm, taken, trouble, offers>>

AccessDenied ==
    /\ request.rpc
    /\ Respond(401, <<>>, <<200>>)
    /\ trouble' = TRUE
    /\ UNCHANGED <<appVars, tm, taken, renewed, offers>>

\* An answer, with its length or without.
Says(text) ==
    \E headers \in {<<>>, <<Length(text)>>} : Respond(200, headers, text)

\* The torrent a packet stands for, as Transmission decodes it.
Meant(packet) ==
    IF packet.magnet THEN Magnet(packet.content)
    ELSE Torrent(base64_decode(packet.content))

Holds(t) == \E k \in 1..Len(tm.torrents) : tm.torrents[k] = t

Authorized(method) ==
    /\ request.rpc
    /\ step = "sent"
    /\ request.id = tm.session
    /\ request.packet.method = method

TakesTorrent ==
    /\ Authorized("torrent-add")
    /\ ~Holds(Meant(request.packet))
    /\ tm' = [tm EXCEPT !.torrents = Append(@, Meant(request.packet))]
    /\ Says(<<Id(Len(tm.torrents) + 1), Result(Success)>>)
    /\ taken' = TRUE
    /\ UNCHANGED <<appVars, trouble, renewed, offers>>

HasTorrent ==
    /\ Authorized("torrent-add")
    /\ Holds(Meant(request.packet))
    /\ Says(<<Result(Duplicate)>>)
    /\ UNCHANGED <<appVars, tm, histVars>>

\* Transmission renamed the key with its RPC version 5.
Knows(key) ==
    \/ key = "speed-limit-up" /\ tm.version < 5
    \/ key = "uploadLimit" /\ tm.version >= 5

\* A key that it does not know is ignored, and that is a success, too.
LimitsTorrent ==
    /\ Authorized("torrent-set")
    /\ LET some == IF Knows(request.packet.key)
                   THEN {request.packet.ids} ELSE {}
       IN  tm' = [tm EXCEPT !.limited = @ \cup some]
    /\ Says(<<Result(Success)>>)
    /\ UNCHANGED <<appVars, histVars>>

TellsVersion ==
    /\ Authorized("session-get")
    /\ Says(<<RPCVersion(tm.version), Result(Success)>>)
    /\ UNCHANGED <<appVars, tm, histVars>>

RefusesRequest ==
    /\ \E m \in {"torrent-add", "torrent-set", "session-get"} : Authorized(m)
    /\ Says(<<Result(Refused)>>)
    /\ trouble' = TRUE
    /\ UNCHANGED <<appVars, tm, taken, renewed, offers>>

\* Transmission is restarted.
NewSession ==
    /\ tm.session < MaxSessions
    /\ tm' = [tm EXCEPT !.session = @ + 1]
    /\ renewed' = TRUE
    /\ UNCHANGED <<webVars, appVars, taken, trouble, offers>>

ConnectionBreaks ==
    /\ Break
    /\ trouble' = TRUE
    /\ UNCHANGED <<appVars, tm, taken, renewed, offers>>

Server ==
    \/ WebServerAnswers \/ SessionRefused \/ AccessDenied
    \/ TakesTorrent \/ HasTorrent \/ LimitsTorrent \/ TellsVersion
    \/ RefusesRequest

\* The daemon is killed, or aborted, and started again.
Restart ==
    /\ task \notin {"setup", "version"}
    /\ HTTPResponse_free
    /\ isMoveHeader' = FALSE
    /\ gSessionID' = NoId
    /\ task' = "setup"
    /\ item' = Nothing
    /\ tid' = 0
    /\ rpc_version' = 4
    /\ prowl_key_valid' = FALSE
    /\ reported' = -1
    /\ taken' = FALSE
    /\ UNCHANGED <<options, tm, trouble, renewed, offers>>

-----------------------------------------------------------------------------
Init ==
    /\ InitWeb
    /\ task = "setup"
    /\ item = Nothing
    /\ tid = 0
    /\ rpc_version = 4
    /\ prowl_key_valid = FALSE
    /\ options \in Options
    /\ reported = -1
    /\ tm \in [version : Versions, session : {1}, torrents : {<<>>},
              limited : {{}}]
    /\ taken = FALSE
    /\ trouble = FALSE
    /\ renewed = FALSE
    /\ offers = 0

Transfer == TransferStep /\ UNCHANGED <<appVars, tm, histVars>>

Daemon ==
    \/ VerifyProwlAPIKey \/ AskRPCVersion \/ SetUp
    \/ downloadTorrent \/ (\E uri \in Magnets : uploadMagnet(uri))
    \/ DownloadFails \/ uploadTorrent \/ Uploaded \/ SpeedChanged \/ Notified

Next == Transfer \/ Daemon \/ Server \/ ConnectionBreaks \/ NewSession
            \/ Restart

Spec == Init /\ [][Next]_vars

\* One thread that goes on; a server answers, or a timeout breaks the transfer.
FairSpec ==
    /\ Spec
    /\ WF_vars(Transfer) /\ WF_vars(Daemon)
    /\ WF_vars(Server \/ ConnectionBreaks)
-----------------------------------------------------------------------------
(***************************************************************************)
(* Properties.                                                             *)
(***************************************************************************)
\* What write_data_callback is about to write, a chunk and a NUL, fits into
\* the memory that was allocated, whatever Content-Length announced, in this
\* response or in one before it.
WritesFit ==
    /\ step # "write" => webdata.buffer_size = Len(webdata.data)
    /\ (step = "write" /\ webdata.buffer_size >= Needed) =>
         webdata.buffer_pos + chunk + 1 <= Len(webdata.data)

\* The body of the response whose code is returned, and nothing of a redirect
\* or of a refusal before it, is what the caller gets, whole and unchanged.
\* (A body that begins with a NUL is lost, am_strndup takes it for nothing.)
AnswerIsWhole ==
    (step = "returned" /\ response # NoResponse) =>
        /\ response.code = answer.code
        /\ response.size = Len(answer.body)
        /\ \/ response.data = answer.body
           \/ response.data = NULL /\ answer.body[1] = NUL

\* One retry is enough: when the connection held, a request to Transmission
\* fails only if Transmission was restarted after it had told its session id.
RefusedTwiceMeansRestart ==
    (step = "done" /\ answer.code = 409 /\ request.rpc /\ tries = 0) => renewed

\* A torrent that was added is limited, under the key that this Transmission
\* knows, also when the session id changed before the second request, unless
\* something broke or was refused, the session changed once more after the
\* first refusal, or the RPC version could not be learned when the daemon was
\* started.
LimitIsSet ==
    (task = "limit" /\ step = "returned" /\ rpc_version # 0
        /\ ~trouble /\ ~renewed) =>
            tid \in tm.limited

\* The buffer of the letters that are sent is never too small, nor the one
\* that base64_decode would allocate for them.
EncodingFits ==
    LET text == request.packet.content IN
    (step = "sent" /\ request.rpc /\ request.packet.method = "torrent-add"
        /\ ~request.packet.magnet) =>
            /\ Len(text) + 1 <= EncodedRoom(Len(item.content))
            /\ Len(base64_decode(text)) + 1 <= DecodedRoom(Len(text))

\* The abstract hand-over, as module Automatic uses it: what Transmission
\* decodes is the document that was downloaded, it takes it at most once in a
\* hand-over, and what is reported agrees with what it did.
Promise == INSTANCE HandOver WITH
    Torrents <- {Torrent(p.body) : p \in Pages} \cup
                {Magnet(uri) : uri \in Magnets},
    Nothing  <- Nothing,
    held     <- {tm.torrents[k] : k \in 1..Len(tm.torrents)},
    offered  <- IF task \in {"add", "limit"} THEN item ELSE Nothing,
    taken    <- taken /\ task \in {"add", "limit"},
    reported <- reported

HandsOverAsPromised == Promise!Spec

\* Every call comes back, whatever the servers answer: no chain of redirects,
\* of refusals, or of reallocations goes on for ever.
CallsReturn == step = "sent" ~> step \in {"returned", "ready"}
=============================================================================
