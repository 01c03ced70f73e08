---------------------------- MODULE WebTransfer ----------------------------
(***************************************************************************)
(* The HTTP transfers of src/web.c.  libcurl delivers every response of a  *)
(* transfer piece by piece: its header lines, one call of a callback each, *)
(* and then its body, in chunks.  The callbacks collect the body in a      *)
(* buffer that is sized by Content-Length, enlarged as needed, and thrown  *)
(* away when a Location header announces that another response follows.    *)
(* sendHTTPData repeats a request once when Transmission answers 409,      *)
(* which is how it hands out a new session id.                             *)
(*                                                                         *)
(*   step = "ready"    no transfer                                         *)
(*          "sent"     in curl_easy_perform, the request is on its way     *)
(*          "headers"  a response arrives, answer.headers are to come      *)
(*          "body"     its body arrives, answer.got bytes have been stored *)
(*          "write"    in write_data_callback with a chunk                 *)
(*          "done"     curl_easy_perform has returned 0                    *)
(*          "broken"   curl_easy_perform has returned an error             *)
(*          "returned" getHTTPData or sendHTTPData has returned response   *)
(*                                                                         *)
(* What the servers answer is left to the module that extends this one.    *)
(* libcurl is external: it follows redirects of its own accord, MAXREDIRS  *)
(* at most, and keeps their bodies from the callbacks.  Allocations do not *)
(* fail.                                                                   *)
(***************************************************************************)
EXTENDS Base64, FiniteSets

CONSTANTS
    DATA_BUFFER_SIZE,  \* what is allocated when the length is not known
    MAXREDIRS,         \* CURLOPT_MAXREDIRS
    MaxChunk           \* bound: the longest chunk libcurl delivers

VARIABLES
    step,         \* see above
    request,      \* what is sent: a GET, or a POST of a packet
    tries,        \* how often sendHTTPData may still send it
    redirects,    \* how many redirects libcurl has followed
    answer,       \* the response that arrives
    webdata,      \* the struct WebData of the callbacks, and its HTTPData
    chunk,        \* the length of the chunk that write_data_callback has
    isMoveHeader, \* static: a Location header was seen, its end not yet
    gSessionID,   \* static: the session id of Transmission, or NoId
    response      \* the HTTPResponse returned, or NoResponse

webVars == <<step, request, tries, redirects, answer, webdata, chunk,
             isMoveHeader, gSessionID, response>>

ASSUME SizesAssumption ==
    /\ DATA_BUFFER_SIZE \in Nat \ {0}
    /\ MAXREDIRS \in Nat
    /\ MaxChunk \in Nat \ {0}

NULL == <<>>          \* no memory: am_malloc(0) returns NULL as well
Junk == 1000          \* a byte of memory that nobody has written yet
NUL  == 0
NoId == 0

\* A header line: its name, and the number it carries (a length, a session
\* id, the name of a file).
Header(name, value) == [name |-> name, value |-> value]

\* The header lines that a callback looks at; the others are left out.
Lines == [name : {"Content-Length", "Content-Disposition", "Location",
                  "Session-Id"},
          value : Nat]

NoAnswer   == [code |-> 0, moved |-> FALSE, headers |-> <<>>, body |-> <<>>,
               got |-> 0]
NoResponse == [code |-> 0, data |-> NULL, size |-> 0, filename |-> 0]

\* WebData_new, and WebData_clear after it.
EmptyWebData == [data |-> NULL, buffer_size |-> 0, buffer_pos |-> 0,
                 filename |-> 0]

\* Seeded bug: what the last response has left is kept.
KeptWebData(w) == [w EXCEPT !.filename = 0]

WebData_clear(w) ==
    [w EXCEPT !.data = NULL, !.buffer_size = 0, !.buffer_pos = 0,
              !.filename = 0]

\* am_realloc: the old contents, then bytes that nobody has written.
Resized(data, size) ==
    [k \in 1..size |-> IF k <= Len(data) THEN data[k] ELSE Junk]

-----------------------------------------------------------------------------
(***************************************************************************)
(* The callbacks.                                                          *)
(***************************************************************************)
\* A Content-Length that can be used sizes the buffer.
SizedBy(w, length) ==
    [w EXCEPT !.buffer_size = length + 1, !.data = Resized(w.data, length + 1)]

write_header_callback(w, line) ==
    CASE line.name = "Location" /\ w.data # NULL ->
           [w EXCEPT !.data = NULL, !.buffer_size = 0]
      [] line.name = "Content-Length" /\ line.value > 0 /\ ~isMoveHeader ->
           SizedBy(w, line.value)
      [] line.name = "Content-Disposition" ->
           [w EXCEPT !.filename = line.value]
      [] OTHER -> w

parse_Transmission_response(w, line) ==
    IF line.name = "Content-Length" /\ line.value > 0
    THEN SizedBy(w, line.value)
    ELSE w

\* Seeded bug: the first session id is kept for good.
FirstSessionId(line) ==
    IF request.rpc /\ line.name = "Session-Id" /\ gSessionID = NoId
    THEN line.value ELSE gSessionID

SessionIdAfter(line) ==
    IF request.rpc /\ line.name = "Session-Id" THEN line.value ELSE gSessionID

HeaderLine ==
    /\ step = "headers"
    /\ answer.headers # <<>>
    /\ LET line == Head(answer.headers) IN
       /\ webdata' = IF request.rpc
                     THEN parse_Transmission_response(webdata, line)
                     ELSE write_header_callback(webdata, line)
       /\ isMoveHeader' =
            (isMoveHeader \/ (~request.rpc /\ line.name = "Location"))
       /\ gSessionID' = SessionIdAfter(line)
       /\ answer' = [answer EXCEPT !.headers = Tail(answer.headers)]
    /\ UNCHANGED <<step, request, tries, redirects, chunk, response>>

\* The empty line.  libcurl follows a redirect of its own accord.
IsRedirect(a) == a.moved /\ a.code \in 300..399

EndOfHeaders ==
    /\ step = "headers"
    /\ answer.headers = <<>>
    /\ isMoveHeader' = (isMoveHeader /\ request.rpc)
    /\ \/ /\ ~IsRedirect(answer)
          /\ step' = "body"
          /\ UNCHANGED redirects
       \/ /\ IsRedirect(answer)
          /\ redirects < MAXREDIRS
          /\ redirects' = redirects + 1
          /\ step' = "sent"
       \/ /\ IsRedirect(answer)
          /\ redirects = MAXREDIRS
          /\ step' = "broken"
          /\ UNCHANGED redirects
    /\ UNCHANGED <<request, tries, answer, webdata, chunk, gSessionID,
                   response>>

\* Seeded bug: the size of the new buffer is not recorded.
AllocatedOnly(w) ==
    IF w.data = NULL
    THEN [w EXCEPT !.data = Resized(NULL, DATA_BUFFER_SIZE)]
    ELSE w

\* write_data_callback begins: without a buffer, one of a fixed size is taken.
Allocated(w) ==
    IF w.data = NULL
    THEN [w EXCEPT !.buffer_size = DATA_BUFFER_SIZE,
                   !.data = Resized(NULL, DATA_BUFFER_SIZE)]
    ELSE w

Receive(n) ==
    /\ step = "body"
    /\ answer.got + n <= Len(answer.body)
    /\ webdata' = Allocated(webdata)
    /\ chunk' = n
    /\ step' = "write"
    /\ UNCHANGED <<request, tries, redirects, answer, isMoveHeader,
                   gSessionID, response>>

\* Seeded bug: the final NUL is forgotten.
NeededTight == webdata.buffer_pos + chunk

\* The chunk and a NUL have to fit.
Needed == webdata.buffer_pos + chunk + 1

\* One round of the loop; what it arrives at is allocated.
Double ==
    /\ step = "write"
    /\ webdata.buffer_size < Needed
    /\ LET size == 2 * webdata.buffer_size IN
       webdata' = [webdata EXCEPT
                     !.buffer_size = size,
                     !.data = IF size < Needed THEN @ ELSE Resized(@, size)]
    /\ UNCHANGED <<step, request, tries, redirects, answer, chunk,
                   isMoveHeader, gSessionID, response>>

\* The memory after memcpy and the NUL behind it.
Stored(w, a, n) ==
    [k \in 1..Len(w.data) |->
        IF k \in w.buffer_pos + 1..w.buffer_pos + n
        THEN a.body[a.got + k - w.buffer_pos]
        ELSE IF k = w.buffer_pos + n + 1 THEN NUL ELSE w.data[k]]

Store ==
    /\ step = "write"
    /\ webdata.buffer_size >= Needed
    /\ webdata' = [webdata EXCEPT !.data = Stored(webdata, answer, chunk),
                                  !.buffer_pos = @ + chunk]
    /\ answer' = [answer EXCEPT !.got = @ + chunk]
    /\ chunk' = 0
    /\ step' = "body"
    /\ UNCHANGED <<request, tries, redirects, isMoveHeader, gSessionID,
                   response>>

\* All of the body has arrived.
Complete ==
    /\ step = "body"
    /\ answer.got = Len(answer.body)
    /\ step' = "done"
    /\ UNCHANGED <<request, tries, redirects, answer, webdata, chunk,
                   isMoveHeader, gSessionID, response>>

\* curl_easy_perform gives up: refused, cut off, or one of the timeouts.
Break ==
    /\ step \in {"sent", "headers", "body"}
    /\ step' = "broken"
    /\ UNCHANGED <<request, tries, redirects, answer, webdata, chunk,
                   isMoveHeader, gSessionID, response>>

-----------------------------------------------------------------------------
(***************************************************************************)
(* getHTTPData and sendHTTPData.                                           *)
(***************************************************************************)
Idle == [post |-> FALSE, rpc |-> FALSE, packet |-> NULL, id |-> NoId]

\* getHTTPData, up to curl_easy_perform.
getHTTPData ==
    /\ request' = Idle
    /\ tries' = 0
    /\ redirects' = 0
    /\ webdata' = EmptyWebData
    /\ answer' = NoAnswer
    /\ response' = NoResponse
    /\ step' = "sent"
    /\ UNCHANGED <<chunk, isMoveHeader, gSessionID>>

\* sendHTTPData, up to curl_easy_perform.  Only a request to Transmission
\* (its URL says so) carries the session id.
sendHTTPData(packet, rpc) ==
    /\ request' = [post |-> TRUE, rpc |-> rpc, packet |-> packet,
                   id |-> IF rpc THEN gSessionID ELSE NoId]
    /\ tries' = 1
    /\ redirects' = 0
    /\ webdata' = EmptyWebData
    /\ answer' = NoAnswer
    /\ response' = NoResponse
    /\ step' = "sent"
    /\ UNCHANGED <<chunk, isMoveHeader, gSessionID>>

\* Without a packet sendHTTPData returns at once.
sendsNothing ==
    /\ response' = NoResponse
    /\ step' = "returned"
    /\ UNCHANGED <<request, tries, redirects, answer, webdata, chunk,
                   isMoveHeader, gSessionID>>

\* HTTPResponse_new, and what is copied into it.  am_strndup makes NULL of
\* data that begins with a NUL, whatever its size.
CopiedData(w) ==
    IF w.data = NULL \/ w.buffer_pos = 0 \/ w.data[1] = NUL THEN NULL
    ELSE [k \in 1..w.buffer_pos |-> w.data[k]]

Copied(w, a) == [code |-> a.code, data |-> CopiedData(w),
                 size |-> w.buffer_pos, filename |-> w.filename]

Return(r) ==
    /\ response' = r
    /\ webdata' = EmptyWebData
    /\ step' = "returned"
    /\ UNCHANGED <<request, tries, redirects, answer, chunk, isMoveHeader,
                   gSessionID>>

\* A transfer that broke, and a POST refused twice, return NULL.
ReturnNULL ==
    /\ \/ step = "broken"
       \/ step = "done" /\ request.post /\ answer.code = 409 /\ tries = 0
    /\ Return(NoResponse)

ReturnResponse ==
    /\ step = "done"
    /\ ~(request.post /\ answer.code = 409)
    /\ Return(Copied(webdata, answer))

\* 409: a new handle with the new session id, the data of the answer dropped.
Retry ==
    /\ step = "done"
    /\ request.post
    /\ answer.code = 409
    /\ tries > 0
    /\ tries' = tries - 1
    /\ request' = [request EXCEPT
                     !.id = IF request.rpc THEN gSessionID ELSE NoId]
    /\ redirects' = 0
    /\ webdata' = WebData_clear(webdata)
    /\ answer' = NoAnswer
    /\ step' = "sent"
    /\ UNCHANGED <<chunk, isMoveHeader, gSessionID, response>>

\* The caller frees the response: of a transfer nothing is left but the two
\* static variables.
HTTPResponse_free ==
    /\ step' = "ready"
    /\ request' = Idle
    /\ tries' = 0
    /\ redirects' = 0
    /\ answer' = NoAnswer
    /\ webdata' = EmptyWebData
    /\ chunk' = 0
    /\ response' = NoResponse

\* A server answers.
Respond(code, headers, body) ==
    /\ step = "sent"
    /\ answer' = [code |-> code, headers |-> headers, body |-> body,
                  got |-> 0,
                  moved |-> \E k \in 1..Len(headers) :
                              headers[k].name = "Location"]
    /\ step' = "headers"
    /\ UNCHANGED <<request, tries, redirects, webdata, chunk, isMoveHeader,
                   gSessionID, response>>

InitWeb ==
    /\ step = "ready"
    /\ request = Idle
    /\ tries = 0
    /\ redirects = 0
    /\ answer = NoAnswer
    /\ webdata = EmptyWebData
    /\ chunk = 0
    /\ isMoveHeader = FALSE
    /\ gSessionID = NoId
    /\ response = NoResponse

TransferStep ==
    \/ HeaderLine \/ EndOfHeaders \/ Double \/ Store \/ Complete
    \/ \E n \in 1..MaxChunk : Receive(n)
    \/ ReturnNULL \/ ReturnResponse \/ Retry
=============================================================================
