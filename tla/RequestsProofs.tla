--------------------------- MODULE RequestsProofs ---------------------------
(***************************************************************************)
(* What holds of the transfers for every server, every chunk size and any  *)
(* number of restarts: the buffers are large enough, and an answer arrives *)
(* whole.                                                                  *)
(***************************************************************************)
EXTENDS Requests, SequenceTheorems, TLAPS

\* A finite sequence of anything.
IsText(t) == Len(t) \in Nat /\ t = [k \in 1..Len(t) |-> t[k]]

\* The records have their fields.
Shapes ==
    /\ webdata = [data |-> webdata.data, buffer_size |-> webdata.buffer_size,
                  buffer_pos |-> webdata.buffer_pos,
                  filename |-> webdata.filename]
    /\ answer = [code |-> answer.code, moved |-> answer.moved,
                 headers |-> answer.headers, body |-> answer.body,
                 got |-> answer.got]
    /\ request = [post |-> request.post, rpc |-> request.rpc,
                  packet |-> request.packet, id |-> request.id]
    /\ request.rpc \in BOOLEAN

\* Sizes are numbers, texts are texts.
Measures ==
    /\ step \in {"ready", "sent", "headers", "body", "write", "done",
                 "broken", "returned"}
    /\ chunk \in Nat
    /\ IsText(webdata.data)
    /\ webdata.buffer_size \in Nat /\ webdata.buffer_pos \in Nat
    /\ IsText(answer.body) /\ answer.got \in Nat
    /\ answer.headers \in Seq(Lines)

\* The memory is as large as buffer_size says, but between two rounds of the
\* loop that doubles it.
Sized ==
    step # "write" \/ webdata.buffer_size >= Needed =>
        webdata.buffer_size = Len(webdata.data)

\* What was stored is the beginning of the body.
Stores ==
    /\ step \in {"sent", "headers"} =>
         webdata.buffer_pos = 0 /\ answer.got = 0
    /\ step \in {"body", "write", "done"} =>
         /\ webdata.buffer_pos = answer.got
         /\ answer.got <= Len(answer.body)
         /\ answer.got <= Len(webdata.data)
         /\ \A k \in 1..answer.got : webdata.data[k] = answer.body[k]
    /\ step = "write" => answer.got + chunk <= Len(answer.body)
    /\ step = "done" => answer.got = Len(answer.body)

WebInv == Shapes /\ Measures /\ Sized /\ Stores /\ AnswerIsWhole

-----------------------------------------------------------------------------
(***************************************************************************)
(* Texts.                                                                  *)
(***************************************************************************)
\* Every sequence is a text.
LEMMA SequencesAreTexts ==
    ASSUME NEW S, NEW t \in Seq(S) PROVE IsText(t)
BY DEF IsText

\* The empty text is NULL.
LEMMA EmptyIsText == IsText(NULL) /\ Len(NULL) = 0
BY DEF IsText, NULL

\* A function on 1..n is a text of n elements.
LEMMA FunctionsAreTexts ==
    ASSUME NEW n \in Nat, NEW f, f = [k \in 1..n |-> f[k]]
    PROVE  IsText(f) /\ Len(f) = n
<1>1. DOMAIN f = 1..n OBVIOUS
<1>2. Len(f) = n BY <1>1
<1> QED BY <1>2 DEF IsText

\* Memory that was reallocated has its new size and keeps its contents.
LEMMA ResizedIsText ==
    ASSUME NEW data, IsText(data), NEW n \in Nat
    PROVE  /\ IsText(Resized(data, n)) /\ Len(Resized(data, n)) = n
           /\ \A k \in 1..n : k <= Len(data) => Resized(data, n)[k] = data[k]
<1> DEFINE r == Resized(data, n)
<1>1. r = [k \in 1..n |-> r[k]] BY DEF Resized
<1>2. IsText(r) /\ Len(r) = n BY <1>1, FunctionsAreTexts
<1>3. \A k \in 1..n : k <= Len(data) => r[k] = data[k] BY DEF Resized
<1> QED BY <1>2, <1>3

-----------------------------------------------------------------------------
(***************************************************************************)
(* The callbacks.                                                          *)
(***************************************************************************)
\* A header line sizes the buffer anew, drops it, or leaves it alone.
LEMMA HeaderKeepsBuffer ==
    ASSUME NEW w, NEW line \in Lines,
           w = [data |-> w.data, buffer_size |-> w.buffer_size,
                buffer_pos |-> w.buffer_pos, filename |-> w.filename],
           IsText(w.data), w.buffer_size = Len(w.data),
           NEW v, v \in {write_header_callback(w, line),
                         parse_Transmission_response(w, line)}
    PROVE  /\ v = [data |-> v.data, buffer_size |-> v.buffer_size,
                   buffer_pos |-> v.buffer_pos, filename |-> v.filename]
           /\ v.buffer_pos = w.buffer_pos
           /\ IsText(v.data) /\ v.buffer_size = Len(v.data)
<1>1. line.value + 1 \in Nat BY DEF Lines
<1>2. /\ IsText(Resized(w.data, line.value + 1))
      /\ Len(Resized(w.data, line.value + 1)) = line.value + 1
  BY <1>1, ResizedIsText
<1>3. CASE v = w BY <1>3
<1>4. CASE v = [w EXCEPT !.data = NULL, !.buffer_size = 0]
  BY <1>4, EmptyIsText
<1>5. CASE v = SizedBy(w, line.value)
  BY <1>5, <1>2 DEF SizedBy
<1>6. CASE v = [w EXCEPT !.filename = line.value]
  BY <1>6
<1> QED BY <1>3, <1>4, <1>5, <1>6
      DEF write_header_callback, parse_Transmission_response

\* A header line stores nothing of a body, and keeps the invariant.
LEMMA HeaderLineStep ==
    ASSUME WebInv, HeaderLine PROVE WebInv'
<1> DEFINE line == Head(answer.headers)
<1>1. line \in Lines /\ Tail(answer.headers) \in Seq(Lines)
  <2>1. answer.headers # <<>> BY DEF HeaderLine
  <2>2. answer.headers \in Seq(Lines) BY DEF WebInv, Measures
  <2> QED BY <2>1, <2>2, HeadTailProperties
<1>2. webdata' \in {write_header_callback(webdata, line),
                    parse_Transmission_response(webdata, line)}
  BY DEF HeaderLine
<1>3. IsText(webdata.data) /\ webdata.buffer_size = Len(webdata.data)
  BY DEF WebInv, Measures, Sized, HeaderLine
<1>4. /\ webdata' = [data |-> webdata'.data,
                     buffer_size |-> webdata'.buffer_size,
                     buffer_pos |-> webdata'.buffer_pos,
                     filename |-> webdata'.filename]
      /\ webdata'.buffer_pos = webdata.buffer_pos
      /\ IsText(webdata'.data)
      /\ webdata'.buffer_size = Len(webdata'.data)
  <2>1. webdata = [data |-> webdata.data,
                   buffer_size |-> webdata.buffer_size,
                   buffer_pos |-> webdata.buffer_pos,
                   filename |-> webdata.filename]
    BY DEF WebInv, Shapes
  <2> QED BY <1>1, <1>2, <1>3, <2>1, HeaderKeepsBuffer
<1>5. /\ answer' = [answer EXCEPT !.headers = Tail(answer.headers)]
      /\ step = "headers" /\ step' = step
      /\ UNCHANGED <<request, chunk, response>>
  BY DEF HeaderLine
<1>6. Shapes' BY <1>4, <1>5 DEF WebInv, Shapes
<1>7. Measures'
  <2>1. Len(webdata'.data) \in Nat BY <1>4 DEF IsText
  <2>2. answer'.body = answer.body /\ answer'.got = answer.got
        /\ answer'.headers = Tail(answer.headers)
    BY <1>5 DEF WebInv, Shapes
  <2>3. webdata.buffer_pos \in Nat /\ answer.got \in Nat /\ chunk \in Nat
        /\ IsText(answer.body)
    BY DEF WebInv, Measures
  <2> QED BY <1>1, <1>4, <1>5, <2>1, <2>2, <2>3 DEF Measures, IsText
<1>8. Sized' BY <1>4, <1>5 DEF Sized
<1>9. Stores' BY <1>4, <1>5 DEF WebInv, Shapes, Stores
<1>10. AnswerIsWhole' BY <1>5 DEF AnswerIsWhole
<1> QED BY <1>6, <1>7, <1>8, <1>9, <1>10 DEF WebInv

\* libcurl takes the answer for a redirect, or goes on to its body.
LEMMA EndOfHeadersStep ==
    ASSUME WebInv, EndOfHeaders PROVE WebInv'
<1>1. /\ step = "headers" /\ step' \in {"body", "sent", "broken"}
      /\ UNCHANGED <<request, answer, webdata, chunk, response>>
  BY DEF EndOfHeaders
<1>2. Shapes' BY <1>1 DEF WebInv, Shapes
<1>3. Measures' BY <1>1 DEF WebInv, Measures
<1>4. Sized' BY <1>1 DEF WebInv, Sized, Needed
<1>5. Stores' BY <1>1 DEF WebInv, Stores, Measures, IsText
<1>6. AnswerIsWhole' BY <1>1 DEF AnswerIsWhole
<1> QED BY <1>2, <1>3, <1>4, <1>5, <1>6 DEF WebInv

\* A chunk arrives, and the first one takes a buffer.
LEMMA ReceiveStep ==
    ASSUME WebInv, NEW n \in 1..MaxChunk, Receive(n) PROVE WebInv'
<1>1. /\ step = "body" /\ step' = "write" /\ chunk' = n
      /\ answer.got + n <= Len(answer.body)
      /\ webdata' = Allocated(webdata)
      /\ UNCHANGED <<request, answer, response>>
  BY DEF Receive
<1>2. n \in Nat BY SizesAssumption
<1>3. /\ IsText(Resized(NULL, DATA_BUFFER_SIZE))
      /\ Len(Resized(NULL, DATA_BUFFER_SIZE)) = DATA_BUFFER_SIZE
  BY SizesAssumption, EmptyIsText, ResizedIsText
<1>4. /\ webdata' = [data |-> webdata'.data,
                     buffer_size |-> webdata'.buffer_size,
                     buffer_pos |-> webdata'.buffer_pos,
                     filename |-> webdata'.filename]
      /\ webdata'.buffer_pos = webdata.buffer_pos
      /\ IsText(webdata'.data)
      /\ webdata'.buffer_size = Len(webdata'.data)
      /\ Len(webdata.data) > 0 => webdata'.data = webdata.data
  <2>1. CASE webdata.data = NULL
    <3> DEFINE data == Resized(NULL, DATA_BUFFER_SIZE)
    <3>1. webdata' = [webdata EXCEPT !.buffer_size = DATA_BUFFER_SIZE,
                                     !.data = data]
      BY <1>1, <2>1 DEF Allocated
    <3>2. Len(webdata.data) = 0 BY <2>1, EmptyIsText
    <3>3. Shapes BY DEF WebInv
    <3> HIDE DEF data
    <3>4. /\ webdata'.data = data
          /\ webdata'.buffer_size = DATA_BUFFER_SIZE
          /\ webdata'.buffer_pos = webdata.buffer_pos
          /\ webdata' = [data |-> webdata'.data,
                         buffer_size |-> webdata'.buffer_size,
                         buffer_pos |-> webdata'.buffer_pos,
                         filename |-> webdata'.filename]
      BY <3>1, <3>3 DEF Shapes
    <3> QED BY <1>3, <3>2, <3>4 DEF data
  <2>2. CASE webdata.data # NULL
    <3>1. webdata' = webdata BY <1>1, <2>2 DEF Allocated
    <3>2. webdata.buffer_size = Len(webdata.data)
      BY <1>1 DEF WebInv, Sized
    <3>3. Shapes /\ Measures BY DEF WebInv
    <3> QED BY <3>1, <3>2, <3>3 DEF Shapes, Measures
  <2> QED BY <2>1, <2>2
<1>5. Shapes' BY <1>1, <1>4 DEF WebInv, Shapes
<1>6. Measures'
  BY <1>1, <1>2, <1>4 DEF WebInv, Measures, IsText
<1>7. Sized' BY <1>4 DEF Sized
<1>8. Stores'
  <2>1. /\ webdata.buffer_pos = answer.got
        /\ answer.got \in Nat
        /\ answer.got <= Len(answer.body)
        /\ answer.got <= Len(webdata.data)
        /\ \A k \in 1..answer.got : webdata.data[k] = answer.body[k]
        /\ Len(webdata.data) \in Nat
        /\ Len(webdata'.data) \in Nat
    BY <1>1, <1>4 DEF WebInv, Stores, Measures, IsText
  <2>2. CASE Len(webdata.data) > 0
    BY <1>1, <1>4, <2>1, <2>2 DEF Stores
  <2>3. CASE Len(webdata.data) = 0
    BY <1>1, <1>4, <2>1, <2>3 DEF Stores
  <2> QED BY <2>1, <2>2, <2>3
<1>9. AnswerIsWhole' BY <1>1 DEF AnswerIsWhole
<1> QED BY <1>5, <1>6, <1>7, <1>8, <1>9 DEF WebInv

\* The buffer is doubled, and the memory with it when that is enough.
LEMMA DoubleStep ==
    ASSUME WebInv, Double PROVE WebInv'
<1> DEFINE size == 2 * webdata.buffer_size
<1>1. /\ step = "write" /\ step' = "write"
      /\ webdata.buffer_size < Needed
      /\ webdata' = [webdata EXCEPT
                       !.buffer_size = size,
                       !.data = IF size < Needed THEN @ ELSE Resized(@, size)]
      /\ UNCHANGED <<request, answer, chunk, response>>
  BY DEF Double
<1>2. size \in Nat BY DEF WebInv, Measures
<1>3. /\ IsText(Resized(webdata.data, size))
      /\ Len(Resized(webdata.data, size)) = size
      /\ \A k \in 1..size : k <= Len(webdata.data) =>
            Resized(webdata.data, size)[k] = webdata.data[k]
  BY <1>2, ResizedIsText DEF WebInv, Measures
<1>4. /\ webdata'.buffer_size = size
      /\ webdata'.buffer_pos = webdata.buffer_pos
      /\ webdata'.filename = webdata.filename
      /\ webdata'.data = IF size < Needed THEN webdata.data
                         ELSE Resized(webdata.data, size)
      /\ webdata' = [data |-> webdata'.data,
                     buffer_size |-> webdata'.buffer_size,
                     buffer_pos |-> webdata'.buffer_pos,
                     filename |-> webdata'.filename]
  BY <1>1 DEF WebInv, Shapes
<1>5. Needed' = Needed BY <1>1, <1>4 DEF Needed
<1>6. Shapes' BY <1>1, <1>4 DEF WebInv, Shapes
<1>7. Measures' BY <1>1, <1>2, <1>3, <1>4 DEF WebInv, Measures
<1>8. Sized'
  <2>1. Needed \in Nat BY DEF WebInv, Measures, Needed
  <2>2. webdata'.buffer_size >= Needed => ~(size < Needed)
    BY <1>2, <1>4, <2>1
  <2> QED BY <1>1, <1>3, <1>4, <1>5, <2>2 DEF Sized
<1>9. Stores'
  <2>1. /\ webdata.buffer_pos = answer.got
        /\ answer.got \in Nat /\ chunk \in Nat
        /\ answer.got <= Len(answer.body)
        /\ answer.got <= Len(webdata.data)
        /\ \A k \in 1..answer.got : webdata.data[k] = answer.body[k]
        /\ answer.got + chunk <= Len(answer.body)
        /\ Len(webdata.data) \in Nat /\ Len(answer.body) \in Nat
    BY <1>1 DEF WebInv, Stores, Measures, IsText
  <2>2. CASE size < Needed BY <1>1, <1>4, <2>1, <2>2 DEF Stores
  <2>3. CASE ~(size < Needed)
    <3>1. answer.got <= size BY <2>1, <2>3, <1>2 DEF Needed
    <3> QED
      BY <1>1, <1>2, <1>3, <1>4, <2>1, <2>3, <3>1, SMTT(30) DEF Stores
  <2> QED BY <2>2, <2>3
<1>10. AnswerIsWhole' BY <1>1 DEF AnswerIsWhole
<1> QED BY <1>6, <1>7, <1>8, <1>9, <1>10 DEF WebInv

\* The chunk is stored behind what was stored before.
LEMMA StoreStep ==
    ASSUME WebInv, Store PROVE WebInv'
<1> DEFINE data == Stored(webdata, answer, chunk)
<1>1. /\ step = "write" /\ step' = "body" /\ chunk' = 0
      /\ webdata.buffer_size >= Needed
      /\ webdata' = [webdata EXCEPT !.data = data, !.buffer_pos = @ + chunk]
      /\ answer' = [answer EXCEPT !.got = @ + chunk]
      /\ UNCHANGED <<request, response>>
  BY DEF Store
<1>2. /\ webdata.buffer_pos = answer.got
      /\ answer.got \in Nat /\ chunk \in Nat
      /\ answer.got <= Len(answer.body)
      /\ \A k \in 1..answer.got : webdata.data[k] = answer.body[k]
      /\ answer.got + chunk <= Len(answer.body)
      /\ Len(webdata.data) \in Nat /\ Len(answer.body) \in Nat
      /\ webdata.buffer_size = Len(webdata.data)
  BY <1>1 DEF WebInv, Stores, Measures, Sized, IsText
<1>3. answer.got + chunk + 1 <= Len(webdata.data)
  BY <1>1, <1>2 DEF Needed
<1>4. IsText(data) /\ Len(data) = Len(webdata.data)
  <2>1. data = [k \in 1..Len(webdata.data) |-> data[k]] BY DEF Stored
  <2> QED BY <1>2, <2>1, FunctionsAreTexts
<1>5. \A k \in 1..answer.got + chunk : data[k] = answer.body[k]
  <2> SUFFICES ASSUME NEW k \in 1..answer.got + chunk
               PROVE  data[k] = answer.body[k]
    OBVIOUS
  <2>1. k \in 1..Len(webdata.data) /\ k # answer.got + chunk + 1
    BY <1>2, <1>3
  <2>2. CASE k <= answer.got
    <3>1. k \notin answer.got + 1..answer.got + chunk BY <1>2, <2>2
    <3> QED BY <1>2, <2>1, <2>2, <3>1 DEF Stored
  <2>3. CASE k > answer.got
    <3>1. k \in answer.got + 1..answer.got + chunk BY <1>2, <2>3
    <3>2. answer.got + k - answer.got = k BY <1>2
    <3> QED BY <1>2, <2>1, <3>1, <3>2 DEF Stored
  <2> QED BY <1>2, <2>2, <2>3
<1>6. /\ webdata'.buffer_size = webdata.buffer_size
      /\ webdata'.buffer_pos = webdata.buffer_pos + chunk
      /\ webdata'.data = data
      /\ webdata' = [data |-> webdata'.data,
                     buffer_size |-> webdata'.buffer_size,
                     buffer_pos |-> webdata'.buffer_pos,
                     filename |-> webdata'.filename]
  BY <1>1 DEF WebInv, Shapes
<1>7. /\ answer'.got = answer.got + chunk
      /\ answer'.body = answer.body /\ answer'.headers = answer.headers
      /\ answer' = [code |-> answer'.code, moved |-> answer'.moved,
                    headers |-> answer'.headers, body |-> answer'.body,
                    got |-> answer'.got]
  BY <1>1 DEF WebInv, Shapes
<1>8. Shapes' BY <1>1, <1>6, <1>7 DEF WebInv, Shapes
<1>9. Measures' BY <1>1, <1>2, <1>4, <1>6, <1>7 DEF WebInv, Measures
<1>10. Sized' BY <1>2, <1>4, <1>6 DEF Sized
<1>11. Stores' BY <1>1, <1>2, <1>3, <1>4, <1>5, <1>6, <1>7 DEF Stores
<1>12. AnswerIsWhole' BY <1>1 DEF AnswerIsWhole
<1> QED BY <1>8, <1>9, <1>10, <1>11, <1>12 DEF WebInv

\* The body is complete, or the connection breaks.
LEMMA EndStep ==
    ASSUME WebInv, Complete \/ Break PROVE WebInv'
<1>1. /\ step' \in {"done", "broken"}
      /\ step # "write" /\ step # "returned"
      /\ step' = "done" =>
            step = "body" /\ answer.got = Len(answer.body)
      /\ UNCHANGED <<request, answer, webdata, chunk, response>>
  BY DEF Complete, Break
<1>2. Shapes' BY <1>1 DEF WebInv, Shapes
<1>3. Measures' BY <1>1 DEF WebInv, Measures
<1>4. Sized' BY <1>1 DEF WebInv, Sized, Needed
<1>5. Stores' BY <1>1 DEF WebInv, Stores
<1>6. AnswerIsWhole' BY <1>1 DEF AnswerIsWhole
<1> QED BY <1>2, <1>3, <1>4, <1>5, <1>6 DEF WebInv

-----------------------------------------------------------------------------
(***************************************************************************)
(* The calls.                                                              *)
(***************************************************************************)
\* Empty buffers satisfy everything.
LEMMA Emptied ==
    ASSUME WebInv, webdata' = EmptyWebData,
           answer' \in {answer, NoAnswer},
           request'.rpc \in BOOLEAN,
           request' = [post |-> request'.post, rpc |-> request'.rpc,
                       packet |-> request'.packet, id |-> request'.id],
           chunk' \in Nat,
           step' \in {"ready", "sent", "returned"},
           step' = "sent" => answer' = NoAnswer,
           AnswerIsWhole'
    PROVE  WebInv'
<1>1. /\ NoAnswer = [code |-> NoAnswer.code, moved |-> NoAnswer.moved,
                     headers |-> NoAnswer.headers, body |-> NoAnswer.body,
                     got |-> NoAnswer.got]
      /\ NoAnswer.headers \in Seq(Lines)
      /\ NoAnswer.got = 0 /\ IsText(NoAnswer.body)
  BY EmptyIsText, EmptySeq DEF NoAnswer, NULL
<1>2. /\ EmptyWebData.buffer_size = 0 /\ EmptyWebData.buffer_pos = 0
      /\ EmptyWebData.data = NULL
      /\ EmptyWebData = [data |-> EmptyWebData.data,
                         buffer_size |-> EmptyWebData.buffer_size,
                         buffer_pos |-> EmptyWebData.buffer_pos,
                         filename |-> EmptyWebData.filename]
  BY DEF EmptyWebData
<1>3. Shapes' BY <1>1, <1>2 DEF WebInv, Shapes
<1>4. Measures' BY <1>1, <1>2, EmptyIsText DEF WebInv, Measures
<1>5. Sized' BY <1>2, EmptyIsText DEF Sized
<1>6. Stores' BY <1>1, <1>2 DEF Stores
<1> QED BY <1>3, <1>4, <1>5, <1>6 DEF WebInv

\* What a response is made of is the whole body.
LEMMA CopiedIsWhole ==
    ASSUME WebInv, step = "done"
    PROVE  LET r == Copied(webdata, answer) IN
           /\ r.code = answer.code
           /\ r.size = Len(answer.body)
           /\ \/ r.data = answer.body
              \/ r.data = NULL /\ answer.body[1] = NUL
<1>1. /\ webdata.buffer_pos = Len(answer.body)
      /\ Len(answer.body) \in Nat
      /\ answer.body = [k \in 1..Len(answer.body) |-> answer.body[k]]
      /\ Len(answer.body) <= Len(webdata.data)
      /\ \A k \in 1..Len(answer.body) : webdata.data[k] = answer.body[k]
  BY DEF WebInv, Stores, Measures, IsText
<1>2. CASE Len(answer.body) = 0
  <2>1. answer.body = NULL
    BY <1>1, <1>2, EmptyIsText DEF IsText
  <2> QED BY <1>1, <1>2, <2>1 DEF Copied, CopiedData
<1>3. CASE Len(answer.body) > 0
  <2>1. webdata.data # NULL BY <1>1, <1>3, EmptyIsText
  <2>2. webdata.data[1] = answer.body[1] BY <1>1, <1>3
  <2>3. [k \in 1..Len(answer.body) |-> webdata.data[k]] = answer.body
    BY <1>1
  <2>4. CASE webdata.data[1] = NUL
    BY <1>1, <2>2, <2>4 DEF Copied, CopiedData
  <2>5. CASE webdata.data[1] # NUL
    BY <1>1, <1>3, <2>1, <2>3, <2>5 DEF Copied, CopiedData
  <2> QED BY <2>4, <2>5
<1> QED BY <1>1, <1>2, <1>3

\* What is returned is a copy of the whole body, or nothing.
LEMMA ReturnStep ==
    ASSUME WebInv, ReturnNULL \/ ReturnResponse PROVE WebInv'
<1>1. /\ webdata' = EmptyWebData /\ step' = "returned"
      /\ UNCHANGED <<request, answer, chunk>>
      /\ \/ response' = NoResponse
         \/ step = "done" /\ response' = Copied(webdata, answer)
  BY DEF ReturnNULL, ReturnResponse, Return
<1>2. AnswerIsWhole' BY <1>1, CopiedIsWhole DEF AnswerIsWhole
<1>3. chunk' \in Nat /\ Shapes BY <1>1 DEF WebInv, Measures
<1> QED BY <1>1, <1>2, <1>3, Emptied DEF Shapes

\* The second try begins with empty buffers.
LEMMA RetryStep ==
    ASSUME WebInv, Retry PROVE WebInv'
<1>1. /\ webdata' = WebData_clear(webdata) /\ step' = "sent"
      /\ answer' = NoAnswer /\ chunk' = chunk
      /\ request' = [request EXCEPT
                       !.id = IF request.rpc THEN gSessionID ELSE NoId]
  BY DEF Retry
<1>2. webdata' = EmptyWebData
  BY <1>1 DEF WebData_clear, EmptyWebData, WebInv, Shapes
<1>3. /\ request'.rpc \in BOOLEAN
      /\ request' = [post |-> request'.post, rpc |-> request'.rpc,
                     packet |-> request'.packet, id |-> request'.id]
  BY <1>1 DEF WebInv, Shapes
<1>4. AnswerIsWhole' BY <1>1 DEF AnswerIsWhole
<1>5. chunk' \in Nat BY <1>1 DEF WebInv, Measures
<1> QED BY <1>1, <1>2, <1>3, <1>4, <1>5, Emptied

\* A call begins, or nothing is to be sent, or the response is freed.
LEMMA CallStep ==
    ASSUME WebInv,
           \/ getHTTPData \/ HTTPResponse_free
           \/ sendsNothing /\ step = "returned"
           \/ \E p, r : r \in BOOLEAN /\ sendHTTPData(p, r)
    PROVE  WebInv'
<1>1. CASE getHTTPData \/ HTTPResponse_free
  <2>1. /\ request' = Idle /\ answer' = NoAnswer /\ webdata' = EmptyWebData
        /\ chunk' \in {0, chunk} /\ step' \in {"sent", "ready"}
    BY <1>1 DEF getHTTPData, HTTPResponse_free
  <2>2. /\ request'.rpc \in BOOLEAN
        /\ request' = [post |-> request'.post, rpc |-> request'.rpc,
                       packet |-> request'.packet, id |-> request'.id]
    BY <2>1 DEF Idle
  <2>3. AnswerIsWhole' BY <2>1 DEF AnswerIsWhole
  <2>4. chunk' \in Nat BY <2>1 DEF WebInv, Measures
  <2> QED BY <2>1, <2>2, <2>3, <2>4, Emptied
<1>2. CASE \E p, r : r \in BOOLEAN /\ sendHTTPData(p, r)
  <2>1. PICK p, r : r \in BOOLEAN /\ sendHTTPData(p, r) BY <1>2
  <2>2. /\ request' = [post |-> TRUE, rpc |-> r, packet |-> p,
                       id |-> IF r THEN gSessionID ELSE NoId]
        /\ answer' = NoAnswer /\ webdata' = EmptyWebData
        /\ chunk' = chunk /\ step' = "sent"
    BY <2>1 DEF sendHTTPData
  <2>3. /\ request'.rpc \in BOOLEAN
        /\ request' = [post |-> request'.post, rpc |-> request'.rpc,
                       packet |-> request'.packet, id |-> request'.id]
    BY <2>1, <2>2
  <2>4. AnswerIsWhole' BY <2>2 DEF AnswerIsWhole
  <2>5. chunk' \in Nat BY <2>2 DEF WebInv, Measures
  <2> QED BY <2>2, <2>3, <2>4, <2>5, Emptied
<1>3. CASE sendsNothing /\ step = "returned"
  <2>1. /\ response' = NoResponse /\ step' = step /\ step = "returned"
        /\ UNCHANGED <<request, answer, webdata, chunk>>
    BY <1>3 DEF sendsNothing
  <2>2. Shapes' BY <2>1 DEF WebInv, Shapes
  <2>3. Measures' BY <2>1 DEF WebInv, Measures
  <2>4. Sized' BY <2>1 DEF WebInv, Sized
  <2>5. Stores' BY <2>1 DEF Stores
  <2>6. AnswerIsWhole' BY <2>1 DEF AnswerIsWhole
  <2> QED BY <2>2, <2>3, <2>4, <2>5, <2>6 DEF WebInv
<1> QED BY <1>1, <1>2, <1>3

\* A response that begins to arrive has nothing stored of it.
LEMMA RespondStep ==
    ASSUME WebInv, NEW code, NEW headers \in Seq(Lines), NEW body,
           IsText(body), Respond(code, headers, body)
    PROVE  WebInv'
<1> DEFINE moved == \E k \in 1..Len(headers) : headers[k].name = "Location"
<1>1. /\ step = "sent" /\ step' = "headers"
      /\ answer' = [code |-> code, headers |-> headers, body |-> body,
                    got |-> 0, moved |-> moved]
      /\ UNCHANGED <<request, webdata, chunk, response>>
  BY DEF Respond
<1>2. /\ answer'.headers = headers /\ answer'.body = body /\ answer'.got = 0
      /\ answer' = [code |-> answer'.code, moved |-> answer'.moved,
                    headers |-> answer'.headers, body |-> answer'.body,
                    got |-> answer'.got]
  <2> HIDE DEF moved
  <2> QED BY <1>1
<1>3. Shapes' BY <1>1, <1>2 DEF WebInv, Shapes
<1>4. Measures' BY <1>1, <1>2 DEF WebInv, Measures
<1>5. Sized' BY <1>1 DEF WebInv, Sized
<1>6. Stores' BY <1>1, <1>2 DEF WebInv, Stores
<1>7. AnswerIsWhole' BY <1>1 DEF AnswerIsWhole
<1> QED BY <1>3, <1>4, <1>5, <1>6, <1>7 DEF WebInv

-----------------------------------------------------------------------------
(***************************************************************************)
(* The steps of the daemon and of the servers.                             *)
(***************************************************************************)
TMShape ==
    /\ tm = [version |-> tm.version, session |-> tm.session,
             torrents |-> tm.torrents, limited |-> tm.limited]
    /\ tm.session \in Nat /\ tm.version \in Versions

RequestsInv == WebInv /\ TMShape

\* A step that leaves the transfer alone.
LEMMA WebUnchanged ==
    ASSUME WebInv, UNCHANGED webVars PROVE WebInv'
BY DEF WebInv, webVars, Shapes, Measures, Sized, Needed, Stores, AnswerIsWhole

\* Every step of a transfer keeps the invariant.
LEMMA TransferKeepsInv ==
    ASSUME WebInv, TransferStep PROVE WebInv'
BY HeaderLineStep, EndOfHeadersStep, ReceiveStep, DoubleStep, StoreStep,
   EndStep, ReturnStep, RetryStep DEF TransferStep

\* Every step of the daemon begins or ends a call.
LEMMA DaemonCalls ==
    ASSUME Daemon \/ Restart
    PROVE  \/ getHTTPData \/ HTTPResponse_free
           \/ sendsNothing /\ step = "returned"
           \/ \E p, r : r \in BOOLEAN /\ sendHTTPData(p, r)
           \/ UNCHANGED webVars
<1>1. ASSUME NEW result, Conclude(result)
      PROVE  \/ HTTPResponse_free
             \/ \E p, r : r \in BOOLEAN /\ sendHTTPData(p, r)
  BY <1>1 DEF Conclude
<1>2. CASE VerifyProwlAPIKey \/ AskRPCVersion \/ SetUp \/ Notified \/ Restart
  BY <1>2 DEF VerifyProwlAPIKey, AskRPCVersion, SetUp, Notified, Restart
<1>3. CASE downloadTorrent \/ \E uri \in Magnets : uploadMagnet(uri)
  BY <1>3 DEF downloadTorrent, uploadMagnet
<1>4. CASE DownloadFails \/ SpeedChanged
  BY <1>1, <1>4 DEF DownloadFails, SpeedChanged
<1>5. CASE uploadTorrent
  BY <1>5 DEF uploadTorrent
<1>6. CASE Uploaded
  BY <1>1, <1>6 DEF Uploaded
<1> QED BY <1>2, <1>3, <1>4, <1>5, <1>6 DEF Daemon

\* The header lines that the servers make are lines.
LEMMA HeadersAreLines ==
    ASSUME NEW value \in Nat
    PROVE  /\ Header("Content-Length", value) \in Lines
           /\ Header("Session-Id", value) \in Lines
BY DEF Header, Lines

\* A server answers with header lines and a text.
LEMMA ServerResponds ==
    ASSUME TMShape, Server
    PROVE  \E code, body : \E headers \in Seq(Lines) :
               IsText(body) /\ Respond(code, headers, body)
<1>1. ASSUME NEW text, IsText(text), Says(text)
      PROVE  \E headers \in Seq(Lines) : Respond(200, headers, text)
  <2>1. Length(text) \in Lines
    <3>1. Len(text) \in Nat BY <1>1 DEF IsText
    <3> QED BY <3>1, HeadersAreLines DEF Length
  <2>2. <<>> \in Seq(Lines) /\ <<Length(text)>> \in Seq(Lines)
    <3> QED BY <2>1
  <2> QED BY <1>1, <2>2 DEF Says
<1>2. \A a : IsText(<<a>>) BY DEF IsText
<1>3. \A a, b : IsText(<<a, b>>) BY DEF IsText
<1>4. CASE WebServerAnswers
  <2>1. PICK p \in Pages : Respond(p.code, p.headers, p.body)
    BY <1>4 DEF WebServerAnswers
  <2>2. p.headers \in Seq(Lines) /\ p.body \in Seq(Byte)
    BY PagesAssumption
  <2>3. IsText(p.body) BY <2>2, SequencesAreTexts
  <2> QED BY <2>1, <2>2, <2>3
<1>5. CASE SessionRefused
  <2> DEFINE headers == <<SessionId(tm.session), Length(<<200>>)>>
  <2>1. SessionId(tm.session) \in Lines /\ Length(<<200>>) \in Lines
    <3>1. tm.session \in Nat /\ Len(<<200>>) \in Nat BY DEF TMShape
    <3> QED BY <3>1, HeadersAreLines DEF SessionId, Length
  <2>2. headers \in Seq(Lines)
    <3> QED BY <2>1
  <2>3. Respond(409, headers, <<200>>) BY <1>5 DEF SessionRefused
  <2> HIDE DEF headers
  <2> QED BY <1>2, <2>2, <2>3
<1>6. CASE AccessDenied
  <2>1. Respond(401, <<>>, <<200>>) BY <1>6 DEF AccessDenied
  <2>2. <<>> \in Seq(Lines) BY EmptySeq
  <2> QED BY <1>2, <2>1, <2>2
<1>7. CASE TakesTorrent BY <1>1, <1>3, <1>7 DEF TakesTorrent
<1>8. CASE HasTorrent BY <1>1, <1>2, <1>8 DEF HasTorrent
<1>9. CASE LimitsTorrent BY <1>1, <1>2, <1>9 DEF LimitsTorrent
<1>10. CASE TellsVersion BY <1>1, <1>3, <1>10 DEF TellsVersion
<1>11. CASE RefusesRequest BY <1>1, <1>2, <1>11 DEF RefusesRequest
<1> QED BY <1>4, <1>5, <1>6, <1>7, <1>8, <1>9, <1>10, <1>11 DEF Server

\* Transmission keeps its shape.
LEMMA TMStep ==
    ASSUME TMShape, [Next]_vars PROVE TMShape'
<1>1. CASE UNCHANGED tm BY <1>1 DEF TMShape
<1>2. CASE TakesTorrent BY <1>2 DEF TakesTorrent, TMShape
<1>3. CASE LimitsTorrent BY <1>3 DEF LimitsTorrent, TMShape
<1>4. CASE NewSession BY <1>4 DEF NewSession, TMShape
<1>5. CASE Transfer \/ ConnectionBreaks \/ Restart \/ UNCHANGED vars
  BY <1>1, <1>5 DEF Transfer, ConnectionBreaks, Restart, vars
<1>6. CASE Daemon
  <2>1. \A result : Conclude(result) => UNCHANGED tm BY DEF Conclude
  <2>2. UNCHANGED tm
    BY <1>6, <2>1 DEF Daemon, VerifyProwlAPIKey, AskRPCVersion, SetUp,
       downloadTorrent, uploadMagnet, BeginItem, DownloadFails,
       uploadTorrent, Uploaded, SpeedChanged, Notified
  <2> QED BY <1>1, <2>2
<1>7. CASE Server
  BY <1>1, <1>2, <1>3, <1>7 DEF Server, WebServerAnswers, SessionRefused,
     AccessDenied, HasTorrent, TellsVersion, RefusesRequest
<1> QED BY <1>2, <1>3, <1>4, <1>5, <1>6, <1>7 DEF Next

\* The invariant holds at first.
LEMMA RequestsInvHoldsAtFirst == Init => RequestsInv
<1> SUFFICES ASSUME Init PROVE RequestsInv
  OBVIOUS
<1>1. /\ step = "ready" /\ chunk = 0 /\ request = Idle /\ answer = NoAnswer
      /\ webdata = EmptyWebData /\ response = NoResponse
      /\ \E v \in Versions :
           tm = [version |-> v, session |-> 1, torrents |-> <<>>,
                 limited |-> {}]
  BY DEF Init, InitWeb
<1>2. Shapes BY <1>1 DEF Shapes, Idle, NoAnswer, EmptyWebData
<1>3. Measures
  BY <1>1, EmptyIsText, EmptySeq DEF Measures, NoAnswer, EmptyWebData, NULL
<1>4. Sized BY <1>1, EmptyIsText DEF Sized, EmptyWebData
<1>5. Stores BY <1>1 DEF Stores
<1>6. AnswerIsWhole BY <1>1 DEF AnswerIsWhole
<1>7. TMShape BY <1>1 DEF TMShape
<1> QED BY <1>2, <1>3, <1>4, <1>5, <1>6, <1>7 DEF RequestsInv, WebInv

\* Every step keeps the invariant.
LEMMA RequestsInvIsKept == RequestsInv /\ [Next]_vars => RequestsInv'
<1> SUFFICES ASSUME RequestsInv, [Next]_vars PROVE RequestsInv'
  OBVIOUS
<1>1. WebInv /\ TMShape BY DEF RequestsInv
<1>2. TMShape' BY <1>1, TMStep
<1>3. ASSUME Transfer PROVE WebInv'
  BY <1>1, <1>3, TransferKeepsInv DEF Transfer
<1>4. ASSUME Daemon \/ Restart PROVE WebInv'
  BY <1>1, <1>4, DaemonCalls, CallStep, WebUnchanged
<1>5. ASSUME Server PROVE WebInv'
  BY <1>1, <1>5, ServerResponds, RespondStep
<1>6. ASSUME ConnectionBreaks PROVE WebInv'
  BY <1>1, <1>6, EndStep DEF ConnectionBreaks
<1>7. ASSUME NewSession \/ UNCHANGED vars PROVE WebInv'
  BY <1>1, <1>7, WebUnchanged DEF NewSession, vars
<1> QED BY <1>1, <1>2, <1>3, <1>4, <1>5, <1>6, <1>7 DEF Next, RequestsInv

\* The strengthened invariant of the transfers: shapes and sizes, and that
\* what was stored is the beginning of the body that arrives.
THEOREM TransfersInvariant == Spec => []RequestsInv
BY RequestsInvHoldsAtFirst, RequestsInvIsKept, PTL DEF Spec

\* What write_data_callback writes fits into the memory it has, whatever
\* Content-Length announced, for chunks and bodies of any length.
THEOREM WritesAlwaysFit == Spec => []WritesFit
<1>1. RequestsInv => WritesFit
  <2> SUFFICES ASSUME WebInv PROVE WritesFit BY DEF RequestsInv
  <2>1. step # "write" => webdata.buffer_size = Len(webdata.data)
    BY DEF WebInv, Sized
  <2>2. ASSUME step = "write", webdata.buffer_size >= Needed
        PROVE  webdata.buffer_pos + chunk + 1 <= Len(webdata.data)
    BY <2>2 DEF WebInv, Sized, Needed, Measures
  <2> QED BY <2>1, <2>2 DEF WritesFit
<1> QED BY <1>1, TransfersInvariant, PTL

\* The caller gets the body of the response whose code is returned, whole and
\* unchanged, after any number of redirects, refusals and reallocations.
THEOREM AnswersAreWhole == Spec => []AnswerIsWhole
<1>1. RequestsInv => AnswerIsWhole BY DEF RequestsInv, WebInv
<1> QED BY <1>1, TransfersInvariant, PTL
=============================================================================
