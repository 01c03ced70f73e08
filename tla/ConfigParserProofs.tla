------------------------- MODULE ConfigParserProofs -------------------------
(***************************************************************************)
(* What holds of parse_config_file for every file: its scanner stays in    *)
(* the text, no file keeps it in its loops, the numbers of the session are *)
(* those of the last settings that set them, and what it finds in a file   *)
(* is the only meaning that the grammar gives it.                          *)
(***************************************************************************)
EXTENDS ConfigParser, Induction, SequenceTheorems

Places == {"open", "start", "comment", "option", "equals", "value",
           "quoted", "braces", "plain", "set",
           "done", "failed", "unread", "stray", "overrun", "aborted"}

\* A comment was begun and has not ended yet.
InComment ==
    \E k \in 1..Size : /\ k <= line_pos + 1
                       /\ file[k] = "#"
                       /\ \A j \in k..line_pos : file[j] # Nl

\* The characters from i to j could all stand in a name.
NameFrom(i, j) == \A k \in i..j : IsOptionChar(file[k])

\* More of them than opt has places for, and one that is read at the moment.
NameIsLong ==
    /\ line_pos > MAX_OPT_LEN /\ line_pos < Size
    /\ NameFrom(line_pos - MAX_OPT_LEN, line_pos + 1)

\* The strengthening: the text has no NUL in it, so that whoever sees a
\* character is inside of the text; a comment remembers where it began, and
\* a name is what was read last.
Scanning ==
    /\ file \in Seq(Char)
    /\ pc \in Places
    /\ line_pos \in 0..Len(file)
    /\ opt \in Seq(Char) /\ param \in Seq(Char)
    /\ applied \in Seq([opt : Seq(Char), param : Seq(Char)])
    /\ pc = "comment" => InComment
    /\ pc = "stray" =>
         \/ line_pos = Size /\ InComment
         \/ LacksNumber(Known(Last(applied).opt), Last(applied).param)
    /\ pc = "option" =>
         Len(opt) <= line_pos /\ NameFrom(line_pos - Len(opt) + 1, line_pos)
    /\ pc = "overrun" =>
         \/ NameIsLong
         \/ Overruns(Known(Last(applied).opt), Last(applied).param)

\* A text holds no NUL, and a line break is none.
LEMMA NulIsNoChar == NUL \notin Char /\ Nl # NUL
BY DEF NUL, Char, Nl

\* Whatever is not the NUL is in the text.
LEMMA HereIsInside ==
    ASSUME file \in Seq(Char), line_pos \in 0..Len(file), Here # NUL
    PROVE  line_pos < Size /\ Here = file[line_pos + 1]
BY DEF Here, Size

\* And the NUL is behind it.
LEMMA NulIsBehind ==
    ASSUME file \in Seq(Char), line_pos \in 0..Len(file), Here = NUL
    PROVE  line_pos = Size
<1>1. line_pos < Size => file[line_pos + 1] \in Char
  BY DEF Size
<1> QED BY <1>1, NulIsNoChar DEF Here, Size

\* It holds at first.
LEMMA ScanningInit == Init => Scanning
<1> SUFFICES ASSUME Init PROVE Scanning OBVIOUS
<1>1. PICK i \in Inputs : file = i.text BY DEF Init
<1>2. file \in Seq(Char) BY <1>1, ParserAssumption
<1> QED BY <1>2 DEF Init, Scanning, Places

\* Where a value begins, in short.
BeginsValue ==
    /\ pc = "value" /\ line_pos < Size
    /\ \/ pc' = "quoted" /\ line_pos' = line_pos + 1
       \/ pc' = "braces" /\ line_pos' = line_pos + 1
       \/ pc' = "plain" /\ line_pos' = line_pos
    /\ param' = <<>>
    /\ UNCHANGED <<text, opt, session, applied>>

\* Where BeginValue goes, in short.
LEMMA ValueBegins == BeginValue => BeginsValue
<1> SUFFICES ASSUME BeginValue PROVE BeginsValue OBVIOUS
<1>1. /\ pc = "value" /\ line_pos < Size
      /\ param' = <<>>
      /\ UNCHANGED <<text, opt, session, applied>>
  BY DEF BeginValue
<1>2. \/ pc' = "quoted" /\ line_pos' = line_pos + 1
      \/ pc' = "braces" /\ line_pos' = line_pos + 1
      \/ pc' = "plain" /\ line_pos' = line_pos
  BY Zenon DEF BeginValue, Goto, Advance, Keep
<1> QED BY <1>1, <1>2 DEF BeginsValue

\* A step from character to character stays in the text.
LEMMA ScanningNext == Scanning /\ [Next]_vars => Scanning'
<1> SUFFICES ASSUME Scanning, [Next]_vars PROVE Scanning' OBVIOUS
<1> USE DEF Scanning, Places, text, Goto, Advance, Keep, Size
<1>0. ASSUME line_pos < Size PROVE Here \in Char
  BY <1>0 DEF Here
<1>1. CASE Open
  BY <1>1 DEF Open
<1>2. CASE SkipWhitespace
  <2>1. line_pos < Size
    BY <1>2, HereIsInside DEF SkipWhitespace, IsSpace, NUL, Nl
  <2> QED BY <1>2, <2>1 DEF SkipWhitespace
<1>3. CASE EndOfFile
  BY <1>3 DEF EndOfFile
<1>4. CASE BeginComment
  <2>1. line_pos < Size /\ file[line_pos + 1] = "#"
    BY <1>4, HereIsInside DEF BeginComment, NUL
  <2>2. InComment
    <3>1. line_pos + 1 \in 1..Size
      BY <2>1
    <3>2. \A j \in line_pos + 1..line_pos : file[j] # Nl
      <4>1. \A j \in line_pos + 1..line_pos : FALSE OBVIOUS
      <4> QED BY <4>1
    <3> QED BY <2>1, <3>1, <3>2 DEF InComment
  <2>3. InComment'
    BY <1>4, <2>2 DEF BeginComment, InComment
  <2> QED BY <1>4, <2>3 DEF BeginComment
<1>5. CASE SkipComment
  <2>1. CASE Here = Nl /\ Goto("start") /\ Advance
    BY <1>5, <2>1, HereIsInside, NulIsNoChar DEF SkipComment
  <2>2. CASE Here \notin {Nl, NUL} /\ Goto("comment") /\ Advance
    <3>1. line_pos < Size /\ file[line_pos + 1] # Nl
      BY <2>2, HereIsInside
    <3>2. PICK k \in 1..Size : /\ k <= line_pos + 1 /\ file[k] = "#"
                               /\ \A j \in k..line_pos : file[j] # Nl
      BY <1>5 DEF SkipComment, InComment
    <3>3. ASSUME NEW j \in k..line_pos + 1 PROVE file[j] # Nl
      <4>1. j \in k..line_pos \/ j = line_pos + 1 OBVIOUS
      <4> QED BY <3>1, <3>2, <4>1
    <3>4. InComment'
      BY <1>5, <2>2, <3>1, <3>2, <3>3 DEF SkipComment, InComment
    <3> QED BY <1>5, <2>2, <3>1, <3>4 DEF SkipComment
  <2>3. CASE Here = NUL /\ Goto("stray") /\ Keep
    <3>1. line_pos = Size
      BY <2>3, NulIsBehind
    <3>2. InComment'
      BY <1>5, <2>3 DEF SkipComment, InComment
    <3> QED BY <1>5, <2>3, <3>1, <3>2 DEF SkipComment
  <2> QED BY <1>5, <2>1, <2>2, <2>3 DEF SkipComment
<1>6. CASE BeginOption
  <2>1. /\ pc' = "option" /\ opt' = <<>>
        /\ UNCHANGED <<file, line_pos, param, applied>>
    BY <1>6 DEF BeginOption
  <2>2. Len(<<>>) = 0 /\ <<>> \in Seq(Char) OBVIOUS
  <2>3. Len(opt') <= line_pos' /\ line_pos' - Len(opt') + 1 > line_pos'
    BY <2>1, <2>2
  <2>4. NameFrom(line_pos - Len(opt) + 1, line_pos)'
    BY <2>1, <2>2 DEF NameFrom
  <2> QED BY <2>1, <2>2, <2>3, <2>4
<1>7. CASE ReadOption
  <2>1. line_pos < Size /\ Here = file[line_pos + 1]
    BY <1>7, HereIsInside DEF ReadOption, IsOptionChar, IsPrint
  <2>2. Here \in Char
    BY <1>0, <2>1
  <2>3. /\ Len(opt) <= line_pos /\ Len(opt) \in Nat
        /\ NameFrom(line_pos - Len(opt) + 1, line_pos)
        /\ IsOptionChar(file[line_pos + 1])
        /\ UNCHANGED <<file, param, applied>>
    BY <1>7, <2>1 DEF ReadOption
  <2>4. NameFrom(line_pos - Len(opt) + 1, line_pos + 1)
    <3> SUFFICES ASSUME NEW k \in line_pos - Len(opt) + 1..line_pos + 1
                 PROVE  IsOptionChar(file[k])
      BY DEF NameFrom
    <3>1. k \in line_pos - Len(opt) + 1..line_pos \/ k = line_pos + 1
      BY <2>3
    <3> QED BY <2>3, <3>1 DEF NameFrom
  <2>5. CASE Len(opt) <= MAX_OPT_LEN /\ pc' = "option"
             /\ opt' = Append(opt, Here) /\ line_pos' = line_pos + 1
    <3>1. Len(opt') = Len(opt) + 1 /\ opt' \in Seq(Char)
      BY <2>2, <2>5
    <3>2. line_pos' - Len(opt') + 1 = line_pos - Len(opt) + 1
      BY <2>3, <2>5, <3>1
    <3>3. NameFrom(line_pos - Len(opt) + 1, line_pos)'
      BY <2>3, <2>4, <2>5, <3>2 DEF NameFrom
    <3> QED BY <2>1, <2>3, <2>5, <3>1, <3>3
  <2>6. CASE Len(opt) > MAX_OPT_LEN /\ pc' = "overrun"
             /\ UNCHANGED <<opt, line_pos>>
    <3>1. MAX_OPT_LEN \in Nat
      BY ParserAssumption
    <3>2. line_pos > MAX_OPT_LEN
          /\ line_pos - Len(opt) + 1 <= line_pos - MAX_OPT_LEN
      BY <2>3, <2>6, <3>1
    <3>3. NameFrom(line_pos - MAX_OPT_LEN, line_pos + 1)
      BY <2>3, <2>4, <3>1, <3>2 DEF NameFrom
    <3>4. NameIsLong'
      BY <2>1, <2>3, <2>6, <3>2, <3>3 DEF NameIsLong, NameFrom
    <3> QED BY <2>3, <2>6, <3>4
  <2> QED BY <1>7, <2>5, <2>6 DEF ReadOption
<1>8. CASE EndOption
  BY <1>8 DEF EndOption
<1>9. CASE CheckEquals
  BY <1>9 DEF CheckEquals
<1>10. CASE BeginValue
  <2>1. BeginsValue
    BY <1>10, ValueBegins
  <2> QED BY <2>1 DEF BeginsValue
<1>11. CASE ReadValue
  <2>1. line_pos < Size /\ Here \in Char
    BY <1>0, <1>11 DEF ReadValue, MayRead
  <2>2. param' \in Seq(Char)
    BY <1>11, <2>1 DEF ReadValue
  <2> QED BY <1>11, <2>1, <2>2 DEF ReadValue
<1>12. CASE EndValue
  BY <1>12 DEF EndValue, MayRead
<1>13. CASE ReadPlain
  <2>1. line_pos < Size
    BY <1>13, HereIsInside DEF ReadPlain, IsPlainChar, IsPrint
  <2>2. Here \in Char
    BY <1>0, <2>1
  <2> QED BY <1>13, <2>1, <2>2 DEF ReadPlain
<1>14. CASE EndPlain
  BY <1>14 DEF EndPlain
<1>15. CASE Set
  <2> DEFINE setting == [opt |-> opt, param |-> param]
  <2>1. applied' = Append(applied, setting)
    BY <1>15 DEF Set
  <2>2. applied' \in Seq([opt : Seq(Char), param : Seq(Char)])
    BY <2>1
  <2>3. Last(applied').opt = opt /\ Last(applied').param = param
    BY <2>1, <2>2 DEF Last
  <2>4. /\ pc' = "stray" => LacksNumber(Known(opt), param)
        /\ pc' = "overrun" => Overruns(Known(opt), param)
    BY <1>15 DEF Set
  <2>5. pc' \in Places /\ pc' \notin {"comment", "option"}
    BY <1>15 DEF Set
  <2>6. UNCHANGED <<file, line_pos, opt, param>>
    BY <1>15 DEF Set
  <2> QED BY <2>2, <2>3, <2>4, <2>5, <2>6
<1>16. CASE Returned
  BY <1>16 DEF Returned, vars, InComment, NameFrom, NameIsLong
<1>17. CASE UNCHANGED vars
  BY <1>17 DEF vars, InComment, NameFrom, NameIsLong
<1> QED
  BY <1>1, <1>2, <1>3, <1>4, <1>5, <1>6, <1>7, <1>8, <1>9, <1>10, <1>11,
     <1>12, <1>13, <1>14, <1>15, <1>16, <1>17 DEF Next

\* The strengthening holds of every state.
THEOREM ScanningAlways == Spec => []Scanning
BY ScanningInit, ScanningNext, PTL DEF Spec

-----------------------------------------------------------------------------
\* A comment that has not ended at the end of the file is the rest of it.
LEMMA OpenCommentIsSeen ==
    ASSUME file \in Seq(Char), line_pos = Size, InComment
    PROVE  \E k \in 1..Size : IsOpenComment(SubSeq(file, k, Size))
<1>1. PICK k \in 1..Size : /\ file[k] = "#"
                           /\ \A j \in k..Size : file[j] # Nl
  BY DEF InComment
<1> DEFINE rest == SubSeq(file, k, Size)
<1>2. /\ Len(rest) = Size - k + 1
      /\ \A j \in 1..Size - k + 1 : rest[j] = file[k + j - 1]
  BY DEF Size
<1>3. rest[1] = "#" /\ Len(rest) > 0
  BY <1>1, <1>2 DEF Size
<1>4. ASSUME NEW j \in 1..Len(rest) PROVE rest[j] # Nl
  <2>1. k + j - 1 \in k..Size BY <1>2 DEF Size
  <2> QED BY <1>1, <1>2, <2>1
<1>5. IsOpenComment(rest)
  BY <1>3, <1>4 DEF IsOpenComment, Begins
<1> QED BY <1>5

\* A name that is too long is seen in the file.
LEMMA LongNameIsSeen ==
    ASSUME file \in Seq(Char), line_pos \in 0..Len(file), NameIsLong
    PROVE  All(SubSeq(file, line_pos - MAX_OPT_LEN, line_pos + 1),
               IsOptionChar)
<1> DEFINE from == line_pos - MAX_OPT_LEN
           to   == line_pos + 1
           name == SubSeq(file, from, to)
<1>1. from \in 1..Size /\ to \in 1..Size /\ from <= to
  BY ParserAssumption DEF NameIsLong, Size
<1>2. /\ Len(name) = to - from + 1
      /\ \A k \in 1..to - from + 1 : name[k] = file[from + k - 1]
  BY <1>1 DEF Size
<1>3. \A k \in from..to : IsOptionChar(file[k])
  BY DEF NameIsLong, NameFrom
<1> HIDE DEF from, to, name
<1>4. ASSUME NEW k \in 1..Len(name) PROVE IsOptionChar(name[k])
  <2>1. k \in 1..to - from + 1 /\ from + k - 1 \in from..to
    BY <1>1, <1>2
  <2> QED BY <1>2, <1>3, <2>1
<1>5. All(name, IsOptionChar)
  BY <1>4 DEF All
<1> QED BY <1>5 DEF name, from, to

\* The scanner leaves the text and its buffers at the places that
\* StaysInside names and nowhere else (config_parser.c:591, :143, :603).
THEOREM ScannerStaysInside == Spec => []StaysInside
<1>1. ASSUME Scanning, pc = "overrun"
      PROVE  \/ /\ line_pos > MAX_OPT_LEN /\ line_pos < Size
                /\ All(SubSeq(file, line_pos - MAX_OPT_LEN, line_pos + 1),
                       IsOptionChar)
             \/ Overruns(Known(Last(applied).opt), Last(applied).param)
  <2>1. CASE NameIsLong
    BY <1>1, <2>1, LongNameIsSeen DEF Scanning, NameIsLong
  <2> QED BY <1>1, <2>1 DEF Scanning
<1>2. ASSUME Scanning, pc = "stray"
      PROVE  \/ /\ line_pos = Size
                /\ \E k \in 1..Size : IsOpenComment(SubSeq(file, k, Size))
             \/ LacksNumber(Known(Last(applied).opt), Last(applied).param)
  BY <1>2, OpenCommentIsSeen DEF Scanning
<1>3. Scanning => line_pos <= Size
  BY DEF Scanning, Size
<1>4. Scanning => StaysInside
  BY <1>1, <1>2, <1>3, Zenon DEF StaysInside
<1> QED BY <1>4, ScanningAlways, PTL

\* Every step scans on or ranks higher, whatever the file.
LEMMA StepScansForward ==
    ASSUME Scanning, Next, ~UNCHANGED vars
    PROVE  \/ line_pos' > line_pos
           \/ line_pos' = line_pos /\ Rank[pc'] > Rank[pc]
<1> USE DEF Scanning, Places, Rank, text, Goto, Advance, Keep
<1>1. CASE Open           BY <1>1 DEF Open
<1>2. CASE SkipWhitespace BY <1>2 DEF SkipWhitespace
<1>3. CASE EndOfFile      BY <1>3 DEF EndOfFile
<1>4. CASE BeginComment   BY <1>4 DEF BeginComment
<1>5. CASE SkipComment    BY <1>5 DEF SkipComment
<1>6. CASE BeginOption    BY <1>6 DEF BeginOption
<1>7. CASE ReadOption     BY <1>7 DEF ReadOption
<1>8. CASE EndOption      BY <1>8 DEF EndOption
<1>9. CASE CheckEquals    BY <1>9 DEF CheckEquals
<1>10. CASE BeginValue
  <2>1. BeginsValue
    BY <1>10, ValueBegins
  <2> QED BY <2>1 DEF BeginsValue
<1>11. CASE ReadValue     BY <1>11 DEF ReadValue
<1>12. CASE EndValue      BY <1>12 DEF EndValue
<1>13. CASE ReadPlain     BY <1>13 DEF ReadPlain
<1>14. CASE EndPlain      BY <1>14 DEF EndPlain
<1>15. CASE Set           BY <1>15 DEF Set
<1>16. CASE Returned      BY <1>16 DEF Returned
<1> QED
  BY <1>1, <1>2, <1>3, <1>4, <1>5, <1>6, <1>7, <1>8, <1>9, <1>10, <1>11,
     <1>12, <1>13, <1>14, <1>15, <1>16 DEF Next

\* No file keeps parse_config_file in its loops: a scan has as many steps as
\* the file has characters, and no more than seven between two of them.
THEOREM ScannerScansForward == Spec => ScansForward
<1>1. Scanning /\ [Next]_vars =>
        [\/ line_pos' > line_pos
         \/ line_pos' = line_pos /\ Rank[pc'] > Rank[pc]]_vars
  BY StepScansForward
<1> QED BY <1>1, ScanningAlways, PTL DEF Spec, ScansForward

-----------------------------------------------------------------------------
(***************************************************************************)
(* The numbers of a session.                                               *)
(***************************************************************************)
NumberFields == {"check_interval", "upspeed", "rpc_port",
                 "use_transmission", "start_torrent"}

\* parseUInt returns a number above 0, or -1.
LEMMA ParsedNumber ==
    ASSUME NEW str
    PROVE  parseUInt(str) \in (Nat \ {0}) \cup {-1}
BY PathAssumption DEF parseUInt

\* Numbers are cut to the widths of their fields, and stay what they are
\* where they fit.
LEMMA ByteIsCut ==
    ASSUME NEW n \in Nat
    PROVE  AsUint8(n) \in 0..255 /\ (n <= 255 => AsUint8(n) = n)
BY DEF AsUint8

\* The same of 16 bits with a sign.
LEMMA ShortIsCut ==
    ASSUME NEW n \in Nat
    PROVE  /\ AsInt16(n) \in Int
           /\ -32768 <= AsInt16(n) /\ AsInt16(n) <= 32767
           /\ n <= 32767 => AsInt16(n) = n
<1> DEFINE m == n + 32768
           r == m % 65536
<1>1. m \in Nat /\ m = n + 32768
  OBVIOUS
<1> HIDE DEF m
<1>m. m \in Nat
  BY <1>1
<1>2. r \in Int /\ 0 <= r /\ r < 65536
  BY <1>m
<1>7. m < 65536 => r = m
  BY <1>m
<1>4. AsInt16(n) = r - 32768
  BY DEF AsInt16, m
<1> HIDE DEF r
<1>3. n <= 32767 => r = m
  BY <1>1, <1>7
<1>5. AsInt16(n) \in Int /\ -32768 <= AsInt16(n) /\ AsInt16(n) <= 32767
  BY <1>2, <1>4
<1>6. n <= 32767 => AsInt16(n) = n
  BY <1>1, <1>3, <1>4
<1> QED
  BY <1>5, <1>6

\* A field that is none of the numbers.
LEMMA OtherField ==
    ASSUME NEW as, NumberFields \subseteq DOMAIN as,
           NEW field, field \notin NumberFields, NEW v, NEW s,
           s = [as EXCEPT ![field] = v]
    PROVE  /\ NumberFields \subseteq DOMAIN s
           /\ s.check_interval = as.check_interval
           /\ s.upspeed = as.upspeed /\ s.rpc_port = as.rpc_port
           /\ s.use_transmission = as.use_transmission
           /\ s.start_torrent = as.start_torrent
BY DEF NumberFields

\* What set_option does to the numbers of a session.
SetsNumbers(as, s, name, n) ==
    /\ NumberFields \subseteq DOMAIN s
    /\ s.check_interval = IF name = "interval" /\ n > 0
                          THEN AsUint8(n) ELSE as.check_interval
    /\ s.upspeed = IF name = "upload-limit" /\ n > 0
                   THEN AsInt16(n) ELSE as.upspeed
    /\ s.rpc_port = IF name = "rpc-port" /\ IsPort(n)
                    THEN n ELSE as.rpc_port
    /\ s.use_transmission \in {as.use_transmission, 0, 1}
    /\ s.start_torrent \in {as.start_torrent, 0, 1}

\* set_option sets a number as said, and leaves every other alone.
LEMMA SetOptionSets ==
    ASSUME NEW as, NumberFields \subseteq DOMAIN as, NEW name, NEW given
    PROVE  SetsNumbers(as, set_option(as, name, given), name,
                       parseUInt(given))
<1> DEFINE s == set_option(as, name, given)
           n == parseUInt(given)
           Numeric == {"interval", "upload-limit", "rpc-port"}
<1>n. n \in Int /\ (n <= 0 => ~IsPort(n))
  BY ParsedNumber DEF IsPort
<1> SUFFICES SetsNumbers(as, s, name, n)
  OBVIOUS
<1> HIDE DEF s, n
<1>1. ASSUME name \notin Numeric, NEW field, field \notin NumberFields,
             NEW v, s = [as EXCEPT ![field] = v]
      PROVE  SetsNumbers(as, s, name, n)
  <2>1. /\ NumberFields \subseteq DOMAIN s
        /\ s.check_interval = as.check_interval
        /\ s.upspeed = as.upspeed /\ s.rpc_port = as.rpc_port
        /\ s.use_transmission = as.use_transmission
        /\ s.start_torrent = as.start_torrent
    BY <1>1, OtherField
  <2> QED
    BY <1>1, <2>1 DEF SetsNumbers
<1>2. ASSUME s = as, name \in Numeric => ~(n > 0) \/ name = "rpc-port",
             name = "rpc-port" => ~IsPort(n)
      PROVE  SetsNumbers(as, s, name, n)
  BY <1>2 DEF SetsNumbers
<1>3. CASE name = "feed"
  <2>1. s = [as EXCEPT !["feeds"] = <<parseFeed(given)>> \o as.feeds]
    BY <1>3 DEF set_option, s, TextOf, PathOf, SwitchOf
  <2>2. "feeds" \notin NumberFields
    BY DEF NumberFields
  <2> QED
    BY <1>1, <1>3, <2>1, <2>2
<1>4. CASE name = "filter"
  <2>1. s = [as EXCEPT !["filters"] = <<parseFilter(given)>> \o as.filters]
    BY <1>4 DEF set_option, s, TextOf, PathOf, SwitchOf
  <2>2. "filters" \notin NumberFields
    BY DEF NumberFields
  <2> QED
    BY <1>1, <1>4, <2>1, <2>2
<1>5. CASE name \in DOMAIN PathOf
  <2> DEFINE w == WithPath(as, name, given)
  <2>1. \E v : w = [as EXCEPT ![PathOf[name]] = v]
    BY DEF WithPath
  <2>2. PathOf[name] \notin NumberFields /\ name \notin Numeric
    BY <1>5 DEF PathOf, NumberFields
  <2>3. "transmission_version" \notin NumberFields
    BY DEF NumberFields
  <2>4. \/ s = w
        \/ s = [w EXCEPT !["transmission_version"] = "external"]
    BY <1>5 DEF set_option, s, TextOf, PathOf, SwitchOf
  <2> DEFINE field == PathOf[name]
  <2>7. PICK v : w = [as EXCEPT ![field] = v]
    BY <2>1
  <2>8. field \notin NumberFields
    BY <2>2
  <2> HIDE DEF w, field
  <2>5. CASE s = w
    BY <1>1, <2>2, <2>5, <2>7, <2>8
  <2>6. CASE s = [w EXCEPT !["transmission_version"] = "external"]
    <3>1. /\ NumberFields \subseteq DOMAIN w
          /\ w.check_interval = as.check_interval
          /\ w.upspeed = as.upspeed /\ w.rpc_port = as.rpc_port
          /\ w.use_transmission = as.use_transmission
          /\ w.start_torrent = as.start_torrent
      BY <2>7, <2>8, OtherField
    <3>2. /\ NumberFields \subseteq DOMAIN s
          /\ s.check_interval = w.check_interval
          /\ s.upspeed = w.upspeed /\ s.rpc_port = w.rpc_port
          /\ s.use_transmission = w.use_transmission
          /\ s.start_torrent = w.start_torrent
      BY <2>3, <2>6, <3>1, OtherField
    <3> QED
      BY <2>2, <3>1, <3>2 DEF SetsNumbers
  <2> QED
    BY <2>4, <2>5, <2>6
<1>6. CASE name \in DOMAIN TextOf
  <2>1. s = [as EXCEPT ![TextOf[name]] = am_strdup(given)]
    BY <1>6 DEF set_option, s, TextOf, PathOf, SwitchOf
  <2>2. TextOf[name] \notin NumberFields
    BY <1>6 DEF TextOf, NumberFields
  <2>3. name \notin Numeric
    BY <1>6 DEF TextOf
  <2> QED
    BY <1>1, <2>1, <2>2, <2>3
<1>7. CASE name = "transmission-version"
  <2>1. s = as \/ s = [as EXCEPT !["transmission_version"] = VersionOf(given)]
    BY <1>7 DEF set_option, s, TextOf, PathOf, SwitchOf
  <2>2. "transmission_version" \notin NumberFields
    BY DEF NumberFields
  <2> QED
    BY <1>1, <1>2, <1>7, <2>1, <2>2
<1>8. CASE name \in DOMAIN SwitchOf
  <2>e. ~(IsNo(given) /\ IsYes(given))
    BY DEF IsNo, IsYes, Begins
  <2>1. \/ s = as
        \/ s = [as EXCEPT ![SwitchOf[name]] = 0]
        \/ s = [as EXCEPT ![SwitchOf[name]] = 1]
    <3>1. CASE IsNo(given)
      BY <1>8, <2>e, <3>1 DEF set_option, s, TextOf, PathOf, SwitchOf
    <3>2. CASE ~IsNo(given) /\ IsYes(given)
      BY <1>8, <3>2 DEF set_option, s, TextOf, PathOf, SwitchOf
    <3>3. CASE ~IsNo(given) /\ ~IsYes(given)
      BY <1>8, <3>3 DEF set_option, s, TextOf, PathOf, SwitchOf
    <3> QED
      BY <3>1, <3>2, <3>3
  <2>2. SwitchOf[name] \in {"use_transmission", "start_torrent"}
    BY <1>8 DEF SwitchOf
  <2>3. name \notin Numeric
    BY <1>8 DEF SwitchOf
  <2>4. ASSUME NEW v \in {0, 1}, s = [as EXCEPT ![SwitchOf[name]] = v]
        PROVE  SetsNumbers(as, s, name, n)
    BY <2>2, <2>3, <2>4 DEF SetsNumbers, NumberFields
  <2> QED
    BY <1>2, <2>1, <2>3, <2>4
<1>9. CASE name \in Numeric
  <2>1. CASE name = "interval" /\ n > 0
    <3>1. s = [as EXCEPT !["check_interval"] = AsUint8(n)]
      BY <2>1 DEF set_option, s, n, TextOf, PathOf, SwitchOf
    <3> QED
      BY <2>1, <3>1 DEF SetsNumbers, NumberFields
  <2>2. CASE name = "upload-limit" /\ n > 0
    <3>1. s = [as EXCEPT !["upspeed"] = AsInt16(n)]
      BY <2>2 DEF set_option, s, n, TextOf, PathOf, SwitchOf
    <3> QED
      BY <2>2, <3>1 DEF SetsNumbers, NumberFields
  <2>3. CASE name = "rpc-port" /\ IsPort(n)
    <3>1. s = [as EXCEPT !["rpc_port"] = n]
      BY <2>3 DEF set_option, s, n, TextOf, PathOf, SwitchOf
    <3> QED
      BY <2>3, <3>1 DEF SetsNumbers, NumberFields
  <2>4. CASE /\ ~(n > 0) \/ name = "rpc-port"
             /\ ~(name = "rpc-port" /\ IsPort(n))
    <3>1. s = as
      BY <1>9, <2>4 DEF set_option, s, n, TextOf, PathOf, SwitchOf
    <3> QED
      BY <1>2, <2>4, <3>1
  <2> QED
    BY <1>9, <2>1, <2>2, <2>3, <2>4
<1>10. CASE /\ name \notin {"feed", "filter", "transmission-version"}
            /\ name \notin DOMAIN PathOf \cup DOMAIN TextOf
            /\ name \notin DOMAIN SwitchOf /\ name \notin Numeric
  <2>1. s = as
    BY <1>10 DEF set_option, s, TextOf, PathOf, SwitchOf
  <2> QED
    BY <1>2, <1>10, <2>1
<1> QED
  BY <1>3, <1>4, <1>5, <1>6, <1>7, <1>8, <1>9, <1>10 DEF s, n

-----------------------------------------------------------------------------
\* The numbers of the session s are inside of their fields.
NumbersFit(s) ==
    /\ NumberFields \subseteq DOMAIN s
    /\ s.check_interval \in Uint8
    /\ s.upspeed \in Int16
    /\ s.rpc_port \in Uint16
    /\ s.use_transmission \in {0, 1}
    /\ s.start_torrent \in {0, 1}

\* And so are the buffers of the scanner.
BuffersFit ==
    /\ Len(opt) <= MAX_OPT_LEN + 1
    /\ Len(param) <= MAX_PARAM_LEN
    /\ pc = "plain" => Len(param) < MAX_PARAM_LEN

TypeInv == BuffersFit /\ NumbersFit(session)

\* Numbers that fit.
LEMMA SomeFit ==
    /\ 30 \in Uint8 /\ -1 \in Int16 /\ 9091 \in Uint16
    /\ 0 \in {0, 1} /\ 1 \in {0, 1}
    /\ \A n \in Nat : AsUint8(n) \in Uint8 /\ AsInt16(n) \in Int16
    /\ \A n \in Int : IsPort(n) => n \in Uint16
<1>1. \A n \in Nat : AsUint8(n) \in Uint8
  BY ByteIsCut DEF Uint8
<1>2. ASSUME NEW n \in Nat PROVE AsInt16(n) \in Int16
  <2> DEFINE least == -32768
             most  == 32767
             x     == AsInt16(n)
  <2>1. least \in Int /\ most \in Int /\ Int16 = least..most
    BY DEF Int16
  <2>2. x \in Int /\ least <= x /\ x <= most
    BY ShortIsCut
  <2> HIDE DEF least, most, x
  <2>3. x \in Int16
    BY <2>1, <2>2
  <2> QED
    BY <2>3 DEF x
<1>3. ASSUME NEW n \in Int, IsPort(n) PROVE n \in Uint16
  <2> DEFINE most == 65535
  <2>1. most \in Int /\ Uint16 = 0..most
    BY DEF Uint16
  <2>2. 0 <= n /\ n <= most
    BY <1>3 DEF IsPort
  <2> HIDE DEF most
  <2> QED
    BY <2>1, <2>2
<1>4. 30 \in Uint8 /\ -1 \in Int16 /\ 9091 \in Uint16
  BY DEF Uint8, Int16, Uint16
<1> QED
  BY <1>1, <1>2, <1>3, <1>4

\* The defaults fit.
LEMMA DefaultsFit == NumbersFit(session_init)
<1>1. /\ NumberFields \subseteq DOMAIN session_init
      /\ session_init.check_interval = 30
      /\ session_init.upspeed = -1
      /\ session_init.rpc_port = 9091
      /\ session_init.use_transmission = 1
      /\ session_init.start_torrent = 1
  BY DEF session_init, NumberFields
<1> QED
  BY <1>1, SomeFit DEF NumbersFit

\* What set_option makes of numbers that fit fits.
LEMMA SetOptionFits ==
    ASSUME NEW as, NumbersFit(as), NEW name, NEW str
    PROVE  NumbersFit(set_option(as, name, str))
<1> DEFINE s == set_option(as, name, str)
           n == parseUInt(str)
<1>1. SetsNumbers(as, s, name, n)
  BY SetOptionSets DEF NumbersFit
<1>2. n \in Int /\ (n > 0 => n \in Nat)
  BY ParsedNumber
<1> HIDE DEF s, n
<1>3. /\ n > 0 => AsUint8(n) \in Uint8 /\ AsInt16(n) \in Int16
      /\ IsPort(n) => n \in Uint16
  BY <1>2, SomeFit
<1>4. 0 \in {0, 1} /\ 1 \in {0, 1}
  BY SomeFit
<1>5. s.check_interval \in Uint8
  BY <1>1, <1>3 DEF SetsNumbers, NumbersFit
<1>6. s.upspeed \in Int16
  BY <1>1, <1>3 DEF SetsNumbers, NumbersFit
<1>7. s.rpc_port \in Uint16
  BY <1>1, <1>3 DEF SetsNumbers, NumbersFit
<1>8. s.use_transmission \in {0, 1} /\ s.start_torrent \in {0, 1}
  BY <1>1, <1>4 DEF SetsNumbers, NumbersFit
<1>9. NumberFields \subseteq DOMAIN s
  BY <1>1 DEF SetsNumbers
<1>10. NumbersFit(s)
  BY <1>5, <1>6, <1>7, <1>8, <1>9 DEF NumbersFit
<1> QED
  BY <1>10 DEF s

\* What Set does, in short.
IsSet ==
    /\ pc = "set" /\ UNCHANGED <<file, meant, line_pos, opt, param>>
    /\ applied' = Append(applied, [opt |-> opt, param |-> param])
    /\ \/ pc' \in {"stray", "failed", "overrun", "aborted"}
          /\ session' = session
       \/ /\ pc' = "start"
          /\ session' = set_option(session, Known(opt), param)

\* That is what it does.
LEMMA SetInShort == Set => IsSet
BY DEF Set, IsSet, text, Goto

\* Only Set changes a session, or what set_option was called with.
OtherStep == UNCHANGED <<session, applied>>

\* Every step that is not Set leaves both alone.
LEMMA OnlySetSets == Next => Set \/ OtherStep
BY DEF Next, OtherStep, Open, SkipWhitespace, EndOfFile, BeginComment,
       SkipComment, BeginOption, ReadOption, EndOption, CheckEquals,
       BeginValue, ReadValue, EndValue, ReadPlain, EndPlain, Returned, vars

\* The buffers are never filled over their ends.
LEMMA StepBuffers == Scanning /\ BuffersFit /\ [Next]_vars => BuffersFit'
<1> SUFFICES ASSUME Scanning, BuffersFit, [Next]_vars PROVE BuffersFit'
  OBVIOUS
<1>0. /\ Len(param) \in Nat /\ MAX_PARAM_LEN \in Nat /\ MAX_PARAM_LEN > 0
      /\ Len(opt) \in Nat /\ MAX_OPT_LEN \in Nat /\ MAX_OPT_LEN > 0
  BY ParserAssumption DEF Scanning
<1>1. CASE ReadValue
  <2>1. Len(param') = Len(param) + 1 /\ Len(param) < MAX_PARAM_LEN
        /\ pc' # "plain" /\ opt' = opt
    BY <1>1 DEF ReadValue, MayRead, Scanning
  <2> QED
    BY <1>0, <2>1 DEF BuffersFit
<1>2. CASE ReadPlain
  <2>1. /\ Len(param') = Len(param) + 1 /\ Len(param) < MAX_PARAM_LEN
        /\ pc' = IF Len(param) + 1 >= MAX_PARAM_LEN THEN "failed" ELSE "plain"
        /\ opt' = opt
    BY <1>2 DEF ReadPlain, BuffersFit, Scanning, Goto
  <2> QED
    BY <1>0, <2>1 DEF BuffersFit
<1>3. CASE BeginValue
  <2>1. BeginsValue
    BY <1>3, ValueBegins
  <2>2. Len(param') = 0 /\ opt' = opt
    BY <2>1 DEF BeginsValue
  <2> QED
    BY <1>0, <2>2 DEF BuffersFit
<1>4. CASE UNCHANGED <<opt, param>> /\ pc' # "plain"
  BY <1>4 DEF BuffersFit
<1>5. CASE UNCHANGED vars
  BY <1>5 DEF BuffersFit, vars
<1>6. CASE \/ Open \/ SkipWhitespace \/ EndOfFile \/ BeginComment
           \/ SkipComment \/ EndOption \/ CheckEquals
  BY <1>4, <1>6 DEF Open, SkipWhitespace, EndOfFile, BeginComment, SkipComment,
       EndOption, CheckEquals, Goto
<1>7. CASE EndValue \/ EndPlain \/ Set
  BY <1>4, <1>7 DEF EndValue, EndPlain, Set, Goto
<1>8. CASE Returned
  BY <1>5, <1>8 DEF Returned
<1>9. CASE BeginOption
  <2>1. Len(opt') = 0 /\ param' = param /\ pc' # "plain"
    BY <1>9 DEF BeginOption, Goto
  <2> QED
    BY <1>0, <2>1 DEF BuffersFit
<1>10. CASE ReadOption
  <2>1. /\ \/ opt' = Append(opt, Here) /\ Len(opt) <= MAX_OPT_LEN
           \/ opt' = opt
        /\ param' = param /\ pc' # "plain"
    BY <1>10 DEF ReadOption, Goto
  <2>2. line_pos < Size /\ Here = file[line_pos + 1]
    BY <1>10, HereIsInside DEF ReadOption, IsOptionChar, IsPrint, Scanning
  <2>3. Here \in Char /\ opt \in Seq(Char)
    BY <2>2 DEF Scanning, Size
  <2>4. Len(Append(opt, Here)) = Len(opt) + 1
    BY <2>3
  <2>5. Len(opt') <= MAX_OPT_LEN + 1
    BY <1>0, <2>1, <2>4 DEF BuffersFit
  <2> QED
    BY <2>1, <2>5 DEF BuffersFit
<1> QED
  BY <1>1, <1>2, <1>3, <1>5, <1>6, <1>7, <1>8, <1>9, <1>10 DEF Next

\* The defaults fit.
LEMMA TypeInit == Init => TypeInv
<1> SUFFICES ASSUME Init PROVE TypeInv
  OBVIOUS
<1>1. NumbersFit(session)
  BY DefaultsFit DEF Init
<1>2. Len(<<>>) = 0 /\ opt = <<>> /\ param = <<>> /\ pc = "open"
  BY DEF Init
<1>3. BuffersFit
  BY <1>2, ParserAssumption DEF BuffersFit
<1> QED
  BY <1>1, <1>3 DEF TypeInv

\* And every step leaves numbers and buffers that do.
LEMMA StepType == Scanning /\ TypeInv /\ [Next]_vars => TypeInv'
<1> SUFFICES ASSUME Scanning, TypeInv, [Next]_vars PROVE TypeInv'
  OBVIOUS
<1>1. BuffersFit'
  BY StepBuffers DEF TypeInv
<1>2. NumbersFit(session')
  <2>1. CASE session' = session
    BY <2>1 DEF TypeInv
  <2>2. CASE Set
    BY <2>1, <2>2, SetInShort, SetOptionFits DEF IsSet, TypeInv
  <2> QED
    BY <2>1, <2>2, OnlySetSets DEF OtherStep, vars
<1> QED
  BY <1>1, <1>2 DEF TypeInv

\* The name and the value that are being read are inside of their buffers,
\* and the numbers of the session inside of their fields, whatever the file:
\* what would be written behind them ends the scan ("overrun").
THEOREM TypesAreKept == Spec => []TypeOK
<1>1. Init => TypeInv
  BY TypeInit
<1>2. Scanning /\ TypeInv /\ [Next]_vars => TypeInv'
  BY StepType
<1>3. Scanning /\ TypeInv => TypeOK
  <2> SUFFICES ASSUME Scanning, TypeInv PROVE TypeOK
    OBVIOUS
  <2>1. NumbersFit(session)
    BY DEF TypeInv
  <2>2. line_pos \in Nat /\ Len(param) <= MAX_PARAM_LEN
        /\ Len(opt) <= MAX_OPT_LEN + 1
    BY DEF Scanning, TypeInv, BuffersFit
  <2>3. pc \in Final \cup {"open", "start", "comment", "option", "equals",
                           "value", "quoted", "braces", "plain", "set"}
    BY DEF Scanning, Places, Final
  <2> QED
    BY <2>1, <2>2, <2>3 DEF TypeOK, NumbersFit
<1> QED
  BY <1>1, <1>2, <1>3, ScanningAlways, PTL DEF Spec

-----------------------------------------------------------------------------
(***************************************************************************)
(* Which number of a file a session keeps.                                 *)
(***************************************************************************)
Settings == [opt : Seq(Char), param : Seq(Char)]

\* Given and IsLast, of the settings a.
GivenIn(a, name, numbers) ==
    {k \in DOMAIN a : /\ a[k].opt = <<name>>
                      /\ parseUInt(a[k].param) \in numbers}

IsLastIn(a, value, given, default, width) ==
    \/ given = {} /\ value = default
    \/ \E k \in given :
          /\ \A j \in given : j <= k
          /\ value % width = parseUInt(a[k].param) % width

\* With one setting more there is one place more, or none.
LEMMA GivenGrows ==
    ASSUME NEW a \in Seq(Settings), NEW x \in Settings, NEW name, NEW numbers
    PROVE  LET b == Append(a, x)
               g == GivenIn(a, name, numbers)
           IN  /\ g \subseteq 1..Len(a)
               /\ IF x.opt = <<name>> /\ parseUInt(x.param) \in numbers
                  THEN GivenIn(b, name, numbers) = g \cup {Len(a) + 1}
                  ELSE GivenIn(b, name, numbers) = g
<1> DEFINE b == Append(a, x)
           n == Len(a) + 1
<1>1. /\ DOMAIN a = 1..Len(a) /\ DOMAIN b = 1..Len(a) \cup {n}
      /\ b[n] = x /\ \A k \in 1..Len(a) : b[k] = a[k]
  OBVIOUS
<1>2. n \notin 1..Len(a)
  OBVIOUS
<1> HIDE DEF b, n
<1> QED
  BY <1>1, <1>2 DEF GivenIn, b, n

\* The last place moves there, or stays, and the number with it.
LEMMA LastIsKept ==
    ASSUME NEW a \in Seq(Settings), NEW x \in Settings, NEW name, NEW numbers,
           NEW default, NEW width, NEW old, NEW new,
           IF x.opt = <<name>> /\ parseUInt(x.param) \in numbers
           THEN new % width = parseUInt(x.param) % width ELSE new = old,
           IsLastIn(a, old, GivenIn(a, name, numbers), default, width)
    PROVE  LET b == Append(a, x)
           IN  IsLastIn(b, new, GivenIn(b, name, numbers), default, width)
<1> DEFINE b == Append(a, x)
           g == GivenIn(a, name, numbers)
           h == GivenIn(b, name, numbers)
           n == Len(a) + 1
<1>1. b[n] = x /\ \A k \in 1..Len(a) : b[k] = a[k]
  OBVIOUS
<1>2. g \subseteq 1..Len(a) /\ n \in Nat /\ \A k \in 1..Len(a) : k <= n
  BY GivenGrows
<1>3. IF x.opt = <<name>> /\ parseUInt(x.param) \in numbers
      THEN h = g \cup {n} ELSE h = g
  BY GivenGrows
<1> HIDE DEF b, g, h, n
<1>4. ASSUME h = g \cup {n}, new % width = parseUInt(x.param) % width
      PROVE  IsLastIn(b, new, h, default, width)
  <2>1. h = g \cup {n} /\ n <= n
    BY <1>2, <1>4
  <2>2. n \in h /\ \A j \in h : j <= n
    BY <1>2, <2>1, Zenon
  <2> QED
    BY <1>1, <1>4, <2>2 DEF IsLastIn
<1>5. ASSUME h = g, new = old PROVE IsLastIn(b, new, h, default, width)
  <2>1. \A k \in g : b[k] = a[k]
    BY <1>1, <1>2
  <2>2. IsLastIn(a, new, h, default, width)
    BY <1>5 DEF g
  <2> QED
    BY <1>5, <2>1, <2>2 DEF IsLastIn
<1> QED
  BY <1>3, <1>4, <1>5 DEF b, h

\* NumbersAreKept, of the settings a and the session s.
Keeps(a, s) ==
    /\ IsLastIn(a, s.check_interval, GivenIn(a, "interval", Nat), 30, 256)
    /\ IsLastIn(a, s.upspeed, GivenIn(a, "upload-limit", Nat), -1, 65536)
    /\ IsLastIn(a, s.rpc_port, GivenIn(a, "rpc-port", Ports), 9091, 65536)

\* A number and what its field keeps of it leave the same remainder.
LEMMA CutIsRemainder ==
    \A n \in Nat : /\ AsUint8(n) % 256 = n % 256
                   /\ AsInt16(n) % 65536 = n % 65536
<1> SUFFICES ASSUME NEW n \in Nat
             PROVE  /\ AsUint8(n) % 256 = n % 256
                    /\ AsInt16(n) % 65536 = n % 65536
  OBVIOUS
<1>1. AsUint8(n) % 256 = n % 256
  BY DEF AsUint8
<1>2. AsInt16(n) % 65536 = n % 65536
  <2> DEFINE m == n + 32768
             r == m % 65536
             q == m \div 65536
  <2>1. m \in Nat /\ n = m - 32768 /\ AsInt16(n) = r - 32768
    BY DEF AsInt16
  <2> HIDE DEF m
  <2>2. q \in Int /\ r \in Int /\ m = 65536 * q + r
    BY <2>1
  <2> HIDE DEF q, r
  <2>3. n = (r - 32768) + 65536 * q
    BY <2>1, <2>2
  <2>4. ((r - 32768) + 65536 * q) % 65536 = (r - 32768) % 65536
    BY <2>2
  <2> QED
    BY <2>1, <2>3, <2>4
<1> QED
  BY <1>1, <1>2

\* The ports that are taken.
LEMMA PortsAre == \A n \in Int : IsPort(n) <=> n \in Ports
<1> SUFFICES ASSUME NEW n \in Int PROVE IsPort(n) <=> n \in Ports
  OBVIOUS
<1> DEFINE last == 65534
<1>1. last \in Int /\ Ports = 1025..last
  BY DEF Ports
<1>2. IsPort(n) <=> 1025 <= n /\ n <= last
  BY DEF IsPort
<1> HIDE DEF last
<1> QED
  BY <1>1, <1>2

KeepInv ==
    pc \notin {"stray", "failed", "overrun", "aborted"} =>
      Keeps(applied, session)

\* An option is known by a name that is one keyword.
LEMMA KnownName ==
    ASSUME NEW t \in Seq(Char),
           NEW name \in {"interval", "upload-limit", "rpc-port"}
    PROVE  Known(t) = name <=> t = <<name>>
<1>1. CASE Len(t) = 1
  BY <1>1 DEF Known
<1>2. CASE Len(t) # 1
  BY <1>2 DEF Known
<1> QED
  BY <1>1, <1>2

\* A step keeps the last number.
LEMMA StepKeeps == Scanning /\ TypeInv /\ KeepInv /\ [Next]_vars => KeepInv'
<1> SUFFICES ASSUME Scanning, TypeInv, KeepInv, [Next]_vars,
                    pc' \notin {"stray", "failed", "overrun", "aborted"}
             PROVE  Keeps(applied', session')
  BY DEF KeepInv
<1>1. CASE Set
  <2> DEFINE x == [opt |-> opt, param |-> param]
             n == parseUInt(param)
             name == Known(opt)
  <2>1. /\ pc = "set" /\ applied' = Append(applied, x)
        /\ session' = set_option(session, name, param)
    BY <1>1, SetInShort DEF IsSet
  <2>2. Keeps(applied, session)
    BY <2>1 DEF KeepInv
  <2>3. applied \in Seq(Settings) /\ x \in Settings /\ opt \in Seq(Char)
        /\ x.opt = opt /\ x.param = param
    BY DEF Scanning, Settings
  <2>4. SetsNumbers(session, session', name, n)
    BY <2>1, SetOptionSets DEF TypeInv, NumbersFit
  <2>5. n \in Int /\ (n > 0 <=> n \in Nat)
    BY ParsedNumber
  <2>6. /\ name = "interval" <=> opt = <<"interval">>
        /\ name = "upload-limit" <=> opt = <<"upload-limit">>
        /\ name = "rpc-port" <=> opt = <<"rpc-port">>
    BY <2>3, KnownName
  <2>p. parseUInt(x.param) = n
    BY <2>3
  <2> DEFINE byte == 256
             short == 65536
             none == -1
             port == 9091
  <2>r. n \in Nat => /\ AsUint8(n) % byte = n % byte
                     /\ AsInt16(n) % short = n % short
    BY CutIsRemainder
  <2>q. IsPort(n) <=> n \in Ports
    BY <2>5, PortsAre
  <2>k. /\ IsLastIn(applied, session.check_interval,
                    GivenIn(applied, "interval", Nat), 30, byte)
        /\ IsLastIn(applied, session.upspeed,
                    GivenIn(applied, "upload-limit", Nat), none, short)
        /\ IsLastIn(applied, session.rpc_port,
                    GivenIn(applied, "rpc-port", Ports), port, short)
    BY <2>2 DEF Keeps
  <2> HIDE DEF x, n, name, byte, short, none, port
  <2>7. IsLastIn(applied', session'.check_interval,
                 GivenIn(applied', "interval", Nat), 30, byte)
    <3>1. IF x.opt = <<"interval">> /\ n \in Nat
          THEN session'.check_interval % byte = n % byte
          ELSE session'.check_interval = session.check_interval
      BY <2>3, <2>4, <2>5, <2>6, <2>r DEF SetsNumbers
    <3> QED
      BY <2>1, <2>3, <2>k, <2>p, <3>1, LastIsKept
  <2>8. IsLastIn(applied', session'.upspeed,
                 GivenIn(applied', "upload-limit", Nat), none, short)
    <3>1. IF x.opt = <<"upload-limit">> /\ n \in Nat
          THEN session'.upspeed % short = n % short
          ELSE session'.upspeed = session.upspeed
      BY <2>3, <2>4, <2>5, <2>6, <2>r DEF SetsNumbers
    <3> QED
      BY <2>1, <2>3, <2>k, <2>p, <3>1, LastIsKept
  <2>9. IsLastIn(applied', session'.rpc_port,
                 GivenIn(applied', "rpc-port", Ports), port, short)
    <3>1. IF x.opt = <<"rpc-port">> /\ n \in Ports
          THEN session'.rpc_port % short = n % short
          ELSE session'.rpc_port = session.rpc_port
      BY <2>3, <2>4, <2>6, <2>q DEF SetsNumbers
    <3> QED
      BY <2>1, <2>3, <2>k, <2>p, <3>1, LastIsKept
  <2> QED
    BY <2>7, <2>8, <2>9 DEF Keeps, byte, short, none, port
<1>2. CASE /\ UNCHANGED <<session, applied>>
           /\ pc \notin {"stray", "failed", "overrun", "aborted"}
  <2>1. Keeps(applied, session)
    BY <1>2 DEF KeepInv
  <2> QED
    BY <1>2, <2>1
<1>3. CASE UNCHANGED vars
  BY <1>2, <1>3 DEF vars
<1>4. CASE Next /\ ~Set
  <2>1. UNCHANGED <<session, applied>>
    BY <1>4, OnlySetSets DEF OtherStep
  <2>2. pc \notin {"stray", "failed", "overrun", "aborted"}
    BY <1>4 DEF Next, Open, SkipWhitespace, EndOfFile, BeginComment,
       SkipComment, BeginOption, ReadOption, EndOption, CheckEquals,
       BeginValue, ReadValue, EndValue, ReadPlain, EndPlain, Returned, vars
  <2> QED
    BY <1>2, <2>1, <2>2
<1> QED
  BY <1>1, <1>3, <1>4

\* Whatever the file, and whatever else it says: the session has the last
\* number that the file gives for an interval or an upload limit, cut to 8
\* and to 16 bits, or the last port out of 1025 to 65534, and the default
\* where it gives none.
THEOREM LastNumberIsKept == Spec => []NumbersAreKept
<1>1. Init => KeepInv
  <2> SUFFICES ASSUME Init PROVE Keeps(applied, session)
    BY DEF KeepInv
  <2>1. /\ applied = <<>> /\ session.check_interval = 30
        /\ session.upspeed = -1 /\ session.rpc_port = 9091
    BY DEF Init, session_init
  <2>2. \A name, numbers : GivenIn(applied, name, numbers) = {}
    BY <2>1 DEF GivenIn
  <2> QED
    BY <2>1, <2>2 DEF Keeps, IsLastIn
<1>2. Init => TypeInv
  BY TypeInit
<1>3. Scanning /\ TypeInv /\ [Next]_vars => TypeInv'
  BY StepType
<1>4. KeepInv /\ TypeInv => NumbersAreKept
  <2> SUFFICES ASSUME KeepInv, TypeInv, pc = "done" PROVE NumbersAreKept
    BY DEF NumbersAreKept
  <2>1. Keeps(applied, session)
    BY DEF KeepInv
  <2>2. \A name, numbers :
          Given(name, numbers) = GivenIn(applied, name, numbers)
    BY DEF Given, GivenIn
  <2>3. \A value, given, default, width :
          IsLast(value, given, default, width)
            <=> IsLastIn(applied, value, given, default, width)
    BY Zenon DEF IsLast, IsLastIn
  <2>4. session.check_interval \in Uint8 /\ session.upspeed \in Int16
    BY DEF TypeInv, NumbersFit
  <2>5. /\ IsLast(session.check_interval, Given("interval", Nat), 30, 256)
        /\ IsLast(session.upspeed, Given("upload-limit", Nat), -1, 65536)
        /\ IsLast(session.rpc_port, Given("rpc-port", Ports), 9091, 65536)
    BY <2>1, <2>2, <2>3 DEF Keeps
  <2> QED
    BY <2>4, <2>5 DEF NumbersAreKept
<1> QED
  BY <1>1, <1>2, <1>3, <1>4, StepKeeps, ScanningAlways, PTL DEF Spec
-----------------------------------------------------------------------------
(***************************************************************************)
(* The grammar.  Readings is defined by recursion on the length of what is *)
(* read; R stands for it, a function of which it is enough to know that it *)
(* satisfies its equation.                                                 *)
(***************************************************************************)
\* The character behind the n-th.
After(f, n) == IF n < Len(f) THEN f[n + 1] ELSE NUL

\* What a piece adds to a reading of what is before it.
Extended(s, piece, after) ==
    (IF IsBlank(piece) \/ IsComment(piece) THEN {s} ELSE {})
      \cup {Append(s, x) : x \in SettingOf(piece, after)}

\* What is read up to n, from the readings of less.
Grown(f, R, n) ==
    UNION {UNION {Extended(s, SubSeq(f, m + 1, n), After(f, n)) : s \in R[m]} :
             m \in 0..n - 1}

ReadingsAt(f, R, n) == IF n = 0 THEN {<<>>} ELSE Grown(f, R, n)

\* R is Readings of the text f.
AreReadings(f, R) == R = [n \in 0..Len(f) |-> ReadingsAt(f, R, n)]

ReadingsOf(f) == CHOOSE R : AreReadings(f, R)

\* What is read up to n: a reading of less, and a last piece.
LEMMA GrownMembers ==
    ASSUME NEW f, NEW R, NEW n, NEW t
    PROVE  t \in Grown(f, R, n) <=>
             \E m \in 0..n - 1 : \E s \in R[m] :
                t \in Extended(s, SubSeq(f, m + 1, n), After(f, n))
<1> DEFINE Those(m) == {Extended(s, SubSeq(f, m + 1, n), After(f, n)) :
                        s \in R[m]}
           From(m) == UNION Those(m)
           Sets == {From(m) : m \in 0..n - 1}
<1>1. \A m : t \in From(m) <=>
         \E s \in R[m] : t \in Extended(s, SubSeq(f, m + 1, n), After(f, n))
  OBVIOUS
<1>2. t \in UNION Sets <=> \E m \in 0..n - 1 : t \in From(m)
  <2> HIDE DEF From
  <2> QED OBVIOUS
<1>3. Grown(f, R, n) = UNION Sets
  BY DEF Grown
<1> HIDE DEF From, Sets
<1> QED BY <1>1, <1>2, <1>3

\* The readings up to n depend on those of less than n only.
LEMMA LooksBack ==
    ASSUME NEW f, NEW v, NEW w, NEW n \in Nat,
           \A m \in 0..n - 1 : v[m] = w[m]
    PROVE  ReadingsAt(f, v, n) = ReadingsAt(f, w, n)
<1>1. \A t : t \in Grown(f, v, n) <=> t \in Grown(f, w, n)
  BY GrownMembers, Zenon
<1>2. Grown(f, v, n) = Grown(f, w, n)
  BY <1>1, Zenon
<1> QED BY <1>2 DEF ReadingsAt

\* There is such a function for every text: up to any b by induction.
LEMMA ReadingsAre ==
    ASSUME NEW f, Len(f) \in Nat
    PROVE  AreReadings(f, ReadingsOf(f))
<1> PICK l \in Nat : l = Len(f) OBVIOUS
<1> DEFINE From(w, b) == \A n \in 0..b : w[n] = ReadingsAt(f, w, n)
           Some == {b \in 0..l : \E w : From(w, b)}
<1>1. 0 \in Some
  <2> DEFINE w == [n \in 0..l |-> {<<>>}]
  <2>1. From(w, 0)
    BY DEF ReadingsAt
  <2> QED BY <2>1
<1>2. \A b \in 0..l - 1 : b \in Some => b + 1 \in Some
  <2> SUFFICES ASSUME NEW b \in 0..l - 1, NEW w, From(w, b)
               PROVE  b + 1 \in Some
    OBVIOUS
  <2> PICK c \in 1..l : c = b + 1 /\ c - 1 = b OBVIOUS
  <2> DEFINE new == ReadingsAt(f, w, c)
             v == [n \in 0..c |-> IF n = c THEN new ELSE w[n]]
  <2>1. v[c] = new /\ \A n \in 0..b : v[n] = w[n]
    <3> HIDE DEF new
    <3> QED OBVIOUS
  <2> HIDE DEF v
  <2>2. ASSUME NEW n \in 0..c PROVE v[n] = ReadingsAt(f, v, n)
    <3>1. \A m \in 0..n - 1 : v[m] = w[m]
      BY <2>1
    <3>2. ReadingsAt(f, v, n) = ReadingsAt(f, w, n)
      BY <3>1, LooksBack, n \in Nat
    <3>3. CASE n = c
      BY <2>1, <3>2, <3>3
    <3>4. CASE n # c
      <4>1. n \in 0..b
        BY <3>4
      <4> QED BY <2>1, <3>2, <4>1
    <3> QED BY <3>3, <3>4
  <2>3. From(v, c)
    BY <2>2
  <2> HIDE DEF From
  <2> QED BY <2>3
<1>3. l \in Some
  <2> HIDE DEF Some
  <2>1. \A b \in 0..l : b \in Some
    BY <1>1, <1>2, BoundedInduction
  <2> QED BY <2>1
<1>4. PICK w : From(w, l)
  BY <1>3
<1> DEFINE R == [n \in 0..l |-> w[n]]
<1>5. ASSUME NEW n \in 0..l PROVE R[n] = ReadingsAt(f, R, n)
  <2>1. ReadingsAt(f, R, n) = ReadingsAt(f, w, n)
    <3>1. \A m \in 0..n - 1 : R[m] = w[m] OBVIOUS
    <3> HIDE DEF R
    <3> QED BY <3>1, LooksBack, n \in Nat
  <2> QED BY <1>4, <2>1
<1>6. AreReadings(f, R)
  <2>1. R = [n \in 0..l |-> R[n]] OBVIOUS
  <2> HIDE DEF R
  <2>2. R = [n \in 0..l |-> ReadingsAt(f, R, n)]
    BY <1>5, <2>1, Zenon
  <2> QED BY <2>2 DEF AreReadings
<1> QED
  <2> HIDE DEF R
  <2> QED BY <1>6, Zenon DEF ReadingsOf
\* Nothing has one reading, in which nothing is set.
LEMMA NothingIsRead ==
    ASSUME NEW f, NEW R, Len(f) \in Nat, AreReadings(f, R)
    PROVE  R[0] = {<<>>}
<1>1. R[0] = ReadingsAt(f, R, 0)
  BY DEF AreReadings
<1> QED BY <1>1 DEF ReadingsAt

\* A reading and a piece behind it are a reading.
LEMMA ReadingGoesOn ==
    ASSUME NEW f, NEW R, Len(f) \in Nat, AreReadings(f, R),
           NEW n \in 1..Len(f), NEW m \in 0..n - 1, NEW s \in R[m], NEW t,
           t \in Extended(s, SubSeq(f, m + 1, n), After(f, n))
    PROVE  t \in R[n]
<1>1. R[n] = ReadingsAt(f, R, n)
  BY DEF AreReadings
<1>2. R[n] = Grown(f, R, n)
  BY <1>1 DEF ReadingsAt
<1> QED BY <1>2, GrownMembers

\* And there are no others.
LEMMA ReadingCameFrom ==
    ASSUME NEW f, NEW R, Len(f) \in Nat, AreReadings(f, R),
           NEW n \in 1..Len(f), NEW t \in R[n]
    PROVE  \E m \in 0..n - 1 : \E s \in R[m] :
              t \in Extended(s, SubSeq(f, m + 1, n), After(f, n))
<1>1. R[n] = ReadingsAt(f, R, n)
  BY DEF AreReadings
<1>2. R[n] = Grown(f, R, n)
  BY <1>1 DEF ReadingsAt
<1> QED BY <1>2, GrownMembers, Zenon

-----------------------------------------------------------------------------
(***************************************************************************)
(* The pieces of a text by the places where they begin and end: from m to  *)
(* n is what follows the m-th character, up to the n-th.                   *)
(***************************************************************************)
\* The characters there.
Cut(f, m, n) == SubSeq(f, m + 1, n)

\* Blanks, a comment, the name of an option.
BlankAt(f, m, n) == \A k \in m + 1..n : IsSpace(f[k])

CommentAt(f, m, n) ==
    m < n /\ f[m + 1] = "#" /\ f[n] = Nl /\ \A k \in m + 1..n - 1 : f[k] # Nl

NameAt(f, m, a) ==
    m < a /\ a - m < MAX_OPT_LEN /\ \A k \in m + 1..a : IsOptionChar(f[k])

\* A name up to a, and the '=' at e.
HeadAt(f, m, a, e) ==
    NameAt(f, m, a) /\ a < e /\ BlankAt(f, a, e - 1) /\ f[e] = "="

\* The characters around a value in braces.
LeftBrace == "{"

RightBrace == "}"

\* A value between two characters.
InsideAt(f, v, n, end) ==
    /\ v + 2 <= n /\ f[n] = end
    /\ \A k \in v + 2..n - 1 : f[k] # end
    /\ n - v - 2 < MAX_PARAM_LEN

\* A value in quotes, one in braces, and one in neither.
QuotedAt(f, v, n) ==
    /\ InsideAt(f, v, n, f[v + 1]) /\ IsQuote(f[v + 1])
    /\ \A k \in v + 2..n - 1 : f[k] # Nl

BracesAt(f, v, n) == InsideAt(f, v, n, RightBrace) /\ f[v + 1] = LeftBrace

PlainAt(f, v, n) ==
    /\ \A k \in v + 1..n : IsPlainChar(f[k])
    /\ ~IsPlainChar(After(f, n))
    /\ v = n => After(f, n) \in {"#", Control}
    /\ v < n => ~IsQuote(f[v + 1]) /\ f[v + 1] # LeftBrace
    /\ n - v < MAX_PARAM_LEN

ValueAt(f, v, n) == QuotedAt(f, v, n) \/ BracesAt(f, v, n) \/ PlainAt(f, v, n)

\* e is the place of the '='; the value begins behind v.
BeginsAt(f, e, v, n) == BlankAt(f, e, v) /\ (v < n => ~IsSpace(f[v + 1]))

\* Name, blanks, =, blanks, value.
SettingAt(f, m, n) ==
    \E a \in m + 1..n : \E e \in a + 1..n : \E v \in e..n :
       HeadAt(f, m, a, e) /\ BeginsAt(f, e, v, n) /\ ValueAt(f, v, n)

\* The file ends behind m, or before there is a value.
UnfinishedAt(f, m) ==
    LET l == Len(f) IN
    \/ m = l
    \/ \E a \in m + 1..l : NameAt(f, m, a) /\ BlankAt(f, a, l)
    \/ \E a \in m + 1..l : \E e \in a + 1..l :
          HeadAt(f, m, a, e) /\ BlankAt(f, e, l)

\* The characters of a piece are those of the text.
LEMMA CutIs ==
    ASSUME NEW f \in Seq(Char), NEW n \in 0..Len(f), NEW m \in 0..n
    PROVE  /\ Cut(f, m, n) \in Seq(Char)
           /\ Len(Cut(f, m, n)) = n - m
           /\ \A k \in 1..n - m : Cut(f, m, n)[k] = f[m + k]
BY DEF Cut

\* A part of a part is a part.
LEMMA CutOfCut ==
    ASSUME NEW f \in Seq(Char), NEW n \in 0..Len(f), NEW m \in 0..n,
           NEW j \in 0..n - m, NEW i \in 0..j
    PROVE  Cut(Cut(f, m, n), i, j) = Cut(f, m + i, m + j)
<1> PICK p \in Seq(Char) : p = Cut(f, m, n)
  BY CutIs
<1>1. Len(p) = n - m /\ \A k \in 1..n - m : p[k] = f[m + k]
  BY CutIs
<1> PICK a \in Nat, b \in Nat : a = m + i /\ b = m + j
  OBVIOUS
<1>2. a \in 0..b /\ b \in 0..Len(f) /\ j \in 0..Len(p) /\ b - a = j - i
  BY <1>1
<1> PICK q \in Seq(Char) : q = Cut(p, i, j)
  BY <1>2, CutIs
<1> PICK r \in Seq(Char) : r = Cut(f, a, b)
  BY <1>2, CutIs
<1>3. Len(q) = j - i /\ \A k \in 1..j - i : q[k] = p[i + k]
  BY <1>2, CutIs, Zenon
<1>4. Len(r) = b - a /\ \A k \in 1..b - a : r[k] = f[a + k]
  BY <1>2, CutIs, Zenon
<1>5. ASSUME NEW k \in 1..j - i PROVE q[k] = r[k]
  <2>1. i + k \in 1..n - m /\ k \in 1..b - a /\ m + (i + k) = a + k
    BY <1>2
  <2> QED BY <1>1, <1>3, <1>4, <2>1
<1>6. q = r
  BY <1>2, <1>3, <1>4, <1>5
<1> QED BY <1>6

\* Blanks of the grammar are blanks by their places.
LEMMA BlankIsAt ==
    ASSUME NEW f \in Seq(Char), NEW n \in 0..Len(f), NEW m \in 0..n
    PROVE  IsBlank(Cut(f, m, n)) <=> BlankAt(f, m, n)
<1> PICK p \in Seq(Char) : p = Cut(f, m, n)
  BY CutIs
<1>0. Len(p) = n - m /\ \A k \in 1..n - m : p[k] = f[m + k]
  BY CutIs
<1>1. ASSUME BlankAt(f, m, n), NEW k \in 1..Len(p) PROVE IsSpace(p[k])
  <2>1. m + k \in m + 1..n /\ k \in 1..n - m
    BY <1>0
  <2> QED BY <1>0, <1>1, <2>1 DEF BlankAt
<1>2. ASSUME IsBlank(p), NEW k \in m + 1..n PROVE IsSpace(f[k])
  <2>1. k - m \in 1..n - m /\ m + (k - m) = k
    OBVIOUS
  <2> QED BY <1>0, <1>2, <2>1 DEF IsBlank, All
<1> QED BY <1>1, <1>2 DEF IsBlank, All, BlankAt

\* Names, likewise.
LEMMA NameIsAt ==
    ASSUME NEW f \in Seq(Char), NEW n \in 0..Len(f), NEW m \in 0..n
    PROVE  IsName(Cut(f, m, n)) <=> NameAt(f, m, n)
<1> PICK p \in Seq(Char) : p = Cut(f, m, n)
  BY CutIs
<1>0. Len(p) = n - m /\ \A k \in 1..n - m : p[k] = f[m + k]
  BY CutIs
<1>1. ASSUME NameAt(f, m, n), NEW k \in 1..Len(p) PROVE IsOptionChar(p[k])
  <2>1. m + k \in m + 1..n /\ k \in 1..n - m
    BY <1>0
  <2> QED BY <1>0, <1>1, <2>1 DEF NameAt
<1>2. ASSUME IsName(p), NEW k \in m + 1..n PROVE IsOptionChar(f[k])
  <2>1. k - m \in 1..n - m /\ m + (k - m) = k
    OBVIOUS
  <2> QED BY <1>0, <1>2, <2>1 DEF IsName, All
<1>3. p # <<>> <=> m < n
  BY <1>0, EmptySeq
<1> QED BY <1>0, <1>1, <1>2, <1>3 DEF IsName, All, NameAt

\* Comments, likewise.
LEMMA CommentIsAt ==
    ASSUME NEW f \in Seq(Char), NEW n \in 0..Len(f), NEW m \in 0..n
    PROVE  IsComment(Cut(f, m, n)) <=> CommentAt(f, m, n)
<1> PICK p \in Seq(Char) : p = Cut(f, m, n)
  BY CutIs
<1>0. Len(p) = n - m /\ \A k \in 1..n - m : p[k] = f[m + k]
  BY CutIs
<1>1. CASE m = n
  BY <1>0, <1>1 DEF IsComment, Begins, CommentAt
<1>2. CASE m < n
  <2>1. p[1] = f[m + 1] /\ Last(p) = f[n]
    BY <1>0, <1>2 DEF Last
  <2>2. (\A k \in 1..Len(p) - 1 : p[k] # Nl)
          <=> \A k \in m + 1..n - 1 : f[k] # Nl
    <3>1. ASSUME \A k \in m + 1..n - 1 : f[k] # Nl, NEW k \in 1..Len(p) - 1
          PROVE  p[k] # Nl
      <4>1. m + k \in m + 1..n - 1 /\ k \in 1..n - m
        BY <1>0
      <4> QED BY <1>0, <3>1, <4>1
    <3>2. ASSUME \A k \in 1..Len(p) - 1 : p[k] # Nl,
                 NEW k \in m + 1..n - 1
          PROVE  f[k] # Nl
      <4>1. k - m \in 1..Len(p) - 1 /\ k - m \in 1..n - m
            /\ m + (k - m) = k
        BY <1>0
      <4> QED BY <1>0, <3>2, <4>1
    <3> QED BY <3>1, <3>2
  <2> QED BY <1>0, <1>2, <2>1, <2>2 DEF IsComment, Begins, CommentAt
<1> QED BY <1>1, <1>2

\* What is between two characters, and a character that is not in it.
LEMMA WithoutIsAt ==
    ASSUME NEW f \in Seq(Char), NEW n \in 0..Len(f), NEW v \in 0..n,
           v + 2 <= n, NEW c
    PROVE  (\A k \in 1..Len(Cut(f, v + 1, n - 1)) :
               Cut(f, v + 1, n - 1)[k] # c)
             <=> \A k \in v + 2..n - 1 : f[k] # c
<1> PICK a \in Nat, b \in Nat : a = v + 1 /\ b = n - 1
  OBVIOUS
<1>0. b \in 0..Len(f) /\ a \in 0..b /\ v + 2 = a + 1
  OBVIOUS
<1> PICK q \in Seq(Char) : q = Cut(f, a, b)
  BY <1>0, CutIs
<1>1. Len(q) = b - a /\ \A k \in 1..b - a : q[k] = f[a + k]
  BY <1>0, CutIs, Zenon
<1>2. ASSUME \A k \in a + 1..b : f[k] # c, NEW k \in 1..Len(q)
      PROVE  q[k] # c
  <2>1. k \in 1..b - a /\ a + k \in a + 1..b
    BY <1>1
  <2>2. q[k] = f[a + k]
    BY <1>1, <2>1, Zenon
  <2>3. f[a + k] # c
    BY <1>2, <2>1, Zenon
  <2> QED BY <2>2, <2>3
<1>3. ASSUME \A k \in 1..Len(q) : q[k] # c, NEW k \in a + 1..b
      PROVE  f[k] # c
  <2> PICK j \in 1..b - a : j = k - a /\ a + j = k
    OBVIOUS
  <2>1. q[j] = f[k]
    BY <1>1
  <2>2. q[j] # c
    BY <1>1, <1>3
  <2> QED BY <2>1, <2>2
<1> QED BY <1>0, <1>2, <1>3

\* A value without the characters around it.
Inside(f, v, n) == Cut(f, v + 1, n - 1)

\* The characters of a value without quotes.
LEMMA PlainIsAt ==
    ASSUME NEW f \in Seq(Char), NEW n \in 0..Len(f), NEW v \in 0..n
    PROVE  All(Cut(f, v, n), IsPlainChar) <=>
              \A k \in v + 1..n : IsPlainChar(f[k])
<1> PICK p \in Seq(Char) : p = Cut(f, v, n)
  BY CutIs
<1>0. Len(p) = n - v /\ \A k \in 1..n - v : p[k] = f[v + k]
  BY CutIs
<1>1. ASSUME \A k \in v + 1..n : IsPlainChar(f[k]), NEW k \in 1..Len(p)
      PROVE  IsPlainChar(p[k])
  <2>1. v + k \in v + 1..n /\ k \in 1..n - v
    BY <1>0
  <2> QED BY <1>0, <1>1, <2>1
<1>2. ASSUME \A k \in 1..Len(p) : IsPlainChar(p[k]), NEW k \in v + 1..n
      PROVE  IsPlainChar(f[k])
  <2>1. k - v \in 1..n - v /\ v + (k - v) = k
    OBVIOUS
  <2> QED BY <1>0, <1>2, <2>1
<1> QED BY <1>1, <1>2 DEF All

\* The three ways to write a value exclude each other.
LEMMA ValueIsAt ==
    ASSUME NEW f \in Seq(Char), NEW n \in 0..Len(f), NEW v \in 0..n, NEW x
    PROVE  x \in ValueOf(Cut(f, v, n), After(f, n)) <=>
             \/ x = Inside(f, v, n) /\ (QuotedAt(f, v, n) \/ BracesAt(f, v, n))
             \/ x = Cut(f, v, n) /\ PlainAt(f, v, n)
<1> PICK p \in Seq(Char), l \in Nat : p = Cut(f, v, n) /\ l = n - v
  BY CutIs
<1>0. Len(p) = l /\ \A k \in 1..l : p[k] = f[v + k]
  BY CutIs
<1> DEFINE in == SubSeq(p, 2, l - 1)
           without(c) == \A k \in 1..Len(in) : in[k] # c
           first == /\ l >= 2 /\ IsQuote(p[1]) /\ p[l] = p[1]
                    /\ without(p[1]) /\ without(Nl)
                    /\ Len(in) < MAX_PARAM_LEN
           second == /\ l >= 2 /\ p[1] = LeftBrace /\ p[l] = RightBrace
                     /\ without(RightBrace) /\ Len(in) < MAX_PARAM_LEN
           third == /\ All(p, IsPlainChar) /\ ~IsPlainChar(After(f, n))
                    /\ (l = 0 => After(f, n) \in {"#", Control})
                    /\ ~(l > 0 /\ (IsQuote(p[1]) \/ p[1] = LeftBrace))
                    /\ l < MAX_PARAM_LEN
<1>1. ValueOf(p, After(f, n)) = IF first THEN {in} ELSE IF second THEN {in}
                                ELSE IF third THEN {p} ELSE {}
  BY <1>0, Zenon DEF ValueOf, LeftBrace, RightBrace
<1>2. l >= 1 => p[1] = f[v + 1]
  BY <1>0
<1>3. l >= 2 => p[l] = f[n]
  BY <1>0
<1>4. ASSUME l >= 2
      PROVE  /\ in = Inside(f, v, n) /\ Len(in) = n - v - 2
             /\ \A c : without(c) <=> \A k \in v + 2..n - 1 : f[k] # c
  <2>1. Cut(p, 1, l - 1) = Cut(f, v + 1, v + (l - 1))
    <3>1. l - 1 \in 0..n - v /\ 1 \in 0..l - 1
      BY <1>4
    <3> QED BY <3>1, CutOfCut, Zenon
  <2>2. v + (l - 1) = n - 1
    OBVIOUS
  <2>3. in = Inside(f, v, n)
    BY <2>1, <2>2 DEF Cut, Inside
  <2>4. v + 1 \in 0..n - 1 /\ n - 1 \in 0..Len(f)
        /\ n - 1 - (v + 1) = n - v - 2 /\ v + 2 <= n
    BY <1>4
  <2>5. Len(Inside(f, v, n)) = n - v - 2
    BY <2>4, CutIs DEF Inside
  <2>6. \A c : without(c) <=> \A k \in v + 2..n - 1 : f[k] # c
    <3> HIDE DEF in
    <3> QED BY <2>3, <2>4, WithoutIsAt, Zenon DEF Inside
  <2> HIDE DEF in, without
  <2> QED BY <2>3, <2>5, <2>6
<1> HIDE DEF in, without
<1>5. first <=> QuotedAt(f, v, n)
  BY <1>2, <1>3, <1>4 DEF QuotedAt, InsideAt
<1>6. second <=> BracesAt(f, v, n)
  <2>1. l >= 2 <=> v + 2 <= n
    OBVIOUS
  <2>2. ASSUME l >= 2
        PROVE  without(RightBrace)
                 <=> \A k \in v + 2..n - 1 : f[k] # RightBrace
    BY <1>4, <2>2, Zenon
  <2>3. l >= 2 => p[1] = f[v + 1] /\ p[l] = f[n] /\ Len(in) = n - v - 2
    BY <1>2, <1>3, <1>4
  <2> QED BY <2>1, <2>2, <2>3, Zenon DEF BracesAt, InsideAt
<1>7. third <=> PlainAt(f, v, n)
  <2>1. All(p, IsPlainChar) <=> \A k \in v + 1..n : IsPlainChar(f[k])
    BY PlainIsAt
  <2>2. (l = 0 <=> v = n) /\ (l > 0 <=> v < n) /\ l = n - v
    OBVIOUS
  <2>3. v < n => p[1] = f[v + 1]
    BY <1>2
  <2> QED BY <2>1, <2>2, <2>3, Zenon DEF PlainAt
<1>8. PlainAt(f, v, n) => ~QuotedAt(f, v, n) /\ ~BracesAt(f, v, n)
  <2>1. InsideAt(f, v, n, f[v + 1]) \/ InsideAt(f, v, n, RightBrace) => v < n
    <3>1. InsideAt(f, v, n, f[v + 1]) \/ InsideAt(f, v, n, RightBrace)
            => v + 2 <= n
      BY Zenon DEF InsideAt
    <3> QED BY <3>1
  <2> QED BY <2>1, Zenon DEF PlainAt, QuotedAt, BracesAt
<1>9. QuotedAt(f, v, n) \/ BracesAt(f, v, n) => l >= 2
  BY <1>5, <1>6
<1> HIDE DEF first, second, third
<1> QED BY <1>1, <1>4, <1>5, <1>6, <1>7, <1>8, <1>9

\* The value that is given from v to n.
GivenAt(f, v, n, x) ==
    \/ x = Inside(f, v, n) /\ (QuotedAt(f, v, n) \/ BracesAt(f, v, n))
    \/ x = Cut(f, v, n) /\ PlainAt(f, v, n)

\* There is a value where there is a way to write one.
LEMMA GivenIsValue ==
    ASSUME NEW f, NEW v, NEW n
    PROVE  (\E x : GivenAt(f, v, n, x)) <=> ValueAt(f, v, n)
BY Zenon DEF GivenAt, ValueAt

\* A head in a piece.
HeadIn(p, a, e) ==
    /\ a < e /\ p[e] = "="
    /\ IsName(Cut(p, 0, a))
    /\ IsBlank(Cut(p, a, e - 1))

\* Heads of the grammar are heads by their places.
LEMMA HeadIsAt ==
    ASSUME NEW f \in Seq(Char), NEW n \in 0..Len(f), NEW m \in 0..n,
           NEW a \in 1..n - m, NEW e \in 1..n - m
    PROVE  HeadIn(Cut(f, m, n), a, e) <=> HeadAt(f, m, m + a, m + e)
<1> PICK p \in Seq(Char) : p = Cut(f, m, n)
  BY CutIs
<1>0. Len(p) = n - m /\ \A k \in 1..n - m : p[k] = f[m + k]
  BY CutIs
<1>1. p[e] = f[m + e] /\ (a < e <=> m + a < m + e) /\ m + e - 1 = m + (e - 1)
  BY <1>0
<1> PICK b \in Nat : b = m + a
  OBVIOUS
<1>2. IsName(Cut(p, 0, a)) <=> NameAt(f, m, b)
  <2>1. a \in 0..n - m /\ 0 \in 0..a /\ m + 0 = m /\ b \in 0..Len(f)
        /\ m \in 0..b
    OBVIOUS
  <2>2. Cut(p, 0, a) = Cut(f, m + 0, m + a)
    BY <2>1, CutOfCut, Zenon
  <2> QED BY <2>1, <2>2, NameIsAt, Zenon
<1>3. ASSUME a < e
      PROVE  IsBlank(Cut(p, a, e - 1)) <=> BlankAt(f, b, m + (e - 1))
  <2>1. e - 1 \in 0..n - m /\ a \in 0..e - 1 /\ m + (e - 1) \in 0..Len(f)
        /\ b \in 0..m + (e - 1)
    BY <1>3
  <2>2. Cut(p, a, e - 1) = Cut(f, m + a, m + (e - 1))
    BY <2>1, CutOfCut, Zenon
  <2> QED BY <2>1, <2>2, BlankIsAt, Zenon
<1>4. HeadAt(f, m, m + a, m + e) <=>
        /\ NameAt(f, m, b) /\ a < e
        /\ BlankAt(f, b, m + (e - 1)) /\ p[e] = "="
  BY <1>1 DEF HeadAt
<1> QED BY <1>2, <1>3, <1>4, Zenon DEF HeadIn

\* And the beginning of its value.
BeginsIn(p, e, v) ==
    /\ IsBlank(Cut(p, e, v))
    /\ v + 1 <= Len(p) => ~IsSpace(p[v + 1])

\* And the beginnings of values.
LEMMA BeginIsAt ==
    ASSUME NEW f \in Seq(Char), NEW n \in 0..Len(f), NEW m \in 0..n,
           NEW e \in 1..n - m, NEW v \in e..n - m
    PROVE  BeginsIn(Cut(f, m, n), e, v) <=> BeginsAt(f, m + e, m + v, n)
<1> PICK p \in Seq(Char) : p = Cut(f, m, n)
  BY CutIs
<1>0. Len(p) = n - m /\ \A k \in 1..n - m : p[k] = f[m + k]
  BY CutIs
<1>1. v + 1 <= Len(p) => p[v + 1] = f[m + v + 1]
  BY <1>0
<1>2. v + 1 <= Len(p) <=> m + v < n
  BY <1>0
<1>3. IsBlank(Cut(p, e, v)) <=> BlankAt(f, m + e, m + v)
  <2>1. v \in 0..n - m /\ e \in 0..v /\ m + v \in 0..Len(f)
        /\ m + e \in 0..m + v
    OBVIOUS
  <2>2. Cut(p, e, v) = Cut(f, m + e, m + v)
    BY <2>1, CutOfCut, Zenon
  <2> QED BY <2>1, <2>2, BlankIsAt, Zenon
<1> QED BY <1>1, <1>2, <1>3, Zenon DEF BeginsIn, BeginsAt

\* SettingOf, its places counted from the beginning of the piece.
LEMMA SettingIn ==
    ASSUME NEW p, NEW n \in Nat, n = Len(p), NEW next, NEW x
    PROVE  x \in SettingOf(p, next) <=>
             \E a \in 1..n, e \in 1..n : \E v \in e..n :
                /\ HeadIn(p, a, e) /\ BeginsIn(p, e, v)
                /\ \E y \in ValueOf(Cut(p, v, n), next) :
                      x = [opt |-> Cut(p, 0, a), param |-> y]
<1> DEFINE heads == {h \in (1..n) \X (1..n) :
                       /\ h[1] < h[2] /\ p[h[2]] = "="
                       /\ IsName(SubSeq(p, 1, h[1]))
                       /\ IsBlank(SubSeq(p, h[1] + 1, h[2] - 1))}
           starts(e) == {v \in e + 1..n + 1 :
                           /\ IsBlank(SubSeq(p, e + 1, v - 1))
                           /\ v <= n => ~IsSpace(p[v])}
           at(h, v) == {[opt |-> SubSeq(p, 1, h[1]), param |-> y] :
                           y \in ValueOf(SubSeq(p, v, n), next)}
           of(h) == UNION {at(h, v) : v \in starts(h[2])}
<1>1. SettingOf(p, next) = UNION {of(h) : h \in heads}
  BY DEF SettingOf
<1>2. x \in SettingOf(p, next) <=>
        \E h \in heads : \E v \in starts(h[2]) : x \in at(h, v)
  <2> HIDE DEF heads, starts, at
  <2>1. \A h : x \in of(h) <=> \E v \in starts(h[2]) : x \in at(h, v)
    OBVIOUS
  <2> HIDE DEF of
  <2> QED BY <1>1, <2>1
<1>3. \A a \in 1..n, e \in 1..n : <<a, e>> \in heads <=> HeadIn(p, a, e)
  <2> SUFFICES ASSUME NEW a \in 1..n, NEW e \in 1..n
               PROVE  <<a, e>> \in heads <=> HeadIn(p, a, e)
    OBVIOUS
  <2>1. SubSeq(p, 1, a) = Cut(p, 0, a)
    <3>1. 0 + 1 = 1 OBVIOUS
    <3> QED BY <3>1, Zenon DEF Cut
  <2>2. SubSeq(p, a + 1, e - 1) = Cut(p, a, e - 1)
    BY DEF Cut
  <2> QED BY <2>1, <2>2, Zenon DEF HeadIn
<1>4. ASSUME NEW e \in 1..n, NEW v \in e..n
      PROVE  v + 1 \in starts(e) <=> BeginsIn(p, e, v)
  <2>1. v + 1 - 1 = v /\ v + 1 \in e + 1..n + 1
    OBVIOUS
  <2>2. SubSeq(p, e + 1, v + 1 - 1) = Cut(p, e, v)
    BY <2>1 DEF Cut
  <2>3. v + 1 \in starts(e) <=>
          /\ IsBlank(SubSeq(p, e + 1, v + 1 - 1))
          /\ v + 1 <= n => ~IsSpace(p[v + 1])
    BY <2>1
  <2> HIDE DEF starts
  <2> QED BY <2>2, <2>3 DEF BeginsIn
<1>5. \A e \in 1..n : \A w \in starts(e) : w - 1 \in e..n /\ w = w - 1 + 1
  OBVIOUS
<1>6. ASSUME NEW a \in 1..n, NEW e \in 1..n, NEW v \in e..n
      PROVE  x \in at(<<a, e>>, v + 1) <=>
                \E y \in ValueOf(Cut(p, v, n), next) :
                   x = [opt |-> Cut(p, 0, a), param |-> y]
  <2>1. SubSeq(p, 1, a) = Cut(p, 0, a)
    <3>1. 0 + 1 = 1 OBVIOUS
    <3> QED BY <3>1, Zenon DEF Cut
  <2>2. SubSeq(p, v + 1, n) = Cut(p, v, n)
    BY DEF Cut
  <2> QED BY <2>1, <2>2
<1>7. \A h \in heads : \E a \in 1..n, e \in 1..n : h = <<a, e>>
  OBVIOUS
<1> HIDE DEF heads, starts, at
<1>8. ASSUME x \in SettingOf(p, next)
      PROVE  \E a \in 1..n, e \in 1..n : \E v \in e..n :
                /\ HeadIn(p, a, e) /\ BeginsIn(p, e, v)
                /\ \E y \in ValueOf(Cut(p, v, n), next) :
                      x = [opt |-> Cut(p, 0, a), param |-> y]
  <2>1. PICK h \in heads : \E w \in starts(h[2]) : x \in at(h, w)
    BY <1>2, <1>8
  <2>2. PICK a \in 1..n, e \in 1..n : h = <<a, e>>
    BY <1>7
  <2>3. h[2] = e
    BY <2>2
  <2>4. PICK w \in starts(e) : x \in at(<<a, e>>, w)
    BY <2>1, <2>2, <2>3
  <2>5. PICK v \in e..n : v = w - 1 /\ w = v + 1
    BY <1>5
  <2>6. HeadIn(p, a, e)
    BY <1>3, <2>2, Zenon
  <2>7. BeginsIn(p, e, v)
    BY <1>4, <2>5, Zenon
  <2>8. \E y \in ValueOf(Cut(p, v, n), next) :
           x = [opt |-> Cut(p, 0, a), param |-> y]
    BY <1>6, <2>4, <2>5, Zenon
  <2> QED BY <2>6, <2>7, <2>8, Zenon
<1>9. ASSUME NEW a \in 1..n, NEW e \in 1..n, NEW v \in e..n,
             HeadIn(p, a, e), BeginsIn(p, e, v),
             NEW y \in ValueOf(Cut(p, v, n), next),
             x = [opt |-> Cut(p, 0, a), param |-> y]
      PROVE  x \in SettingOf(p, next)
  <2>1. <<a, e>> \in heads /\ <<a, e>>[2] = e
    BY <1>3, <1>9
  <2>2. v + 1 \in starts(<<a, e>>[2])
    BY <1>4, <1>9, <2>1
  <2>3. x \in at(<<a, e>>, v + 1)
    BY <1>6, <1>9
  <2> QED BY <1>2, <2>1, <2>2, <2>3, Zenon
<1> QED BY <1>8, <1>9, Zenon

\* The text sets x from m to n.
SetsAt(f, m, n, x) ==
    \E a \in m + 1..n : \E e \in a + 1..n : \E v \in e..n :
       /\ HeadAt(f, m, a, e) /\ BeginsAt(f, e, v, n)
       /\ \E y : GivenAt(f, v, n, y) /\ x = [opt |-> Cut(f, m, a), param |-> y]

\* Settings of the grammar are settings by their places.
LEMMA SettingIsAt ==
    ASSUME NEW f \in Seq(Char), NEW n \in 0..Len(f), NEW m \in 0..n, NEW x
    PROVE  x \in SettingOf(Cut(f, m, n), After(f, n)) <=> SetsAt(f, m, n, x)
<1> PICK p \in Seq(Char), l \in Nat : p = Cut(f, m, n) /\ l = n - m
  BY CutIs
<1>0. l = Len(p) /\ l = n - m
  BY CutIs
<1> DEFINE next == After(f, n)
           In(a, e, v) ==
             /\ HeadIn(p, a, e) /\ BeginsIn(p, e, v)
             /\ \E y \in ValueOf(Cut(p, v, l), next) :
                   x = [opt |-> Cut(p, 0, a), param |-> y]
           Stands(a, e, v) ==
             /\ HeadAt(f, m, a, e) /\ BeginsAt(f, e, v, n)
             /\ \E y : /\ GivenAt(f, v, n, y)
                       /\ x = [opt |-> Cut(f, m, a), param |-> y]
<1>1. x \in SettingOf(p, next) <=>
        \E a \in 1..l, e \in 1..l : \E v \in e..l : In(a, e, v)
  <2> HIDE DEF next
  <2>1. l = Len(p)
    BY <1>0
  <2> QED BY <2>1, SettingIn
<1>2. ASSUME NEW a \in 1..l, NEW e \in 1..l, NEW v \in e..l
      PROVE  In(a, e, v) <=> Stands(m + a, m + e, m + v)
  <2>1. HeadIn(p, a, e) <=> HeadAt(f, m, m + a, m + e)
    <3>1. a \in 1..n - m /\ e \in 1..n - m
      BY <1>0
    <3> QED BY <3>1, HeadIsAt, Zenon
  <2>2. BeginsIn(p, e, v) <=> BeginsAt(f, m + e, m + v, n)
    <3>1. e \in 1..n - m /\ v \in e..n - m
      BY <1>0
    <3> QED BY <3>1, BeginIsAt, Zenon
  <2>3. Cut(p, v, l) = Cut(f, m + v, n)
    <3>1. l \in 0..n - m /\ v \in 0..l /\ m + l = n
      BY <1>0
    <3>2. Cut(p, v, l) = Cut(f, m + v, m + l)
      BY <3>1, CutOfCut, Zenon
    <3> QED BY <3>1, <3>2
  <2>4. Cut(p, 0, a) = Cut(f, m, m + a)
    <3>1. a \in 0..n - m /\ 0 \in 0..a /\ m + 0 = m
      BY <1>0
    <3>2. Cut(p, 0, a) = Cut(f, m + 0, m + a)
      BY <3>1, CutOfCut, Zenon
    <3> QED BY <3>1, <3>2
  <2>5. \A y : y \in ValueOf(Cut(f, m + v, n), next)
                <=> GivenAt(f, m + v, n, y)
    <3>1. m + v \in 0..n
      BY <1>0
    <3> QED BY <3>1, ValueIsAt, Zenon DEF GivenAt
  <2> HIDE DEF next
  <2> QED BY <2>1, <2>2, <2>3, <2>4, <2>5, Zenon
<1>3. SetsAt(f, m, n, x) <=>
        \E a \in m + 1..n : \E e \in a + 1..n : \E v \in e..n : Stands(a, e, v)
  BY Zenon DEF SetsAt
<1> HIDE DEF In, Stands
<1>4. ASSUME NEW a \in 1..l, NEW e \in 1..l, NEW v \in e..l, In(a, e, v)
      PROVE  SetsAt(f, m, n, x)
  <2>1. a < e
    BY <1>4 DEF In, HeadIn
  <2>2. m + a \in m + 1..n /\ m + e \in (m + a) + 1..n /\ m + v \in m + e..n
    BY <1>0, <2>1
  <2>3. Stands(m + a, m + e, m + v)
    BY <1>2, <1>4
  <2> QED BY <1>3, <2>2, <2>3, Zenon
<1>5. ASSUME NEW a \in m + 1..n, NEW e \in a + 1..n, NEW v \in e..n,
             Stands(a, e, v)
      PROVE  x \in SettingOf(p, next)
  <2>1. /\ a - m \in 1..l /\ e - m \in 1..l /\ v - m \in e - m..l
        /\ m + (a - m) = a /\ m + (e - m) = e /\ m + (v - m) = v
    BY <1>0
  <2>2. Stands(m + (a - m), m + (e - m), m + (v - m))
    BY <1>5, <2>1
  <2>3. In(a - m, e - m, v - m)
    BY <1>2, <2>1, <2>2, Zenon
  <2> QED BY <1>1, <2>1, <2>3, Zenon
<1> QED BY <1>1, <1>3, <1>4, <1>5, Zenon

\* There is a setting where something is set.
LEMMA SettingIsSome ==
    ASSUME NEW f, NEW n, NEW m
    PROVE  SettingAt(f, m, n) <=> \E x : SetsAt(f, m, n, x)
<1>1. ASSUME SettingAt(f, m, n) PROVE \E x : SetsAt(f, m, n, x)
  <2>1. PICK a \in m + 1..n : \E e \in a + 1..n : \E v \in e..n :
               HeadAt(f, m, a, e) /\ BeginsAt(f, e, v, n) /\ ValueAt(f, v, n)
    BY <1>1, Zenon DEF SettingAt
  <2>2. PICK e \in a + 1..n : \E v \in e..n :
               HeadAt(f, m, a, e) /\ BeginsAt(f, e, v, n) /\ ValueAt(f, v, n)
    BY <2>1
  <2>3. PICK v \in e..n :
               HeadAt(f, m, a, e) /\ BeginsAt(f, e, v, n) /\ ValueAt(f, v, n)
    BY <2>2
  <2>4. PICK y : GivenAt(f, v, n, y)
    BY <2>3, GivenIsValue, Zenon
  <2>5. SetsAt(f, m, n, [opt |-> Cut(f, m, a), param |-> y])
    BY <2>3, <2>4, Zenon DEF SetsAt
  <2> QED BY <2>5
<1>2. ASSUME NEW x, SetsAt(f, m, n, x) PROVE SettingAt(f, m, n)
  BY <1>2, GivenIsValue, Zenon DEF SetsAt, SettingAt
<1> QED BY <1>1, <1>2

-----------------------------------------------------------------------------
(***************************************************************************)
(* How readings come about, and where pieces end.  While a piece is scanned*)
(* it is not known where it ends.  The induction needs that no reading ends*)
(* in the middle of it: whatever began before it ended before it (Solid),  *)
(* and what begins where it does ends where the scanner finds its end, or  *)
(* nowhere (EndsOnly).                                                     *)
(***************************************************************************)
\* A text, and what may be read in its beginnings.
IsRead(f, R) == f \in Seq(Char) /\ AreReadings(f, R)

\* Every text has its readings.
LEMMA FilesAreRead ==
    ASSUME NEW f \in Seq(Char)
    PROVE  IsRead(f, ReadingsOf(f))
BY ReadingsAre, LenProperties DEF IsRead

\* Blanks and comments are passed over by a reading.
LEMMA ReadsBlank ==
    ASSUME NEW f, NEW R, IsRead(f, R), NEW n \in 0..Len(f), NEW m \in 0..n,
           NEW s \in R[m], m < n, BlankAt(f, m, n) \/ CommentAt(f, m, n)
    PROVE  s \in R[n]
<1>1. f \in Seq(Char) /\ AreReadings(f, R) /\ Len(f) \in Nat
      /\ n \in 1..Len(f) /\ m \in 0..n - 1
  BY DEF IsRead
<1>2. IsBlank(Cut(f, m, n)) \/ IsComment(Cut(f, m, n))
  BY <1>1, BlankIsAt, CommentIsAt, Zenon
<1>3. s \in Extended(s, SubSeq(f, m + 1, n), After(f, n))
  BY <1>2 DEF Extended, Cut
<1> QED BY <1>1, <1>3, ReadingGoesOn, Zenon

\* A setting is added to it.
LEMMA ReadsSetting ==
    ASSUME NEW f, NEW R, IsRead(f, R), NEW n \in 0..Len(f), NEW m \in 0..n,
           NEW s \in R[m], m < n, NEW x, SetsAt(f, m, n, x)
    PROVE  Append(s, x) \in R[n]
<1>1. f \in Seq(Char) /\ AreReadings(f, R) /\ Len(f) \in Nat
      /\ n \in 1..Len(f) /\ m \in 0..n - 1
  BY DEF IsRead
<1>2. x \in SettingOf(Cut(f, m, n), After(f, n))
  BY <1>1, SettingIsAt, Zenon
<1>3. Append(s, x) \in Extended(s, SubSeq(f, m + 1, n), After(f, n))
  BY <1>2, Zenon DEF Extended, Cut
<1> QED BY <1>1, <1>3, ReadingGoesOn, Zenon

\* Where a reading came from: the last piece of it begins at m.
CameFrom(f, R, m, n, t) ==
    \/ t \in R[m] /\ (BlankAt(f, m, n) \/ CommentAt(f, m, n))
    \/ \E s \in R[m] : \E x : SetsAt(f, m, n, x) /\ t = Append(s, x)

\* Every reading of more than nothing came from one of less.
LEMMA ReadingBefore ==
    ASSUME NEW f, NEW R, IsRead(f, R), NEW n \in 1..Len(f), NEW t \in R[n]
    PROVE  \E m \in 0..n - 1 : CameFrom(f, R, m, n, t)
<1>1. f \in Seq(Char) /\ AreReadings(f, R) /\ Len(f) \in Nat /\ n \in 0..Len(f)
  BY DEF IsRead
<1>2. PICK m \in 0..n - 1 : \E s \in R[m] :
              t \in Extended(s, SubSeq(f, m + 1, n), After(f, n))
  BY <1>1, ReadingCameFrom, Zenon
<1>3. PICK s \in R[m] : t \in Extended(s, SubSeq(f, m + 1, n), After(f, n))
  BY <1>2
<1>4. m \in 0..n
  OBVIOUS
<1>5. \/ t = s /\ (IsBlank(Cut(f, m, n)) \/ IsComment(Cut(f, m, n)))
      \/ \E x : /\ x \in SettingOf(Cut(f, m, n), After(f, n))
                /\ t = Append(s, x)
  BY <1>3, Zenon DEF Extended, Cut
<1>6. IsBlank(Cut(f, m, n)) => BlankAt(f, m, n)
  BY <1>1, <1>4, BlankIsAt, Zenon
<1>7. IsComment(Cut(f, m, n)) => CommentAt(f, m, n)
  BY <1>1, <1>4, CommentIsAt, Zenon
<1>8. \A x : x \in SettingOf(Cut(f, m, n), After(f, n)) => SetsAt(f, m, n, x)
  BY <1>1, <1>4, SettingIsAt, Zenon
<1> QED BY <1>5, <1>6, <1>7, <1>8, Zenon DEF CameFrom

\* The rest of a file behind m, in terms of places.
LEMMA UnfinishedIsAt ==
    ASSUME NEW f \in Seq(Char), NEW m \in 0..Len(f)
    PROVE  IsUnfinished(Cut(f, m, Len(f))) <=> UnfinishedAt(f, m)
<1> PICK l \in Nat : l = Len(f)
  BY LenProperties
<1>l. l \in 0..Len(f) /\ m \in 0..l /\ l - m \in Nat
  OBVIOUS
<1> PICK p \in Seq(Char) : p = Cut(f, m, l)
  BY <1>l, CutIs, Zenon
<1> PICK k \in Nat : k = l - m
  BY <1>l
<1>0. Len(p) = k /\ k = l - m /\ \A i \in 1..k : p[i] = f[m + i]
  BY <1>l, CutIs, Zenon
<1>1. p = <<>> <=> m = l
  BY <1>0, EmptySeq
<1> DEFINE rest(a) == SubSeq(p, a + 1, Len(p))
           One(a) == IsName(SubSeq(p, 1, a)) /\ IsBlank(rest(a))
           Two(a, e) == /\ IsName(SubSeq(p, 1, a))
                        /\ rest(a)[e] = "="
                        /\ IsBlank(SubSeq(rest(a), 1, e - 1))
                        /\ IsBlank(SubSeq(rest(a), e + 1, Len(rest(a))))
<1>2. IsUnfinished(p) <=>
        \/ p = <<>>
        \/ \E a \in 1..k : One(a) \/ \E e \in 1..Len(rest(a)) : Two(a, e)
  <2>1. IsUnfinished(p) <=>
          \/ p = <<>>
          \/ \E a \in 1..Len(p) :
                One(a) \/ \E e \in 1..Len(rest(a)) : Two(a, e)
    <3> DEFINE Ends(a) ==
                 /\ IsName(SubSeq(p, 1, a))
                 /\ \/ IsBlank(rest(a))
                    \/ \E e \in 1..Len(rest(a)) :
                         /\ rest(a)[e] = "="
                         /\ IsBlank(SubSeq(rest(a), 1, e - 1))
                         /\ IsBlank(SubSeq(rest(a), e + 1, Len(rest(a))))
    <3>1. IsUnfinished(p) <=> p = <<>> \/ \E a \in 1..Len(p) : Ends(a)
      BY Zenon DEF IsUnfinished
    <3> HIDE DEF rest
    <3>2. \A a : Ends(a) <=>
                  One(a) \/ \E e \in 1..Len(rest(a)) : Two(a, e)
      BY Zenon
    <3> HIDE DEF One, Two, Ends
    <3> QED BY <3>1, <3>2, Zenon
  <2>2. 1..Len(p) = 1..k
    BY <1>0
  <2> HIDE DEF rest, One, Two
  <2> QED BY <2>1, <2>2, Zenon
<1>3. ASSUME NEW a \in 1..k
      PROVE  /\ rest(a) = Cut(f, m + a, l) /\ Len(rest(a)) = k - a
             /\ IsName(SubSeq(p, 1, a)) <=> NameAt(f, m, m + a)
             /\ One(a) <=> NameAt(f, m, m + a) /\ BlankAt(f, m + a, l)
  <2>1. a \in 0..l - m /\ 0 \in 0..a /\ m + 0 = m /\ 0 + 1 = 1
        /\ k \in 0..l - m /\ a \in 0..k /\ m + k = l /\ m + a \in 0..l
        /\ l - (m + a) = k - a
        /\ m \in 0..m + a /\ l \in 0..Len(f) /\ m \in 0..l
    BY <1>0
  <2>2. Cut(p, 0, a) = Cut(f, m + 0, m + a)
    BY <2>1, CutOfCut, Zenon
  <2>3. SubSeq(p, 1, a) = Cut(f, m, m + a)
    BY <2>1, <2>2, Zenon DEF Cut
  <2>4. Cut(p, a, k) = Cut(f, m + a, m + k)
    BY <2>1, CutOfCut, Zenon
  <2>5. rest(a) = Cut(f, m + a, l)
    BY <1>0, <2>1, <2>4, Zenon DEF Cut
  <2>6. Len(Cut(f, m + a, l)) = k - a
    <3>1. l \in 0..Len(f) /\ m + a \in 0..l
      BY <2>1
    <3> QED BY <2>1, <3>1, CutIs, Zenon
  <2>7. IsName(SubSeq(p, 1, a)) <=> NameAt(f, m, m + a)
    BY <2>1, <2>3, NameIsAt, Zenon
  <2>8. IsBlank(rest(a)) <=> BlankAt(f, m + a, l)
    <3>1. l \in 0..Len(f) /\ m + a \in 0..l
      BY <2>1
    <3> QED BY <2>5, <3>1, BlankIsAt, Zenon
  <2> QED BY <2>5, <2>6, <2>7, <2>8, Zenon
<1>4. ASSUME NEW a \in 1..k, NEW e \in 1..k - a
      PROVE  Two(a, e) <=> /\ HeadAt(f, m, m + a, m + a + e)
                           /\ BlankAt(f, m + a + e, l)
  <2> PICK b \in Nat, c \in Nat : b = m + a /\ c = m + a + e
    OBVIOUS
  <2> PICK q : q = Cut(f, b, l)
    OBVIOUS
  <2>0. rest(a) = q /\ Len(q) = k - a
    BY <1>3
  <2> HIDE DEF rest
  <2>1. b \in 0..l /\ l \in 0..Len(f) /\ c \in 0..l /\ c - 1 \in 0..l
        /\ b \in 0..c - 1 /\ e - 1 \in 0..l - b /\ 0 \in 0..e - 1
        /\ b + 0 = b /\ b + (e - 1) = c - 1 /\ 0 + 1 = 1
        /\ k - a \in 0..l - b /\ e \in 0..k - a /\ b + e = c /\ b + (k - a) = l
        /\ b < c
    BY <1>0
  <2>2. q[e] = f[c]
    <3>1. \A i \in 1..l - b : q[i] = f[b + i]
      BY <2>1, CutIs, Zenon
    <3>2. e \in 1..l - b
      BY <2>1
    <3> QED BY <2>1, <3>1, <3>2, Zenon
  <2>3. SubSeq(q, 1, e - 1) = Cut(f, b, c - 1)
    <3>1. Cut(q, 0, e - 1) = Cut(f, b + 0, b + (e - 1))
      BY <2>1, CutOfCut, Zenon
    <3> QED BY <2>1, <3>1, Zenon DEF Cut
  <2>4. SubSeq(q, e + 1, Len(q)) = Cut(f, c, l)
    <3>1. Cut(q, e, k - a) = Cut(f, b + e, b + (k - a))
      BY <2>1, CutOfCut, Zenon
    <3> QED BY <2>0, <2>1, <3>1, Zenon DEF Cut
  <2>5. IsBlank(Cut(f, b, c - 1)) <=> BlankAt(f, b, c - 1)
    BY <2>1, BlankIsAt, Zenon
  <2>6. IsBlank(Cut(f, c, l)) <=> BlankAt(f, c, l)
    BY <2>1, BlankIsAt, Zenon
  <2>7. IsName(SubSeq(p, 1, a)) <=> NameAt(f, m, b)
    BY <1>3
  <2> QED BY <2>0, <2>1, <2>2, <2>3, <2>4, <2>5, <2>6, <2>7, Zenon DEF HeadAt
<1> HIDE DEF One, Two
<1>5. \A a \in 1..k : 1..Len(rest(a)) = 1..k - a
  BY <1>3
<1> HIDE DEF rest
<1>6. ASSUME IsUnfinished(p) PROVE UnfinishedAt(f, m)
  <2>1. CASE p = <<>>
    BY <1>1, <2>1 DEF UnfinishedAt
  <2>2. CASE \E a \in 1..k : One(a)
    <3> PICK a \in 1..k : One(a)
      BY <2>2
    <3>1. m + a \in m + 1..l
      BY <1>0
    <3> QED BY <1>3, <3>1, Zenon DEF UnfinishedAt
  <2>3. CASE \E a \in 1..k : \E e \in 1..k - a : Two(a, e)
    <3> PICK a \in 1..k : \E e \in 1..k - a : Two(a, e)
      BY <2>3
    <3> PICK e \in 1..k - a : Two(a, e)
      OBVIOUS
    <3>1. m + a \in m + 1..l /\ m + a + e \in (m + a) + 1..l
      BY <1>0
    <3> QED BY <1>4, <3>1, Zenon DEF UnfinishedAt
  <2> QED BY <1>2, <1>5, <1>6, <2>1, <2>2, <2>3, Zenon
<1>7. ASSUME UnfinishedAt(f, m) PROVE IsUnfinished(p)
  <2>1. CASE m = l
    BY <1>1, <1>2, <2>1
  <2>2. ASSUME NEW b \in m + 1..l, NameAt(f, m, b), BlankAt(f, b, l)
        PROVE  IsUnfinished(p)
    <3>1. b - m \in 1..k /\ m + (b - m) = b
      BY <1>0
    <3>2. One(b - m)
      BY <1>3, <2>2, <3>1, Zenon
    <3> QED BY <1>2, <3>1, <3>2, Zenon
  <2>3. ASSUME NEW b \in m + 1..l, NEW c \in b + 1..l,
               HeadAt(f, m, b, c), BlankAt(f, c, l)
        PROVE  IsUnfinished(p)
    <3>1. b - m \in 1..k /\ c - b \in 1..k - (b - m) /\ m + (b - m) = b
          /\ m + (b - m) + (c - b) = c
      BY <1>0
    <3>2. Two(b - m, c - b)
      BY <1>4, <2>3, <3>1, Zenon
    <3>3. c - b \in 1..Len(rest(b - m))
      BY <1>5, <3>1, Zenon
    <3> QED BY <1>2, <3>1, <3>2, <3>3, Zenon
  <2> QED BY <1>7, <2>1, <2>2, <2>3, Zenon DEF UnfinishedAt
<1> QED BY <1>6, <1>7

\* A comment that does not end.
OpenAt(f, m) ==
    m < Len(f) /\ f[m + 1] = "#" /\ \A k \in m + 1..Len(f) : f[k] # Nl

\* Whatever may be the rest of a file.
RestAt(f, m) == UnfinishedAt(f, m) \/ OpenAt(f, m)

\* A piece that begins before b and is not blank ends before b, too, and is
\* not the rest of the file.
Solid(f, R, b) ==
    \A n \in 0..b - 1 : R[n] # {} =>
       /\ ~RestAt(f, n)
       /\ \A m \in n + 1..Len(f) :
             SettingAt(f, n, m) \/ CommentAt(f, n, m) => m <= b

\* The three kinds of characters a piece begins with.
LEMMA Characters ==
    ASSUME NEW c
    PROVE  /\ IsSpace(c) => ~IsOptionChar(c) /\ c # "#" /\ c # "="
           /\ IsOptionChar(c) => c # "#" /\ c # "=" /\ c # NUL /\ c # Nl
           /\ IsSpace(c) => ~IsPlainChar(c) /\ c # NUL
           /\ "#" # Nl /\ "=" # "#"
           /\ c \in {"#", Control} => ~IsSpace(c) /\ c # NUL
BY DEF IsSpace, IsOptionChar, IsPlainChar, IsPrint, Nl, NUL, Control

\* A setting begins with the character of a name.
LEMMA SettingBegins ==
    ASSUME NEW f, NEW n \in Nat, NEW m \in Nat, SettingAt(f, m, n)
    PROVE  IsOptionChar(f[m + 1])
<1>1. PICK a \in m + 1..n : \E e : HeadAt(f, m, a, e)
  BY Zenon DEF SettingAt
<1>2. NameAt(f, m, a)
  BY <1>1, Zenon DEF HeadAt
<1> QED BY <1>2 DEF NameAt

\* So does what is left of one.
LEMMA UnfinishedBegins ==
    ASSUME NEW f, NEW m \in Nat, UnfinishedAt(f, m), m # Len(f)
    PROVE  IsOptionChar(f[m + 1])
<1>1. PICK a \in m + 1..Len(f) : NameAt(f, m, a)
  BY Zenon DEF UnfinishedAt, HeadAt
<1> QED BY <1>1 DEF NameAt

\* A blank begins no piece that would end elsewhere.
LEMMA SolidBlank ==
    ASSUME NEW f, NEW R, IsRead(f, R), NEW b \in 0..Len(f),
           NEW c \in 0..Len(f), c = b + 1, Solid(f, R, b), IsSpace(f[b + 1])
    PROVE  Solid(f, R, c)
<1> SUFFICES ASSUME NEW n \in 0..c - 1, R[n] # {}
             PROVE  /\ ~RestAt(f, n)
                    /\ \A m \in n + 1..Len(f) :
                         SettingAt(f, n, m) \/ CommentAt(f, n, m) => m <= c
  BY Zenon DEF Solid
<1>1. CASE n = b
  <2>1. ~RestAt(f, n)
    BY <1>1, UnfinishedBegins, Characters DEF RestAt, OpenAt
  <2>2. ASSUME NEW m \in n + 1..Len(f) PROVE ~SettingAt(f, n, m)
    BY <1>1, SettingBegins, Characters
  <2>3. ASSUME NEW m \in n + 1..Len(f) PROVE ~CommentAt(f, n, m)
    BY <1>1, Characters DEF CommentAt
  <2> QED BY <2>1, <2>2, <2>3
<1>2. CASE n # b
  <2>1. n \in 0..b - 1
    BY <1>2
  <2>2. /\ ~RestAt(f, n)
        /\ \A m \in n + 1..Len(f) :
             SettingAt(f, n, m) \/ CommentAt(f, n, m) => m <= b
    BY <2>1, Zenon DEF Solid
  <2>3. \A m \in n + 1..Len(f) : m <= b => m <= c
    OBVIOUS
  <2> QED BY <2>2, <2>3, Zenon
<1> QED BY <1>1, <1>2

\* What begins at b can only end at e.
EndsOnly(f, b, e) ==
    \A m \in b + 1..Len(f) :
       SettingAt(f, b, m) \/ CommentAt(f, b, m) => m = e

\* And is not the rest of the file.
OnlyTo(f, b, e) == ~RestAt(f, b) /\ EndsOnly(f, b, e)

\* What was read up to n came from b, or from a place inside.
LEMMA FromNoEarlier ==
    ASSUME NEW f, NEW R, IsRead(f, R), NEW b \in 0..Len(f),
           Solid(f, R, b), ~IsSpace(f[b + 1]),
           NEW n \in b + 1..Len(f), NEW m \in 0..n - 1, NEW t,
           CameFrom(f, R, m, n, t)
    PROVE  /\ m >= b /\ R[m] # {}
           /\ m = b => SettingAt(f, b, n) \/ CommentAt(f, b, n)
<1>0. Len(f) \in Nat
  BY LenProperties DEF IsRead
<1>1. R[m] # {}
  BY DEF CameFrom
<1>2. BlankAt(f, m, n) \/ CommentAt(f, m, n) \/ SettingAt(f, m, n)
  BY SettingIsSome, Zenon DEF CameFrom
<1>3. m <= b => ~BlankAt(f, m, n)
  <2>1. m <= b => b + 1 \in m + 1..n
    BY <1>0
  <2> QED BY <2>1 DEF BlankAt
<1>4. ~(m < b)
  <2> SUFFICES ASSUME m < b PROVE FALSE OBVIOUS
  <2>1. m \in 0..b - 1 /\ n \in m + 1..Len(f) /\ ~(n <= b)
    BY <1>0
  <2> QED BY <1>1, <1>2, <1>3, <2>1 DEF Solid
<1> QED BY <1>0, <1>1, <1>2, <1>3, <1>4

\* Nothing is read up to a place inside of that piece.
LEMMA NothingInside ==
    ASSUME NEW f, NEW R, IsRead(f, R), NEW b \in 0..Len(f),
           NEW e \in b + 1..Len(f) + 1, Solid(f, R, b), ~IsSpace(f[b + 1]),
           EndsOnly(f, b, e), NEW n \in b + 1..e - 1
    PROVE  R[n] = {}
<1> SUFFICES ASSUME R[n] # {} PROVE FALSE OBVIOUS
<1>0. Len(f) \in Nat
  BY LenProperties DEF IsRead
<1> DEFINE T == {k \in b + 1..e - 1 : R[k] # {}}
<1>1. T \subseteq Nat /\ T # {}
  BY <1>0
<1> HIDE DEF T
<1>2. PICK k \in T : \A y \in T : k <= y
  BY <1>1, Least
<1>3. k \in b + 1..e - 1 /\ k \in 1..Len(f) /\ k \in b + 1..Len(f) /\ k # e
      /\ R[k] # {}
  BY <1>0, <1>2 DEF T
<1>4. PICK t \in R[k] : TRUE
  BY <1>3
<1>5. PICK m \in 0..k - 1 : CameFrom(f, R, m, k, t)
  BY <1>3, ReadingBefore
<1>6. /\ m >= b /\ R[m] # {}
      /\ m = b => SettingAt(f, b, k) \/ CommentAt(f, b, k)
  BY <1>3, <1>5, FromNoEarlier
<1>7. CASE m = b
  BY <1>3, <1>6, <1>7 DEF EndsOnly
<1>8. CASE m # b
  <2>1. m \in T /\ ~(k <= m)
    BY <1>0, <1>3, <1>6, <1>8 DEF T
  <2> QED BY <1>2, <2>1
<1> QED BY <1>7, <1>8

\* What is read up to e came from b.
LEMMA CameFromHere ==
    ASSUME NEW f, NEW R, IsRead(f, R), NEW b \in 0..Len(f),
           NEW e \in b + 1..Len(f), Solid(f, R, b), ~IsSpace(f[b + 1]),
           EndsOnly(f, b, e), NEW t \in R[e]
    PROVE  CameFrom(f, R, b, e, t) /\ ~BlankAt(f, b, e)
<1>0. Len(f) \in Nat
  BY LenProperties DEF IsRead
<1>1. e \in 1..Len(f) /\ e \in b + 1..Len(f) + 1
  BY <1>0
<1>2. PICK m \in 0..e - 1 : CameFrom(f, R, m, e, t)
  BY <1>1, ReadingBefore
<1>3. m >= b /\ R[m] # {}
  BY <1>2, FromNoEarlier
<1>4. ~(m > b)
  <2>1. m > b => m \in b + 1..e - 1
    BY <1>0
  <2> QED BY <1>1, <1>3, <2>1, NothingInside
<1>5. ~BlankAt(f, b, e)
  <2>1. b + 1 \in b + 1..e
    BY <1>0
  <2> QED BY <2>1 DEF BlankAt
<1>6. m = b
  BY <1>0, <1>3, <1>4
<1> QED BY <1>2, <1>5, <1>6

\* All that was read before e ends there.
LEMMA SolidBehind ==
    ASSUME NEW f, NEW R, IsRead(f, R), NEW b \in 0..Len(f),
           NEW e \in b + 1..Len(f) + 1, Solid(f, R, b), ~IsSpace(f[b + 1]),
           OnlyTo(f, b, e)
    PROVE  Solid(f, R, e)
<1>0. Len(f) \in Nat
  BY LenProperties DEF IsRead
<1> SUFFICES ASSUME NEW n \in 0..e - 1, R[n] # {}
             PROVE  /\ ~RestAt(f, n)
                    /\ \A m \in n + 1..Len(f) :
                         SettingAt(f, n, m) \/ CommentAt(f, n, m) => m <= e
  BY Zenon DEF Solid
<1>1. CASE n < b
  <2>1. n \in 0..b - 1
    BY <1>0, <1>1
  <2>2. /\ ~RestAt(f, n)
        /\ \A m \in n + 1..Len(f) :
             SettingAt(f, n, m) \/ CommentAt(f, n, m) => m <= b
    BY <2>1, Zenon DEF Solid
  <2>3. \A m \in n + 1..Len(f) : m <= b => m <= e
    BY <1>0
  <2> QED BY <2>2, <2>3, Zenon
<1>2. CASE n = b
  <2>1. \A m \in n + 1..Len(f) : m = e => m <= e
    BY <1>0
  <2> QED BY <1>2, <2>1, Zenon DEF OnlyTo, EndsOnly
<1>3. CASE n > b
  <2>1. n \in b + 1..e - 1
    BY <1>0, <1>3
  <2> QED BY <2>1, NothingInside DEF OnlyTo
<1> QED BY <1>0, <1>1, <1>2, <1>3

\* A name, and something that is none of it.
Named(f, b, a) ==
    NameAt(f, b, a) /\ (a < Len(f) => IsSpace(f[a + 1]) \/ f[a + 1] = "=")

\* A head begins with a name.
LEMMA HeadIsNamed ==
    ASSUME NEW f, NEW b \in Nat, NEW a \in Nat, NEW e \in Nat,
           HeadAt(f, b, a, e)
    PROVE  Named(f, b, a)
<1>1. NameAt(f, b, a) /\ a < e /\ f[e] = "="
      /\ \A k \in a + 1..e - 1 : IsSpace(f[k])
  BY DEF HeadAt, BlankAt
<1>2. CASE e = a + 1
  BY <1>1, <1>2 DEF Named
<1>3. CASE e # a + 1
  <2>1. a + 1 \in a + 1..e - 1
    BY <1>1, <1>3
  <2> QED BY <1>1, <2>1 DEF Named
<1> QED BY <1>2, <1>3

\* A name with blanks up to the end of the file is one.
LEMMA RestIsNamed ==
    ASSUME NEW f, NEW b \in Nat, NEW a \in Nat, Len(f) \in Nat,
           NameAt(f, b, a), BlankAt(f, a, Len(f))
    PROVE  Named(f, b, a)
<1>1. a < Len(f) => a + 1 \in a + 1..Len(f)
  OBVIOUS
<1> QED BY <1>1 DEF Named, BlankAt

\* A setting has a name.
LEMMA SettingIsNamed ==
    ASSUME NEW f, NEW b \in Nat, NEW m \in Nat, SettingAt(f, b, m)
    PROVE  \E a \in b + 1..m : Named(f, b, a)
<1>1. PICK a \in b + 1..m : \E e \in a + 1..m : HeadAt(f, b, a, e)
  BY Zenon DEF SettingAt
<1>2. PICK e \in a + 1..m : HeadAt(f, b, a, e)
  BY <1>1
<1> QED BY <1>2, HeadIsNamed

\* And what is left of one.
LEMMA UnfinishedIsNamed ==
    ASSUME NEW f, NEW b \in Nat, Len(f) \in Nat, UnfinishedAt(f, b), b # Len(f)
    PROVE  \E a \in b + 1..Len(f) : Named(f, b, a)
<1>1. CASE \E a \in b + 1..Len(f) : NameAt(f, b, a) /\ BlankAt(f, a, Len(f))
  BY <1>1, RestIsNamed
<1>2. CASE \E a \in b + 1..Len(f) : \E e \in a + 1..Len(f) :
             HeadAt(f, b, a, e) /\ BlankAt(f, e, Len(f))
  BY <1>2, HeadIsNamed
<1> QED BY <1>1, <1>2, Zenon DEF UnfinishedAt

\* A name ends where it ends.
LEMMA OneName ==
    ASSUME NEW f, NEW b \in Nat, Len(f) \in Nat, NEW a \in b + 1..Len(f),
           NameAt(f, b, a), ~IsOptionChar(After(f, a)),
           NEW x \in b + 1..Len(f), Named(f, b, x)
    PROVE  x = a
<1>1. CASE x < a
  <2>1. x + 1 \in b + 1..a /\ x < Len(f)
    BY <1>1
  <2>2. IsOptionChar(f[x + 1])
    BY <2>1 DEF NameAt
  <2> QED BY <2>1, <2>2, Characters DEF Named
<1>2. CASE a < x
  <2>1. a + 1 \in b + 1..x /\ a < Len(f)
    BY <1>2
  <2>2. IsOptionChar(f[a + 1])
    BY <2>1 DEF Named, NameAt
  <2> QED BY <2>1, <2>2 DEF After
<1> QED BY <1>1, <1>2

\* Where there is no name there is no setting.
LEMMA NoName ==
    ASSUME NEW f, NEW b \in Nat, Len(f) \in Nat, b < Len(f), f[b + 1] # "#",
           \A a \in b + 1..Len(f) : ~Named(f, b, a)
    PROVE  OnlyTo(f, b, Len(f) + 1)
<1>1. ~RestAt(f, b)
  BY UnfinishedIsNamed DEF RestAt, OpenAt
<1>2. ASSUME NEW m \in b + 1..Len(f), SettingAt(f, b, m) PROVE FALSE
  <2>1. PICK a \in b + 1..m : Named(f, b, a)
    BY <1>2, SettingIsNamed
  <2>2. a \in b + 1..Len(f)
    OBVIOUS
  <2> QED BY <2>1, <2>2
<1>3. ASSUME NEW m \in b + 1..Len(f) PROVE ~CommentAt(f, b, m)
  BY DEF CommentAt
<1> QED BY <1>1, <1>2, <1>3 DEF OnlyTo, EndsOnly

\* No name.
LEMMA EmptyName ==
    ASSUME NEW f, NEW b \in Nat, Len(f) \in Nat, b < Len(f), f[b + 1] # "#",
           ~IsOptionChar(f[b + 1])
    PROVE  OnlyTo(f, b, Len(f) + 1)
<1>1. ASSUME NEW a \in b + 1..Len(f) PROVE ~Named(f, b, a)
  <2>1. b + 1 \in b + 1..a
    OBVIOUS
  <2> QED BY <2>1 DEF Named, NameAt
<1> QED BY <1>1, NoName

\* A name that is too long for the buffer.
LEMMA LongName ==
    ASSUME NEW f, NEW b \in Nat, Len(f) \in Nat, NEW p \in b..Len(f),
           b < Len(f), \A k \in b + 1..p : IsOptionChar(f[k]),
           p - b >= MAX_OPT_LEN
    PROVE  OnlyTo(f, b, Len(f) + 1)
<1>0. b + 1 \in b + 1..p
  BY ParserAssumption
<1>1. ASSUME NEW a \in b + 1..Len(f), Named(f, b, a) PROVE FALSE
  <2>1. a - b < MAX_OPT_LEN
    BY <1>1 DEF Named, NameAt
  <2>2. a < p /\ a + 1 \in b + 1..p /\ a < Len(f)
    BY <2>1, ParserAssumption
  <2> QED BY <1>1, <2>2, Characters DEF Named
<1>2. f[b + 1] # "#"
  BY <1>0, Characters
<1> QED BY <1>1, <1>2, NoName

\* A name that no '=' follows.
LEMMA NoEquals ==
    ASSUME NEW f, NEW b \in Nat, Len(f) \in Nat, NEW a \in b + 1..Len(f),
           NEW p \in a..Len(f) - 1,
           NameAt(f, b, a), ~IsOptionChar(After(f, a)), BlankAt(f, a, p),
           ~IsSpace(f[p + 1]), f[p + 1] # "="
    PROVE  OnlyTo(f, b, Len(f) + 1)
<1>1. IsOptionChar(f[b + 1])
  <2>1. b + 1 \in b + 1..a
    OBVIOUS
  <2> QED BY <2>1 DEF NameAt
<1>2. ASSUME NEW x \in b + 1..Len(f), NEW e \in x + 1..Len(f),
             HeadAt(f, b, x, e)
      PROVE  FALSE
  <2>1. x = a
    BY <1>2, HeadIsNamed, OneName
  <2>2. a < e /\ f[e] = "=" /\ BlankAt(f, a, e - 1)
    BY <1>2, <2>1 DEF HeadAt
  <2>3. CASE e <= p
    <3>1. e \in a + 1..p
      BY <2>2, <2>3
    <3> QED BY <2>2, <3>1, Characters DEF BlankAt
  <2>4. CASE e = p + 1
    BY <2>2, <2>4
  <2>5. CASE e > p + 1
    <3>1. p + 1 \in a + 1..e - 1
      BY <2>5
    <3> QED BY <2>2, <3>1 DEF BlankAt
  <2> QED BY <2>3, <2>4, <2>5
<1>3. ASSUME NEW x \in b + 1..Len(f), NameAt(f, b, x), BlankAt(f, x, Len(f))
      PROVE  FALSE
  <2>1. x = a
    BY <1>3, RestIsNamed, OneName
  <2>2. p + 1 \in a + 1..Len(f)
    OBVIOUS
  <2> QED BY <1>3, <2>1, <2>2 DEF BlankAt
<1>4. ~RestAt(f, b)
  <2>1. ~UnfinishedAt(f, b)
    BY <1>2, <1>3, b # Len(f), Zenon DEF UnfinishedAt
  <2> QED BY <1>1, <2>1, Characters DEF RestAt, OpenAt
<1>5. ASSUME NEW m \in b + 1..Len(f), SettingAt(f, b, m) PROVE FALSE
  <2>1. PICK x \in b + 1..m : \E e \in x + 1..m : HeadAt(f, b, x, e)
    BY <1>5, Zenon DEF SettingAt
  <2>2. PICK e \in x + 1..m : HeadAt(f, b, x, e)
    BY <2>1
  <2>3. x \in b + 1..Len(f) /\ e \in x + 1..Len(f)
    OBVIOUS
  <2> QED BY <1>2, <2>2, <2>3
<1>6. ASSUME NEW m \in b + 1..Len(f) PROVE ~CommentAt(f, b, m)
  BY <1>1, Characters DEF CommentAt
<1> QED BY <1>4, <1>5, <1>6 DEF OnlyTo, EndsOnly

\* A comment ends with its line.
LEMMA CommentEnds ==
    ASSUME NEW f, NEW b \in Nat, Len(f) \in Nat, NEW e \in b + 2..Len(f),
           f[b + 1] = "#", \A k \in b + 1..e - 1 : f[k] # Nl, f[e] = Nl
    PROVE  OnlyTo(f, b, e)
<1>1. ~RestAt(f, b)
  BY UnfinishedBegins, Characters DEF RestAt, OpenAt
<1>2. ASSUME NEW m \in b + 1..Len(f) PROVE ~SettingAt(f, b, m)
  BY SettingBegins, Characters
<1>3. ASSUME NEW m \in b + 1..Len(f), CommentAt(f, b, m) PROVE m = e
  <2>1. f[m] = Nl /\ \A k \in b + 1..m - 1 : f[k] # Nl
    BY <1>3 DEF CommentAt
  <2>2. ~(m < e)
    <3>1. m < e => m \in b + 1..e - 1
      OBVIOUS
    <3> QED BY <2>1, <3>1
  <2>3. ~(e < m)
    <3>1. e < m => e \in b + 1..m - 1
      OBVIOUS
    <3> QED BY <2>1, <3>1
  <2> QED BY <2>2, <2>3
<1> QED BY <1>1, <1>2, <1>3 DEF OnlyTo, EndsOnly

\* A name is followed by one '=' only.
LEMMA OneHead ==
    ASSUME NEW f, NEW b \in Nat, Len(f) \in Nat, NEW a \in b + 1..Len(f),
           NEW e \in a + 1..Len(f), HeadAt(f, b, a, e)
    PROVE  /\ ~IsOptionChar(After(f, a))
           /\ \A x \in b + 1..Len(f) : \A y \in x + 1..Len(f) :
                 HeadAt(f, b, x, y) => x = a /\ y = e
           /\ \A x \in b + 1..Len(f) :
                 NameAt(f, b, x) => ~BlankAt(f, x, Len(f))
<1>0. NameAt(f, b, a) /\ BlankAt(f, a, e - 1) /\ f[e] = "="
  BY DEF HeadAt
<1>1. ~IsOptionChar(After(f, a))
  <2>1. a < Len(f)
    OBVIOUS
  <2> QED BY <2>1, HeadIsNamed, Characters DEF Named, After
<1>2. ASSUME NEW x \in b + 1..Len(f), NEW y \in x + 1..Len(f),
             HeadAt(f, b, x, y)
      PROVE  x = a /\ y = e
  <2>1. x = a
    BY <1>0, <1>1, <1>2, HeadIsNamed, OneName
  <2>2. BlankAt(f, a, y - 1) /\ f[y] = "=" /\ y > a
    BY <1>2, <2>1 DEF HeadAt
  <2>3. ~(y < e)
    <3>1. y < e => y \in a + 1..e - 1
      BY <2>2
    <3> QED BY <1>0, <2>2, <3>1, Characters DEF BlankAt
  <2>4. ~(e < y)
    <3>1. e < y => e \in a + 1..y - 1
      OBVIOUS
    <3> QED BY <1>0, <2>2, <3>1, Characters DEF BlankAt
  <2> QED BY <2>1, <2>3, <2>4
<1>3. ASSUME NEW x \in b + 1..Len(f), NameAt(f, b, x), BlankAt(f, x, Len(f))
      PROVE  FALSE
  <2>1. x = a
    BY <1>0, <1>1, <1>3, RestIsNamed, OneName
  <2>2. e \in x + 1..Len(f)
    BY <2>1
  <2> QED BY <1>0, <1>3, <2>2, Characters DEF BlankAt
<1> QED BY <1>1, <1>2, <1>3

\* A setting ends where its value does.
LEMMA OnlyValue ==
    ASSUME NEW f, NEW b \in Nat, Len(f) \in Nat, NEW a \in b + 1..Len(f),
           NEW e \in a + 1..Len(f), NEW v \in e..Len(f) - 1, NEW n,
           HeadAt(f, b, a, e), BlankAt(f, e, v), ~IsSpace(f[v + 1]),
           \A m \in v..Len(f) : ValueAt(f, v, m) => m = n
    PROVE  OnlyTo(f, b, n)
<1>1. IsOptionChar(f[b + 1])
  <2>1. b + 1 \in b + 1..a
    OBVIOUS
  <2> QED BY <2>1 DEF HeadAt, NameAt
<1>2. ~RestAt(f, b)
  <2>1. ~BlankAt(f, e, Len(f))
    <3>1. v + 1 \in e + 1..Len(f)
      OBVIOUS
    <3> QED BY <3>1 DEF BlankAt
  <2>2. ~UnfinishedAt(f, b)
    BY <2>1, OneHead, b # Len(f), Zenon DEF UnfinishedAt
  <2> QED BY <1>1, <2>2, Characters DEF RestAt, OpenAt
<1>3. ASSUME NEW m \in b + 1..Len(f) PROVE ~CommentAt(f, b, m)
  BY <1>1, Characters DEF CommentAt
<1>4. ASSUME NEW m \in b + 1..Len(f), SettingAt(f, b, m) PROVE m = n
  <2>1. PICK x \in b + 1..m : \E y \in x + 1..m : \E w \in y..m :
             HeadAt(f, b, x, y) /\ BeginsAt(f, y, w, m) /\ ValueAt(f, w, m)
    BY <1>4, Zenon DEF SettingAt
  <2>2. PICK y \in x + 1..m : \E w \in y..m :
             HeadAt(f, b, x, y) /\ BeginsAt(f, y, w, m) /\ ValueAt(f, w, m)
    BY <2>1
  <2>3. PICK w \in y..m :
             HeadAt(f, b, x, y) /\ BeginsAt(f, y, w, m) /\ ValueAt(f, w, m)
    BY <2>2
  <2>4. x \in b + 1..Len(f) /\ y \in x + 1..Len(f)
    OBVIOUS
  <2>5. y = e
    BY <2>3, <2>4, OneHead
  <2>6. BlankAt(f, e, w) /\ (w < m => ~IsSpace(f[w + 1]))
    BY <2>3, <2>5 DEF BeginsAt
  <2>7. ~(v < w)
    <3>1. v < w => v + 1 \in e + 1..w
      OBVIOUS
    <3> QED BY <2>6, <3>1 DEF BlankAt
  <2>8. ~(w < v)
    <3> SUFFICES ASSUME w < v PROVE FALSE OBVIOUS
    <3>1. w + 1 \in e + 1..v /\ w < Len(f)
      BY <2>5
    <3>2. IsSpace(f[w + 1]) /\ w = m
      BY <2>6, <3>1 DEF BlankAt
    <3>3. PlainAt(f, w, m)
      BY <2>3, <3>2 DEF ValueAt, QuotedAt, BracesAt, InsideAt
    <3>4. After(f, w) \in {"#", Control}
      BY <3>2, <3>3 DEF PlainAt
    <3> QED BY <3>1, <3>2, <3>4, Characters DEF After
  <2>9. w = v /\ m \in v..Len(f)
    BY <2>5, <2>7, <2>8
  <2> QED BY <2>3, <2>9
<1> QED BY <1>2, <1>3, <1>4 DEF OnlyTo, EndsOnly

\* Where a value between two characters can end.
LEMMA InsideGoesOn ==
    ASSUME NEW f, NEW v \in Nat, NEW p \in Nat, NEW m \in Nat, NEW c, v < p,
           \A k \in v + 2..p : f[k] # c, InsideAt(f, v, m, c)
    PROVE  /\ m > p /\ p - v - 1 < MAX_PARAM_LEN
           /\ f[p + 1] = c => m = p + 1
<1>1. v + 2 <= m /\ f[m] = c /\ m - v - 2 < MAX_PARAM_LEN
      /\ \A k \in v + 2..m - 1 : f[k] # c
  BY DEF InsideAt
<1>2. m > p
  <2>1. m <= p => m \in v + 2..p
    BY <1>1
  <2> QED BY <1>1, <2>1
<1>3. p - v - 1 < MAX_PARAM_LEN
  BY <1>1, <1>2, ParserAssumption
<1>4. m # p + 1 => p + 1 \in v + 2..m - 1
  BY <1>2
<1> QED BY <1>1, <1>2, <1>3, <1>4

\* Where a value in quotes can end.
LEMMA QuotedEnds ==
    ASSUME NEW f, NEW v \in Nat, NEW p \in Nat, NEW m \in Nat, v < p, m >= v,
           IsQuote(f[v + 1]), \A k \in v + 2..p : f[k] # f[v + 1],
           ValueAt(f, v, m), Len(f) \in Nat, v < Len(f)
    PROVE  /\ m > p /\ p - v - 1 < MAX_PARAM_LEN
           /\ f[p + 1] = f[v + 1] => m = p + 1
           /\ f[p + 1] # Nl
<1>1. ~BracesAt(f, v, m)
  BY Zenon DEF BracesAt, IsQuote, LeftBrace, Quote
<1>2. ~PlainAt(f, v, m)
  <2>1. v = m => After(f, m) = f[v + 1]
    BY DEF After
  <2>2. f[v + 1] \notin {"#", Control}
    BY DEF IsQuote, Quote, Control
  <2>3. v < m \/ v = m
    OBVIOUS
  <2> QED BY <2>1, <2>2, <2>3, Zenon DEF PlainAt
<1>3. QuotedAt(f, v, m)
  BY <1>1, <1>2 DEF ValueAt
<1>4. /\ m > p /\ p - v - 1 < MAX_PARAM_LEN
      /\ f[p + 1] = f[v + 1] => m = p + 1
  BY <1>3, InsideGoesOn DEF QuotedAt
<1>5. f[p + 1] # Nl
  <2>1. f[m] # Nl
    BY <1>3 DEF QuotedAt, InsideAt, IsQuote, Quote, Nl
  <2>2. m # p + 1 => p + 1 \in v + 2..m - 1
    BY <1>4
  <2> QED BY <1>3, <2>1, <2>2 DEF QuotedAt
<1> QED BY <1>4, <1>5

\* Where a value in braces can end.
LEMMA BracesEnd ==
    ASSUME NEW f, NEW v \in Nat, NEW p \in Nat, NEW m \in Nat, v < p, m >= v,
           f[v + 1] = LeftBrace, \A k \in v + 2..p : f[k] # RightBrace,
           ValueAt(f, v, m), Len(f) \in Nat, v < Len(f)
    PROVE  /\ m > p /\ p - v - 1 < MAX_PARAM_LEN
           /\ f[p + 1] = RightBrace => m = p + 1
<1>1. ~QuotedAt(f, v, m)
  BY Zenon DEF QuotedAt, IsQuote, LeftBrace, Quote
<1>2. ~PlainAt(f, v, m)
  <2>1. v = m => After(f, m) = f[v + 1]
    BY DEF After
  <2>2. f[v + 1] \notin {"#", Control}
    BY Zenon DEF LeftBrace, Control
  <2>3. v < m \/ v = m
    OBVIOUS
  <2> QED BY <2>1, <2>2, <2>3, Zenon DEF PlainAt
<1>3. BracesAt(f, v, m)
  BY <1>1, <1>2 DEF ValueAt
<1> QED BY <1>3, InsideGoesOn DEF BracesAt

\* Where a value without either can end.
LEMMA PlainEnds ==
    ASSUME NEW f, NEW v \in Nat, NEW p \in Nat, NEW m \in Nat, v <= p, m >= v,
           ~IsQuote(f[v + 1]), f[v + 1] # LeftBrace,
           \A k \in v + 1..p : IsPlainChar(f[k]),
           ValueAt(f, v, m), Len(f) \in Nat, p <= Len(f), m <= Len(f)
    PROVE  /\ m >= p /\ p - v < MAX_PARAM_LEN
           /\ ~IsPlainChar(After(f, p)) => m = p
<1>1. PlainAt(f, v, m)
  BY Zenon DEF ValueAt, QuotedAt, BracesAt
<1>2. ~IsPlainChar(After(f, m)) /\ m - v < MAX_PARAM_LEN
      /\ \A k \in v + 1..m : IsPlainChar(f[k])
  BY <1>1 DEF PlainAt
<1>3. m >= p
  <2>1. m < p => m + 1 \in v + 1..p /\ After(f, m) = f[m + 1]
    BY DEF After
  <2> QED BY <1>2, <2>1
<1>4. m # p => p + 1 \in v + 1..m /\ After(f, p) = f[p + 1]
  BY <1>3 DEF After
<1> QED BY <1>2, <1>3, <1>4, ParserAssumption

\* A setting has one name and one value.
LEMMA OneGiven ==
    ASSUME NEW f, NEW v \in Nat, NEW n \in Nat, NEW x, NEW y,
           GivenAt(f, v, n, x), GivenAt(f, v, n, y)
    PROVE  x = y
<1>1. InsideAt(f, v, n, f[v + 1]) \/ InsideAt(f, v, n, RightBrace) => v < n
  <2>1. InsideAt(f, v, n, f[v + 1]) \/ InsideAt(f, v, n, RightBrace)
          => v + 2 <= n
    BY Zenon DEF InsideAt
  <2> QED BY <2>1
<1>2. QuotedAt(f, v, n) \/ BracesAt(f, v, n) => ~PlainAt(f, v, n)
  BY <1>1, Zenon DEF PlainAt, QuotedAt, BracesAt
<1> QED BY <1>2 DEF GivenAt

\* There is one place where the value begins.
LEMMA OneBeginning ==
    ASSUME NEW f, Len(f) \in Nat, NEW e \in Nat, NEW n \in e..Len(f),
           NEW v \in e..n, NEW w \in e..n, NEW x, NEW y,
           BeginsAt(f, e, v, n), BeginsAt(f, e, w, n)
    PROVE  v = w
<1>1. BlankAt(f, e, v) /\ (v < n => ~IsSpace(f[v + 1]))
      /\ BlankAt(f, e, w) /\ (w < n => ~IsSpace(f[w + 1]))
  BY DEF BeginsAt
<1>2. v < w => v + 1 \in e + 1..w /\ v < n
  OBVIOUS
<1>3. w < v => w + 1 \in e + 1..v /\ w < n
  OBVIOUS
<1> QED BY <1>1, <1>2, <1>3 DEF BlankAt

\* All in all a piece sets one option to one value.
LEMMA OneSetting ==
    ASSUME NEW f, Len(f) \in Nat, NEW b \in Nat, NEW n \in b + 1..Len(f),
           NEW x, NEW y, SetsAt(f, b, n, x), SetsAt(f, b, n, y)
    PROVE  x = y
<1> DEFINE By(a, e, v, z) ==
             /\ HeadAt(f, b, a, e) /\ BeginsAt(f, e, v, n)
             /\ \E q : GivenAt(f, v, n, q)
                       /\ z = [opt |-> Cut(f, b, a), param |-> q]
<1>1. PICK a \in b + 1..n : \E e \in a + 1..n : \E v \in e..n : By(a, e, v, x)
  BY Zenon DEF SetsAt
<1>2. PICK e \in a + 1..n : \E v \in e..n : By(a, e, v, x)
  BY <1>1, Zenon
<1>3. PICK v \in e..n : By(a, e, v, x)
  BY <1>2, Zenon
<1>4. PICK c \in b + 1..n : \E d \in c + 1..n : \E w \in d..n : By(c, d, w, y)
  BY Zenon DEF SetsAt
<1>5. PICK d \in c + 1..n : \E w \in d..n : By(c, d, w, y)
  BY <1>4, Zenon
<1>6. PICK w \in d..n : By(c, d, w, y)
  BY <1>5, Zenon
<1>7. /\ a \in b + 1..Len(f) /\ e \in a + 1..Len(f)
      /\ c \in b + 1..Len(f) /\ d \in c + 1..Len(f)
  OBVIOUS
<1>8. HeadAt(f, b, a, e) /\ HeadAt(f, b, c, d)
  BY <1>3, <1>6, Zenon
<1>9. c = a /\ d = e
  BY <1>7, <1>8, OneHead
<1>10. BeginsAt(f, e, v, n) /\ BeginsAt(f, e, w, n)
  BY <1>3, <1>6, <1>9, Zenon
<1>11. v = w
  <2>1. e \in Nat /\ n \in e..Len(f) /\ v \in e..n /\ w \in e..n
    BY <1>9
  <2> QED BY <1>10, <2>1, OneBeginning, Zenon
<1>12. PICK q : GivenAt(f, v, n, q) /\ x = [opt |-> Cut(f, b, a), param |-> q]
  BY <1>3, Zenon
<1>13. PICK r : GivenAt(f, v, n, r) /\ y = [opt |-> Cut(f, b, a), param |-> r]
  BY <1>6, <1>9, <1>11, Zenon
<1>14. q = r
  <2>1. v \in Nat /\ n \in Nat
    OBVIOUS
  <2> QED BY <1>12, <1>13, <2>1, OneGiven, Zenon
<1> QED BY <1>12, <1>13, <1>14, Zenon

-----------------------------------------------------------------------------
(***************************************************************************)
(* The places of the scanner.  At p it has read the text up to b, which    *)
(* means a and nothing else, and a part of the piece that begins there: o is*)
(* the name, q the value, c the character that closes it.                  *)
(***************************************************************************)
\* b ends what was read, and that means a and nothing else.
Begun(f, R, b, a) == b \in 0..Len(f) /\ R[b] = {a} /\ Solid(f, R, b)

\* A comment that goes on.
AtComment(f, R, p, a) ==
    \E b \in 0..p :
       /\ Begun(f, R, b, a) /\ b < Len(f)
       /\ f[b + 1] = "#" /\ \A k \in b + 1..p : f[k] # Nl

\* A name that goes on.
AtOption(f, R, p, o, a) ==
    \E b \in 0..p :
       /\ Begun(f, R, b, a) /\ b < Len(f)
       /\ ~IsSpace(f[b + 1]) /\ f[b + 1] # "#"
       /\ \A k \in b + 1..p : IsOptionChar(f[k])
       /\ o = Cut(f, b, p)

\* A name, its end, and blanks.
AtEquals(f, R, p, o, a) ==
    \E b \in 0..p : \E x \in b + 1..p :
       /\ Begun(f, R, b, a)
       /\ NameAt(f, b, x) /\ ~IsOptionChar(After(f, x)) /\ o = Cut(f, b, x)
       /\ BlankAt(f, x, p)

\* A head, and blanks behind it.
Headed(f, R, b, e, o, a) ==
    /\ Begun(f, R, b, a)
    /\ \E x \in b + 1..e - 1 : HeadAt(f, b, x, e) /\ o = Cut(f, b, x)

AtValue(f, R, p, o, a) ==
    \E b \in 0..p : \E e \in b + 1..p :
       Headed(f, R, b, e, o, a) /\ BlankAt(f, e, p)

\* What comes before a value that begins behind v.
Valued(f, R, b, v, o, a) ==
    /\ \E e \in b + 1..v : Headed(f, R, b, e, o, a) /\ BlankAt(f, e, v)
    /\ v < Len(f) /\ ~IsSpace(f[v + 1])

\* A value that goes on, in quotes, in braces, in neither.
AtQuoted(f, R, p, o, q, c, a) ==
    \E b \in 0..p : \E v \in b + 1..p - 1 :
       /\ Valued(f, R, b, v, o, a)
       /\ IsQuote(f[v + 1]) /\ c = f[v + 1] /\ q = Cut(f, v + 1, p)
       /\ \A k \in v + 2..p : f[k] # c /\ f[k] # Nl

AtBraces(f, R, p, o, q, c, a) ==
    \E b \in 0..p : \E v \in b + 1..p - 1 :
       /\ Valued(f, R, b, v, o, a)
       /\ f[v + 1] = LeftBrace /\ c = RightBrace /\ q = Cut(f, v + 1, p)
       /\ \A k \in v + 2..p : f[k] # c

AtPlain(f, R, p, o, q, a) ==
    \E b \in 0..p : \E v \in b + 1..p :
       /\ Valued(f, R, b, v, o, a)
       /\ ~IsQuote(f[v + 1]) /\ f[v + 1] # LeftBrace /\ q = Cut(f, v, p)
       /\ \A k \in v + 1..p : IsPlainChar(f[k])
       /\ p - v < MAX_PARAM_LEN

\* A setting, and its only end.
AtSet(f, R, p, o, q, a) ==
    \E b \in 0..p - 1 :
       /\ Begun(f, R, b, a) /\ ~IsSpace(f[b + 1]) /\ OnlyTo(f, b, p)
       /\ SetsAt(f, b, p, [opt |-> o, param |-> q])

\* Whatever the whole text means, it is a.
JustMeans(f, R, a) ==
    \A n \in 0..Len(f) : \A t \in R[n] : RestAt(f, n) => t = a

\* The text means a, and nothing else.
Means(f, R, a) ==
    /\ \E n \in 0..Len(f) : a \in R[n] /\ UnfinishedAt(f, n)
    /\ JustMeans(f, R, a)

\* It does, and then a comment does not end.
MeansOpen(f, R, a) ==
    /\ \E n \in 0..Len(f) : a \in R[n] /\ OpenAt(f, n)
    /\ JustMeans(f, R, a)

\* The text means nothing, nor does what precedes such a comment.
Hopeless(f, R) == \A n \in 0..Len(f) : R[n] # {} => ~RestAt(f, n)

\* Nothing was read yet.
LEMMA BeginsAtFirst ==
    ASSUME NEW f, NEW R, IsRead(f, R)
    PROVE  Begun(f, R, 0, <<>>)
<1>1. Len(f) \in Nat
  BY LenProperties DEF IsRead
<1>2. R[0] = {<<>>}
  BY <1>1, NothingIsRead DEF IsRead
<1>3. Solid(f, R, 0)
  BY DEF Solid
<1> QED BY <1>1, <1>2, <1>3 DEF Begun

\* A blank changes nothing of what was read.
LEMMA BlankIsPassed ==
    ASSUME NEW f, NEW R, IsRead(f, R), NEW b \in 0..Len(f) - 1, NEW a,
           Begun(f, R, b, a), IsSpace(f[b + 1])
    PROVE  Begun(f, R, b + 1, a)
<1>1. Len(f) \in Nat
  BY LenProperties DEF IsRead
<1> PICK c \in 0..Len(f) : c = b + 1
  BY <1>1
<1>2. BlankAt(f, b, c)
  <2>1. \A k \in b + 1..c : k = b + 1
    BY <1>1
  <2> QED BY <2>1 DEF BlankAt
<1>3. b \in 0..Len(f) /\ b \in 0..c /\ b < c
  BY <1>1
<1>4. a \in R[c]
  BY <1>2, <1>3, ReadsBlank DEF Begun
<1>5. Solid(f, R, c)
  BY <1>3, SolidBlank DEF Begun
<1>6. ASSUME NEW t \in R[c] PROVE t = a
  <2>1. c \in 1..Len(f)
    BY <1>1
  <2>2. PICK m \in 0..c - 1 : CameFrom(f, R, m, c, t)
    BY <2>1, ReadingBefore
  <2>3. \/ t \in R[m] /\ BlankAt(f, m, c)
        \/ R[m] # {} /\ (SettingAt(f, m, c) \/ CommentAt(f, m, c))
    BY <2>2, SettingIsSome, Zenon DEF CameFrom
  <2>4. CASE m = b
    <3>1. ~SettingAt(f, b, c)
      BY SettingBegins, Characters
    <3>2. ~CommentAt(f, b, c)
      BY Characters DEF CommentAt
    <3> QED BY <2>3, <2>4, <3>1, <3>2 DEF Begun
  <2>5. CASE m # b
    <3>1. m \in 0..b - 1 /\ c \in m + 1..Len(f) /\ ~(c <= b) /\ m < b
          /\ m \in 0..b
      BY <1>1, <2>5
    <3>2. t \in R[m] /\ BlankAt(f, m, c)
      BY <2>3, <3>1 DEF Begun, Solid
    <3>3. BlankAt(f, m, b)
      <4>1. \A k \in m + 1..b : k \in m + 1..c
        BY <1>1
      <4> QED BY <3>2, <4>1 DEF BlankAt
    <3>4. t \in R[b]
      BY <1>3, <3>1, <3>2, <3>3, ReadsBlank
    <3> QED BY <3>4 DEF Begun
  <2> QED BY <2>4, <2>5
<1>7. R[c] = {a}
  BY <1>4, <1>6
<1> QED BY <1>5, <1>7 DEF Begun

\* Nor does a comment, when its line ends.
LEMMA CommentIsPassed ==
    ASSUME NEW f, NEW R, IsRead(f, R), NEW p \in 0..Len(f) - 1, NEW a,
           AtComment(f, R, p, a), f[p + 1] = Nl
    PROVE  Begun(f, R, p + 1, a)
<1>1. Len(f) \in Nat
  BY LenProperties DEF IsRead
<1> PICK e \in 1..Len(f) : e = p + 1
  BY <1>1
<1>2. PICK b \in 0..p : /\ Begun(f, R, b, a) /\ b < Len(f)
                        /\ f[b + 1] = "#" /\ \A k \in b + 1..p : f[k] # Nl
  BY DEF AtComment
<1>3. b # p
  BY <1>2, Characters
<1>4. b \in 0..Len(f) /\ e \in b + 2..Len(f) /\ e \in 0..Len(f) /\ b \in 0..e
      /\ b < e /\ e - 1 = p /\ e \in b + 1..Len(f) + 1 /\ b \in Nat
  BY <1>1, <1>3
<1>5. OnlyTo(f, b, e)
  BY <1>1, <1>2, <1>4, CommentEnds
<1>6. CommentAt(f, b, e)
  BY <1>2, <1>4 DEF CommentAt
<1>7. ~IsSpace(f[b + 1])
  BY <1>2, Characters
<1>8. Solid(f, R, e)
  BY <1>2, <1>4, <1>5, <1>7, SolidBehind DEF Begun
<1>9. a \in R[e]
  BY <1>2, <1>4, <1>6, ReadsBlank DEF Begun
<1>10. ASSUME NEW t \in R[e] PROVE t = a
  <2>1. CameFrom(f, R, b, e, t)
    <3>1. e \in b + 1..Len(f) /\ EndsOnly(f, b, e)
      BY <1>1, <1>4, <1>5 DEF OnlyTo
    <3> QED BY <1>2, <1>4, <1>7, <3>1, CameFromHere DEF Begun
  <2>2. ~SettingAt(f, b, e)
    BY <1>2, <1>4, SettingBegins, Characters
  <2>3. t \in R[b]
    BY <2>1, <2>2, SettingIsSome, Zenon DEF CameFrom
  <2> QED BY <1>2, <2>3 DEF Begun
<1>11. R[e] = {a}
  BY <1>9, <1>10
<1> QED BY <1>4, <1>8, <1>11 DEF Begun

\* A setting that ends at p is read, and nothing else is read up to p.
LEMMA SettingIsPassed ==
    ASSUME NEW f, NEW R, IsRead(f, R), NEW p \in 0..Len(f), NEW a, NEW o,
           NEW q, AtSet(f, R, p, o, q, a)
    PROVE  Begun(f, R, p, Append(a, [opt |-> o, param |-> q]))
<1>1. Len(f) \in Nat
  BY LenProperties DEF IsRead
<1> PICK x : x = [opt |-> o, param |-> q]
  OBVIOUS
<1>2. PICK b \in 0..p - 1 :
         /\ Begun(f, R, b, a) /\ ~IsSpace(f[b + 1]) /\ OnlyTo(f, b, p)
         /\ SetsAt(f, b, p, x)
  BY Zenon DEF AtSet
<1>3. b \in 0..Len(f) /\ b \in 0..p /\ b < p /\ p \in b + 1..Len(f) + 1
  BY <1>1
<1>4. Solid(f, R, p)
  BY <1>2, <1>3, SolidBehind DEF Begun
<1>5. Append(a, x) \in R[p]
  BY <1>2, <1>3, ReadsSetting DEF Begun
<1>6. ASSUME NEW t \in R[p] PROVE t = Append(a, x)
  <2>1. p \in b + 1..Len(f) /\ EndsOnly(f, b, p) /\ Solid(f, R, b)
        /\ b \in Nat /\ p \in Nat
    BY <1>1, <1>2 DEF OnlyTo, Begun
  <2>2. CameFrom(f, R, b, p, t) /\ ~BlankAt(f, b, p)
    BY <1>2, <1>3, <2>1, CameFromHere
  <2>3. SettingAt(f, b, p)
    BY <1>2, SettingIsSome, Zenon
  <2>4. ~CommentAt(f, b, p)
    BY <2>1, <2>3, SettingBegins, Characters DEF CommentAt
  <2>5. PICK s \in R[b] : \E y : SetsAt(f, b, p, y) /\ t = Append(s, y)
    BY <2>2, <2>4, Zenon DEF CameFrom
  <2>6. PICK y : SetsAt(f, b, p, y) /\ t = Append(s, y)
    BY <2>5
  <2>7. s = a
    BY <1>2 DEF Begun
  <2>8. y = x
    BY <1>1, <1>2, <2>1, <2>6, OneSetting
  <2> QED BY <2>6, <2>7, <2>8
<1>7. R[p] = {Append(a, x)}
  BY <1>5, <1>6
<1> QED BY <1>4, <1>7 DEF Begun

\* Where nothing can begin there is nothing to be read.
LEMMA NoHope ==
    ASSUME NEW f, NEW R, IsRead(f, R), NEW b \in 0..Len(f), NEW a,
           Begun(f, R, b, a), ~IsSpace(f[b + 1]), OnlyTo(f, b, Len(f) + 1)
    PROVE  Hopeless(f, R)
<1>1. Len(f) \in Nat
  BY LenProperties DEF IsRead
<1> PICK e \in b + 1..Len(f) + 1 : e = Len(f) + 1 /\ e - 1 = Len(f)
  BY <1>1
<1>2. Solid(f, R, e)
  BY SolidBehind DEF Begun
<1> SUFFICES ASSUME NEW n \in 0..Len(f), R[n] # {}
             PROVE  ~RestAt(f, n)
  BY DEF Hopeless
<1>3. n \in 0..e - 1
  OBVIOUS
<1> QED BY <1>2, <1>3, Zenon DEF Solid

\* A piece that is one character longer.
LEMMA CutGrows ==
    ASSUME NEW f \in Seq(Char), NEW p \in 0..Len(f) - 1, NEW b \in 0..p
    PROVE  Cut(f, b, p + 1) = Append(Cut(f, b, p), f[p + 1])
<1> PICK e \in 0..Len(f) : e = p + 1
  OBVIOUS
<1>0. p \in 0..Len(f) /\ b \in 0..e /\ f[e] \in Char /\ e \in 1..Len(f)
  OBVIOUS
<1> PICK q \in Seq(Char) : q = Cut(f, b, p)
  BY <1>0, CutIs
<1> PICK r \in Seq(Char) : r = Cut(f, b, e)
  BY <1>0, CutIs
<1>1. Len(q) = p - b /\ \A k \in 1..p - b : q[k] = f[b + k]
  BY <1>0, CutIs, Zenon
<1>2. Len(r) = e - b /\ \A k \in 1..e - b : r[k] = f[b + k]
  BY <1>0, CutIs, Zenon
<1> PICK s \in Seq(Char) : s = Append(q, f[e])
  BY <1>0, AppendProperties
<1>3. Len(s) = Len(q) + 1 /\ s[Len(q) + 1] = f[e]
      /\ \A k \in 1..Len(q) : s[k] = q[k]
  BY <1>0, AppendProperties
<1>4. ASSUME NEW k \in 1..e - b PROVE r[k] = s[k]
  <2>1. CASE k = Len(q) + 1
    <3>1. b + k = e
      BY <1>1, <2>1
    <3> QED BY <1>2, <1>3, <2>1, <3>1
  <2>2. CASE k # Len(q) + 1
    <3>1. k \in 1..p - b /\ k \in 1..Len(q)
      BY <1>1, <2>2
    <3> QED BY <1>1, <1>2, <1>3, <3>1
  <2> QED BY <2>1, <2>2
<1>5. Len(r) = Len(s) /\ Len(r) = e - b
  BY <1>1, <1>2, <1>3
<1>6. r = s
  BY <1>4, <1>5, SeqEqual
<1> QED BY <1>6

\* And an empty one.
LEMMA CutNothing ==
    ASSUME NEW f \in Seq(Char), NEW p \in 0..Len(f)
    PROVE  Cut(f, p, p) = <<>>
BY CutIs, EmptySeq

\* A name begins.
LEMMA OptionBegins ==
    ASSUME NEW f, NEW R, IsRead(f, R), NEW p \in 0..Len(f) - 1, NEW a,
           Begun(f, R, p, a), ~IsSpace(f[p + 1]), f[p + 1] # "#"
    PROVE  AtOption(f, R, p, <<>>, a)
<1>1. Len(f) \in Nat /\ f \in Seq(Char)
  BY LenProperties DEF IsRead
<1>2. <<>> = Cut(f, p, p)
  BY <1>1, CutNothing
<1>3. \A k \in p + 1..p : IsOptionChar(f[k])
  <2>1. \A k \in p + 1..p : FALSE
    BY <1>1
  <2> QED BY <2>1
<1>4. p \in 0..p /\ p < Len(f)
  BY <1>1
<1> QED BY <1>2, <1>3, <1>4, Zenon DEF AtOption

\* A character more of the name.
LEMMA OptionGoesOn ==
    ASSUME NEW f, NEW R, IsRead(f, R), NEW p \in 0..Len(f) - 1, NEW a, NEW o,
           AtOption(f, R, p, o, a), IsOptionChar(f[p + 1])
    PROVE  AtOption(f, R, p + 1, Append(o, f[p + 1]), a)
<1>1. Len(f) \in Nat /\ f \in Seq(Char)
  BY LenProperties DEF IsRead
<1>2. PICK b \in 0..p :
         /\ Begun(f, R, b, a) /\ b < Len(f)
         /\ ~IsSpace(f[b + 1]) /\ f[b + 1] # "#"
         /\ \A k \in b + 1..p : IsOptionChar(f[k])
         /\ o = Cut(f, b, p)
  BY Zenon DEF AtOption
<1>3. Append(o, f[p + 1]) = Cut(f, b, p + 1)
  BY <1>1, <1>2, CutGrows
<1>4. ASSUME NEW k \in b + 1..p + 1 PROVE IsOptionChar(f[k])
  <2>1. k \in b + 1..p \/ k = p + 1
    BY <1>1
  <2> QED BY <1>2, <2>1
<1>5. b \in 0..p + 1
  BY <1>1
<1> QED BY <1>2, <1>3, <1>4, <1>5, Zenon DEF AtOption

\* The end of the name: of none, of one that is too long, or of one.
LEMMA OptionEnds ==
    ASSUME NEW f, NEW R, IsRead(f, R), NEW p \in 0..Len(f), NEW a, NEW o,
           AtOption(f, R, p, o, a), ~IsOptionChar(After(f, p))
    PROVE  IF o = <<>> \/ Len(o) >= MAX_OPT_LEN
           THEN Hopeless(f, R) ELSE AtEquals(f, R, p, o, a)
<1>1. Len(f) \in Nat /\ f \in Seq(Char)
  BY LenProperties DEF IsRead
<1>2. PICK b \in 0..p :
         /\ Begun(f, R, b, a) /\ b < Len(f)
         /\ ~IsSpace(f[b + 1]) /\ f[b + 1] # "#"
         /\ \A k \in b + 1..p : IsOptionChar(f[k])
         /\ o = Cut(f, b, p)
  BY Zenon DEF AtOption
<1>3. o \in Seq(Char) /\ Len(o) = p - b
  BY <1>1, <1>2, CutIs
<1>4. b \in 0..Len(f) /\ b \in Nat /\ p \in b..Len(f)
  BY <1>1
<1>5. CASE o = <<>>
  <2>1. b = p
    BY <1>1, <1>3, <1>5, EmptySeq
  <2>2. ~IsOptionChar(f[b + 1])
    BY <1>2, <2>1 DEF After
  <2>3. OnlyTo(f, b, Len(f) + 1)
    BY <1>1, <1>2, <1>4, <2>2, EmptyName
  <2> QED BY <1>2, <1>4, <1>5, <2>3, NoHope
<1>6. CASE Len(o) >= MAX_OPT_LEN
  <2>1. OnlyTo(f, b, Len(f) + 1)
    BY <1>1, <1>2, <1>3, <1>4, <1>6, LongName
  <2> QED BY <1>2, <1>4, <1>6, <2>1, NoHope
<1>7. CASE ~(o = <<>> \/ Len(o) >= MAX_OPT_LEN)
  <2>1. b < p /\ p - b < MAX_OPT_LEN
    <3>1. Len(o) # 0
      BY <1>3, <1>7, EmptySeq
    <3> QED BY <1>1, <1>3, <1>7, <3>1, ParserAssumption
  <2>2. NameAt(f, b, p)
    BY <1>2, <2>1 DEF NameAt
  <2>3. p \in b + 1..p
    BY <1>1, <2>1
  <2>4. BlankAt(f, p, p)
    <3>1. \A k \in p + 1..p : FALSE
      BY <1>1
    <3> QED BY <3>1 DEF BlankAt
  <2>5. AtEquals(f, R, p, o, a)
    BY <1>2, <2>2, <2>3, <2>4, Zenon DEF AtEquals
  <2> QED BY <1>7, <2>5
<1> QED BY <1>5, <1>6, <1>7

\* A blank more.
LEMMA BlankGrows ==
    ASSUME NEW f, NEW x \in Nat, NEW p \in Nat, BlankAt(f, x, p),
           IsSpace(f[p + 1])
    PROVE  BlankAt(f, x, p + 1)
<1>1. ASSUME NEW k \in x + 1..p + 1 PROVE IsSpace(f[k])
  <2>1. k \in x + 1..p \/ k = p + 1
    OBVIOUS
  <2> QED BY <2>1 DEF BlankAt
<1> QED BY <1>1 DEF BlankAt

\* Behind the name: a blank, the '=', or no setting at all.
LEMMA EqualsGoOn ==
    ASSUME NEW f, NEW R, IsRead(f, R), NEW p \in 0..Len(f) - 1, NEW a, NEW o,
           AtEquals(f, R, p, o, a)
    PROVE  /\ IsSpace(f[p + 1]) => AtEquals(f, R, p + 1, o, a)
           /\ f[p + 1] = "=" => AtValue(f, R, p + 1, o, a)
           /\ ~IsSpace(f[p + 1]) /\ f[p + 1] # "=" => Hopeless(f, R)
<1>1. Len(f) \in Nat /\ f \in Seq(Char)
  BY LenProperties DEF IsRead
<1>2. PICK b \in 0..p : \E x \in b + 1..p :
         /\ Begun(f, R, b, a)
         /\ NameAt(f, b, x) /\ ~IsOptionChar(After(f, x)) /\ o = Cut(f, b, x)
         /\ BlankAt(f, x, p)
  BY Zenon DEF AtEquals
<1>3. PICK x \in b + 1..p :
         /\ Begun(f, R, b, a)
         /\ NameAt(f, b, x) /\ ~IsOptionChar(After(f, x)) /\ o = Cut(f, b, x)
         /\ BlankAt(f, x, p)
  BY <1>2
<1> PICK e \in 1..Len(f) : e = p + 1 /\ e - 1 = p
  BY <1>1
<1>4. b \in 0..e /\ x \in b + 1..e /\ e \in b + 1..e /\ x < e
      /\ b \in 0..Len(f) /\ x \in b + 1..e - 1 /\ b \in Nat
      /\ x \in b + 1..Len(f)
      /\ p \in x..Len(f) - 1
  BY <1>1
<1>5. ASSUME IsSpace(f[e]) PROVE AtEquals(f, R, e, o, a)
  <2>1. BlankAt(f, x, e)
    BY <1>1, <1>3, <1>5, BlankGrows
  <2> QED BY <1>3, <1>4, <2>1, Zenon DEF AtEquals
<1>6. ASSUME f[e] = "=" PROVE AtValue(f, R, e, o, a)
  <2>1. HeadAt(f, b, x, e)
    BY <1>3, <1>4, <1>6 DEF HeadAt
  <2>2. Headed(f, R, b, e, o, a)
    BY <1>3, <1>4, <2>1, Zenon DEF Headed
  <2>3. BlankAt(f, e, e)
    <3>1. \A k \in e + 1..e : FALSE
      OBVIOUS
    <3> QED BY <3>1 DEF BlankAt
  <2> QED BY <1>4, <2>2, <2>3, Zenon DEF AtValue
<1>7. ASSUME ~IsSpace(f[e]), f[e] # "=" PROVE Hopeless(f, R)
  <2>1. OnlyTo(f, b, Len(f) + 1)
    BY <1>1, <1>3, <1>4, <1>7, NoEquals
  <2>2. ~IsSpace(f[b + 1])
    <3>1. b + 1 \in b + 1..x
      BY <1>4
    <3> QED BY <1>3, <3>1, Characters DEF NameAt
  <2> QED BY <1>3, <1>4, <2>1, <2>2, NoHope
<1> QED BY <1>5, <1>6, <1>7

\* Behind the '=': a blank, or the beginning of the value.
LEMMA ValueGoesOn ==
    ASSUME NEW f, NEW R, IsRead(f, R), NEW p \in 0..Len(f) - 1, NEW a, NEW o,
           AtValue(f, R, p, o, a)
    PROVE  /\ IsSpace(f[p + 1]) => AtValue(f, R, p + 1, o, a)
           /\ ~IsSpace(f[p + 1]) =>
                \E b \in 0..p : p \in b + 1..p /\ Valued(f, R, b, p, o, a)
<1>1. Len(f) \in Nat /\ f \in Seq(Char)
  BY LenProperties DEF IsRead
<1>2. PICK b \in 0..p : \E e \in b + 1..p :
         Headed(f, R, b, e, o, a) /\ BlankAt(f, e, p)
  BY Zenon DEF AtValue
<1>3. PICK e \in b + 1..p : Headed(f, R, b, e, o, a) /\ BlankAt(f, e, p)
  BY <1>2
<1>4. ASSUME IsSpace(f[p + 1]) PROVE AtValue(f, R, p + 1, o, a)
  <2>1. BlankAt(f, e, p + 1)
    BY <1>1, <1>3, <1>4, BlankGrows
  <2>2. b \in 0..p + 1 /\ e \in b + 1..p + 1
    BY <1>1
  <2> QED BY <1>3, <2>1, <2>2, Zenon DEF AtValue
<1>5. ASSUME ~IsSpace(f[p + 1])
      PROVE  p \in b + 1..p /\ Valued(f, R, b, p, o, a)
  <2>1. p \in b + 1..p /\ p < Len(f)
    BY <1>1
  <2> QED BY <1>3, <1>5, <2>1, Zenon DEF Valued
<1> QED BY <1>4, <1>5

\* Nothing else is the end of the file.
LEMMA LastPiece ==
    ASSUME NEW f, NEW R, IsRead(f, R), NEW b \in 0..Len(f), NEW a,
           Begun(f, R, b, a),
           b < Len(f) => ~IsSpace(f[b + 1]) /\ EndsOnly(f, b, Len(f) + 1)
    PROVE  JustMeans(f, R, a)
<1>0. Len(f) \in Nat
  BY LenProperties DEF IsRead
<1> SUFFICES ASSUME NEW n \in 0..Len(f), NEW t \in R[n], RestAt(f, n)
             PROVE  t = a
  BY DEF JustMeans
<1>1. ~(n < b)
  <2>1. n < b => n \in 0..b - 1
    BY <1>0
  <2> QED BY <2>1 DEF Begun, Solid
<1>2. CASE n = b
  BY <1>2 DEF Begun
<1>3. CASE n > b
  <2> PICK e \in b + 1..Len(f) + 1 : e = Len(f) + 1 /\ n \in b + 1..e - 1
    BY <1>0, <1>3
  <2>1. ~IsSpace(f[b + 1]) /\ EndsOnly(f, b, e) /\ Solid(f, R, b)
    BY <1>0, <1>3 DEF Begun
  <2> QED BY <2>1, NothingInside
<1> QED BY <1>0, <1>1, <1>2, <1>3

\* A comment without its line break ends nowhere.
LEMMA OpenEndsNowhere ==
    ASSUME NEW f, NEW b \in Nat, Len(f) \in Nat, OpenAt(f, b)
    PROVE  EndsOnly(f, b, Len(f) + 1) /\ ~IsSpace(f[b + 1])
<1>1. ~IsSpace(f[b + 1]) /\ ~IsOptionChar(f[b + 1])
  BY Characters DEF OpenAt
<1>2. ASSUME NEW m \in b + 1..Len(f) PROVE ~SettingAt(f, b, m)
  BY <1>1, SettingBegins
<1>3. ASSUME NEW m \in b + 1..Len(f) PROVE ~CommentAt(f, b, m)
  <2>1. f[m] # Nl
    BY DEF OpenAt
  <2> QED BY <2>1 DEF CommentAt
<1> QED BY <1>1, <1>2, <1>3 DEF EndsOnly

\* Nor does a name without its '='.
LEMMA NameEndsNowhere ==
    ASSUME NEW f, NEW b \in Nat, Len(f) \in Nat, NEW a \in b + 1..Len(f),
           NameAt(f, b, a), ~IsOptionChar(After(f, a)),
           BlankAt(f, a, Len(f))
    PROVE  EndsOnly(f, b, Len(f) + 1) /\ ~IsSpace(f[b + 1])
<1>1. IsOptionChar(f[b + 1])
  <2>1. b + 1 \in b + 1..a
    OBVIOUS
  <2> QED BY <2>1 DEF NameAt
<1>2. ASSUME NEW m \in b + 1..Len(f), SettingAt(f, b, m) PROVE FALSE
  <2>1. PICK x \in b + 1..m : \E e \in x + 1..m : HeadAt(f, b, x, e)
    BY <1>2, Zenon DEF SettingAt
  <2>2. PICK e \in x + 1..m : HeadAt(f, b, x, e)
    BY <2>1
  <2>3. x = a
    BY <2>2, HeadIsNamed, OneName
  <2>4. e \in a + 1..Len(f) /\ f[e] = "="
    BY <2>2, <2>3 DEF HeadAt
  <2> QED BY <2>4, Characters DEF BlankAt
<1>3. ASSUME NEW m \in b + 1..Len(f) PROVE ~CommentAt(f, b, m)
  BY <1>1, Characters DEF CommentAt
<1> QED BY <1>1, <1>2, <1>3, Characters DEF EndsOnly

\* Nor a head without its value.
LEMMA HeadEndsNowhere ==
    ASSUME NEW f \in Seq(Char), NEW b \in Nat, NEW a \in b + 1..Len(f),
           NEW e \in a + 1..Len(f), HeadAt(f, b, a, e),
           BlankAt(f, e, Len(f))
    PROVE  EndsOnly(f, b, Len(f) + 1) /\ ~IsSpace(f[b + 1])
<1>0. Len(f) \in Nat
  BY LenProperties
<1>1. IsOptionChar(f[b + 1])
  <2>1. b + 1 \in b + 1..a
    BY <1>0
  <2> QED BY <2>1 DEF HeadAt, NameAt
<1>2. ASSUME NEW m \in b + 1..Len(f), SettingAt(f, b, m) PROVE FALSE
  <2>1. PICK x \in b + 1..m : \E y \in x + 1..m : \E w \in y..m :
             HeadAt(f, b, x, y) /\ BeginsAt(f, y, w, m) /\ ValueAt(f, w, m)
    BY <1>2, Zenon DEF SettingAt
  <2>2. PICK y \in x + 1..m : \E w \in y..m :
             HeadAt(f, b, x, y) /\ BeginsAt(f, y, w, m) /\ ValueAt(f, w, m)
    BY <2>1
  <2>3. PICK w \in y..m :
             HeadAt(f, b, x, y) /\ BeginsAt(f, y, w, m) /\ ValueAt(f, w, m)
    BY <2>2
  <2>4. y = e
    <3>1. x \in b + 1..Len(f) /\ y \in x + 1..Len(f)
      BY <1>0
    <3> QED BY <1>0, <2>3, <3>1, OneHead
  <2>5. w = m
    <3>1. w < m => w + 1 \in e + 1..Len(f) /\ ~IsSpace(f[w + 1])
      BY <1>0, <2>3, <2>4 DEF BeginsAt
    <3> QED BY <3>1 DEF BlankAt
  <2>6. PlainAt(f, m, m)
    <3>1. ~(m + 2 <= m)
      BY <1>0
    <3> QED BY <2>3, <2>5, <3>1, Zenon
            DEF ValueAt, QuotedAt, BracesAt, InsideAt
  <2>7. After(f, m) \in {"#", Control}
    BY <2>6 DEF PlainAt
  <2>8. m < Len(f)
    BY <2>7, Characters DEF After
  <2>9. f[m + 1] \in {"#", Control} /\ m + 1 \in e + 1..Len(f)
    BY <1>0, <2>4, <2>7, <2>8 DEF After
  <2> QED BY <2>9, Characters DEF BlankAt
<1>3. ASSUME NEW m \in b + 1..Len(f) PROVE ~CommentAt(f, b, m)
  BY <1>1, Characters DEF CommentAt
<1> QED BY <1>1, <1>2, <1>3, Characters DEF EndsOnly

\* The end of the file in a comment.
LEMMA CommentIsOpen ==
    ASSUME NEW f, NEW R, IsRead(f, R), NEW a, AtComment(f, R, Len(f), a)
    PROVE  MeansOpen(f, R, a)
<1>1. Len(f) \in Nat
  BY LenProperties DEF IsRead
<1>2. PICK b \in 0..Len(f) :
         /\ Begun(f, R, b, a) /\ b < Len(f)
         /\ f[b + 1] = "#" /\ \A k \in b + 1..Len(f) : f[k] # Nl
  BY DEF AtComment
<1>3. OpenAt(f, b) /\ b \in Nat
  BY <1>1, <1>2 DEF OpenAt
<1>4. JustMeans(f, R, a)
  BY <1>1, <1>2, <1>3, OpenEndsNowhere, LastPiece
<1> QED BY <1>2, <1>3, <1>4 DEF MeansOpen, Begun

\* The end of the file where there is no value yet.
LEMMA FileEnds ==
    ASSUME NEW f, NEW R, IsRead(f, R), NEW a, NEW o,
           \/ Begun(f, R, Len(f), a)
           \/ AtEquals(f, R, Len(f), o, a)
           \/ AtValue(f, R, Len(f), o, a)
    PROVE  Means(f, R, a)
<1>1. Len(f) \in Nat /\ f \in Seq(Char)
  BY LenProperties DEF IsRead
<1> PICK l \in Nat : l = Len(f)
  BY <1>1
<1>2. CASE Begun(f, R, l, a)
  <2>1. l \in 0..Len(f) /\ ~(l < Len(f))
    OBVIOUS
  <2>2. JustMeans(f, R, a)
    BY <1>2, <2>1, LastPiece
  <2> QED BY <1>2, <2>1, <2>2, Zenon DEF Begun, Means, UnfinishedAt
<1>3. CASE AtEquals(f, R, l, o, a)
  <2>1. PICK b \in 0..l : \E x \in b + 1..l :
           /\ Begun(f, R, b, a) /\ NameAt(f, b, x)
           /\ ~IsOptionChar(After(f, x)) /\ BlankAt(f, x, l)
    BY <1>3, Zenon DEF AtEquals
  <2>2. UnfinishedAt(f, b)
    BY <2>1, Zenon DEF UnfinishedAt
  <2>3. EndsOnly(f, b, Len(f) + 1) /\ ~IsSpace(f[b + 1])
    BY <1>1, <2>1, NameEndsNowhere
  <2>4. JustMeans(f, R, a)
    BY <2>1, <2>3, LastPiece
  <2> QED BY <2>1, <2>2, <2>4, Zenon DEF Means, Begun
<1>4. CASE AtValue(f, R, l, o, a)
  <2>1. PICK b \in 0..l : \E e \in b + 1..l :
           Headed(f, R, b, e, o, a) /\ BlankAt(f, e, l)
    BY <1>4, Zenon DEF AtValue
  <2>2. PICK e \in b + 1..l : Headed(f, R, b, e, o, a) /\ BlankAt(f, e, l)
    BY <2>1
  <2>3. PICK x \in b + 1..e - 1 : HeadAt(f, b, x, e) /\ Begun(f, R, b, a)
    BY <2>2, Zenon DEF Headed
  <2>4. x \in b + 1..l /\ e \in x + 1..l /\ b \in Nat
    OBVIOUS
  <2>5. UnfinishedAt(f, b)
    BY <2>2, <2>3, <2>4, Zenon DEF UnfinishedAt
  <2>6. EndsOnly(f, b, Len(f) + 1) /\ ~IsSpace(f[b + 1])
    BY <1>1, <2>2, <2>3, <2>4, HeadEndsNowhere
  <2>7. JustMeans(f, R, a)
    BY <2>3, <2>6, LastPiece
  <2> QED BY <2>3, <2>5, <2>7, Zenon DEF Means, Begun
<1> QED BY <1>2, <1>3, <1>4

\* What a value that begins at v is part of.
LEMMA ValueIsPassed ==
    ASSUME NEW f, NEW R, IsRead(f, R), NEW b \in 0..Len(f),
           NEW v \in b + 1..Len(f), NEW o, NEW a, Valued(f, R, b, v, o, a)
    PROVE  /\ Begun(f, R, b, a) /\ ~IsSpace(f[b + 1])
           /\ \A n : (\A m \in v..Len(f) : ValueAt(f, v, m) => m = n)
                       => OnlyTo(f, b, n)
           /\ \A n \in v..Len(f) : \A q :
                GivenAt(f, v, n, q) =>
                  SetsAt(f, b, n, [opt |-> o, param |-> q])
<1>1. Len(f) \in Nat /\ f \in Seq(Char)
  BY LenProperties DEF IsRead
<1>2. PICK e \in b + 1..v : Headed(f, R, b, e, o, a) /\ BlankAt(f, e, v)
  BY Zenon DEF Valued
<1>3. PICK x \in b + 1..e - 1 : HeadAt(f, b, x, e) /\ o = Cut(f, b, x)
  BY <1>2, Zenon DEF Headed
<1>4. v < Len(f) /\ ~IsSpace(f[v + 1])
  BY Zenon DEF Valued
<1>5. x \in b + 1..Len(f) /\ e \in x + 1..Len(f) /\ v \in e..Len(f) - 1
      /\ b \in Nat
  BY <1>1, <1>4
<1>6. ~IsSpace(f[b + 1])
  <2>1. b + 1 \in b + 1..x
    BY <1>5
  <2> QED BY <1>3, <2>1, Characters DEF HeadAt, NameAt
<1>7. ASSUME NEW n, \A m \in v..Len(f) : ValueAt(f, v, m) => m = n
      PROVE  OnlyTo(f, b, n)
  BY <1>1, <1>2, <1>3, <1>4, <1>5, <1>7, OnlyValue, Zenon
<1>8. ASSUME NEW n \in v..Len(f), NEW q, GivenAt(f, v, n, q)
      PROVE  SetsAt(f, b, n, [opt |-> o, param |-> q])
  <2>1. x \in b + 1..n /\ e \in x + 1..n /\ v \in e..n
    BY <1>5
  <2>2. BeginsAt(f, e, v, n)
    BY <1>2, <1>4 DEF BeginsAt
  <2> QED BY <1>3, <1>8, <2>1, <2>2, Zenon DEF SetsAt
<1> QED BY <1>2, <1>6, <1>7, <1>8, Zenon DEF Headed

\* What is in the buffer while a value is read.
LEMMA Buffered ==
    ASSUME NEW f \in Seq(Char), NEW p \in 0..Len(f), NEW v \in 0..p - 1
    PROVE  /\ Len(Cut(f, v + 1, p)) = p - v - 1
           /\ p < Len(f) =>
                Cut(f, v + 1, p + 1) = Append(Cut(f, v + 1, p), f[p + 1])
<1> PICK w \in 0..p : w = v + 1
  OBVIOUS
<1>1. Len(Cut(f, w, p)) = p - w
  BY CutIs
<1>2. p < Len(f) => Cut(f, w, p + 1) = Append(Cut(f, w, p), f[p + 1])
  BY CutGrows
<1> QED BY <1>1, <1>2

\* The first character of a value says how it is written.
LEMMA QuotedBegins ==
    ASSUME NEW f, NEW R, IsRead(f, R), NEW p \in 0..Len(f) - 1, NEW o, NEW a,
           NEW b \in 0..p, p \in b + 1..p, Valued(f, R, b, p, o, a)
    PROVE  /\ IsQuote(f[p + 1]) =>
                AtQuoted(f, R, p + 1, o, <<>>, f[p + 1], a)
           /\ f[p + 1] = LeftBrace =>
                AtBraces(f, R, p + 1, o, <<>>, RightBrace, a)
           /\ ~IsQuote(f[p + 1]) /\ f[p + 1] # LeftBrace =>
                AtPlain(f, R, p, o, <<>>, a)
<1>1. Len(f) \in Nat /\ f \in Seq(Char)
  BY LenProperties DEF IsRead
<1> PICK n \in 1..Len(f) : n = p + 1 /\ n - 1 = p
  BY <1>1
<1>2. b \in 0..n /\ p \in b + 1..n - 1 /\ n \in 0..Len(f) /\ p \in 0..Len(f)
      /\ \A k \in p + 2..n : FALSE
  BY <1>1
<1>3. <<>> = Cut(f, n, n) /\ <<>> = Cut(f, p, p)
  BY <1>1, <1>2, CutNothing
<1>4. ASSUME IsQuote(f[n]) PROVE AtQuoted(f, R, n, o, <<>>, f[n], a)
  BY <1>2, <1>3, <1>4, Zenon DEF AtQuoted
<1>5. ASSUME f[n] = LeftBrace PROVE AtBraces(f, R, n, o, <<>>, RightBrace, a)
  BY <1>2, <1>3, <1>5, Zenon DEF AtBraces
<1>6. ASSUME ~IsQuote(f[n]), f[n] # LeftBrace
      PROVE  AtPlain(f, R, p, o, <<>>, a)
  <2>1. \A k \in p + 1..p : FALSE
    BY <1>1
  <2>2. p - p < MAX_PARAM_LEN
    BY ParserAssumption
  <2> QED BY <1>3, <1>6, <2>1, <2>2, Zenon DEF AtPlain
<1> QED BY <1>4, <1>5, <1>6

\* A value in quotes: a character more, its end, or no setting at all.
LEMMA QuotedGoesOn ==
    ASSUME NEW f, NEW R, IsRead(f, R), NEW p \in 0..Len(f), NEW o, NEW q,
           NEW c, NEW a, AtQuoted(f, R, p, o, q, c, a)
    PROVE  /\ p < Len(f) /\ f[p + 1] # c /\ f[p + 1] # Nl =>
                AtQuoted(f, R, p + 1, o, Append(q, f[p + 1]), c, a)
           /\ p < Len(f) /\ f[p + 1] = c /\ Len(q) < MAX_PARAM_LEN =>
                AtSet(f, R, p + 1, o, q, a)
           /\ p = Len(f) \/ f[p + 1] = Nl \/ ~(Len(q) < MAX_PARAM_LEN) =>
                Hopeless(f, R)
<1>1. Len(f) \in Nat /\ f \in Seq(Char)
  BY LenProperties DEF IsRead
<1>2. PICK b \in 0..p : \E v \in b + 1..p - 1 :
         /\ Valued(f, R, b, v, o, a)
         /\ IsQuote(f[v + 1]) /\ c = f[v + 1] /\ q = Cut(f, v + 1, p)
         /\ \A k \in v + 2..p : f[k] # c /\ f[k] # Nl
  BY Zenon DEF AtQuoted
<1>3. PICK v \in b + 1..p - 1 :
         /\ Valued(f, R, b, v, o, a)
         /\ IsQuote(f[v + 1]) /\ c = f[v + 1] /\ q = Cut(f, v + 1, p)
         /\ \A k \in v + 2..p : f[k] # c /\ f[k] # Nl
  BY <1>2
<1>4. b \in 0..Len(f) /\ v \in b + 1..Len(f) /\ v \in 0..p - 1 /\ v \in Nat
      /\ v < p /\ v < Len(f)
  BY <1>1
<1>5. Len(q) = p - v - 1
  BY <1>1, <1>3, <1>4, Buffered
<1>6. ASSUME NEW m \in v..Len(f), ValueAt(f, v, m)
      PROVE  /\ m > p /\ p - v - 1 < MAX_PARAM_LEN
             /\ f[p + 1] = c => m = p + 1
             /\ f[p + 1] # Nl
  BY <1>1, <1>3, <1>4, <1>6, QuotedEnds
<1>7. ASSUME p < Len(f), f[p + 1] # c, f[p + 1] # Nl
      PROVE  AtQuoted(f, R, p + 1, o, Append(q, f[p + 1]), c, a)
  <2> PICK n \in 1..Len(f) : n = p + 1 /\ n - 1 = p
    BY <1>1, <1>7
  <2>1. Append(q, f[n]) = Cut(f, v + 1, n)
    BY <1>1, <1>3, <1>4, <1>7, Buffered
  <2>2. ASSUME NEW k \in v + 2..n PROVE f[k] # c /\ f[k] # Nl
    <3>1. k \in v + 2..p \/ k = n
      BY <1>4
    <3> QED BY <1>3, <1>7, <3>1
  <2>3. b \in 0..n /\ v \in b + 1..n - 1
    BY <1>1
  <2> QED BY <1>3, <2>1, <2>2, <2>3, Zenon DEF AtQuoted
<1>8. ASSUME p < Len(f), f[p + 1] = c, Len(q) < MAX_PARAM_LEN
      PROVE  AtSet(f, R, p + 1, o, q, a)
  <2> PICK n \in 1..Len(f) : n = p + 1 /\ n - 1 = p
    BY <1>1, <1>8
  <2>1. QuotedAt(f, v, n)
    <3>1. v + 2 <= n /\ n - v - 2 < MAX_PARAM_LEN
      BY <1>4, <1>5, <1>8
    <3> QED BY <1>3, <1>8, <3>1 DEF QuotedAt, InsideAt
  <2>2. GivenAt(f, v, n, q)
    <3>1. q = Inside(f, v, n)
      BY <1>3 DEF Inside
    <3> QED BY <2>1, <3>1, Zenon DEF GivenAt
  <2>3. \A m \in v..Len(f) : ValueAt(f, v, m) => m = n
    BY <1>6, <1>8
  <2>4. n \in v..Len(f) /\ b \in 0..n - 1
    BY <1>1
  <2> QED BY <1>3, <1>4, <2>2, <2>3, <2>4, ValueIsPassed, Zenon DEF AtSet
<1>9. ASSUME p = Len(f) \/ f[p + 1] = Nl \/ ~(Len(q) < MAX_PARAM_LEN)
      PROVE  Hopeless(f, R)
  <2>1. \A m \in v..Len(f) : ValueAt(f, v, m) => m = Len(f) + 1
    BY <1>1, <1>5, <1>6, <1>9
  <2>2. OnlyTo(f, b, Len(f) + 1)
    BY <1>3, <1>4, <2>1, ValueIsPassed, Zenon
  <2> QED BY <1>3, <1>4, <2>2, ValueIsPassed, NoHope, Zenon
<1> QED BY <1>7, <1>8, <1>9

\* A value in braces, likewise.
LEMMA BracesGoOn ==
    ASSUME NEW f, NEW R, IsRead(f, R), NEW p \in 0..Len(f), NEW o, NEW q,
           NEW c, NEW a, AtBraces(f, R, p, o, q, c, a)
    PROVE  /\ p < Len(f) /\ f[p + 1] # c =>
                AtBraces(f, R, p + 1, o, Append(q, f[p + 1]), c, a)
           /\ p < Len(f) /\ f[p + 1] = c /\ Len(q) < MAX_PARAM_LEN =>
                AtSet(f, R, p + 1, o, q, a)
           /\ p = Len(f) \/ ~(Len(q) < MAX_PARAM_LEN) => Hopeless(f, R)
<1>1. Len(f) \in Nat /\ f \in Seq(Char)
  BY LenProperties DEF IsRead
<1>2. PICK b \in 0..p : \E v \in b + 1..p - 1 :
         /\ Valued(f, R, b, v, o, a)
         /\ f[v + 1] = LeftBrace /\ c = RightBrace /\ q = Cut(f, v + 1, p)
         /\ \A k \in v + 2..p : f[k] # c
  BY Zenon DEF AtBraces
<1>3. PICK v \in b + 1..p - 1 :
         /\ Valued(f, R, b, v, o, a)
         /\ f[v + 1] = LeftBrace /\ c = RightBrace /\ q = Cut(f, v + 1, p)
         /\ \A k \in v + 2..p : f[k] # c
  BY <1>2
<1>4. b \in 0..Len(f) /\ v \in b + 1..Len(f) /\ v \in 0..p - 1 /\ v \in Nat
      /\ v < p /\ v < Len(f)
  BY <1>1
<1>5. Len(q) = p - v - 1
  BY <1>1, <1>3, <1>4, Buffered
<1>6. ASSUME NEW m \in v..Len(f), ValueAt(f, v, m)
      PROVE  /\ m > p /\ p - v - 1 < MAX_PARAM_LEN
             /\ f[p + 1] = c => m = p + 1
  BY <1>1, <1>3, <1>4, <1>6, BracesEnd
<1>7. ASSUME p < Len(f), f[p + 1] # c
      PROVE  AtBraces(f, R, p + 1, o, Append(q, f[p + 1]), c, a)
  <2> PICK n \in 1..Len(f) : n = p + 1 /\ n - 1 = p
    BY <1>1, <1>7
  <2>1. Append(q, f[n]) = Cut(f, v + 1, n)
    BY <1>1, <1>3, <1>4, <1>7, Buffered
  <2>2. ASSUME NEW k \in v + 2..n PROVE f[k] # c
    <3>1. k \in v + 2..p \/ k = n
      BY <1>4
    <3> QED BY <1>3, <1>7, <3>1
  <2>3. b \in 0..n /\ v \in b + 1..n - 1
    BY <1>1
  <2> QED BY <1>3, <2>1, <2>2, <2>3, Zenon DEF AtBraces
<1>8. ASSUME p < Len(f), f[p + 1] = c, Len(q) < MAX_PARAM_LEN
      PROVE  AtSet(f, R, p + 1, o, q, a)
  <2> PICK n \in 1..Len(f) : n = p + 1 /\ n - 1 = p
    BY <1>1, <1>8
  <2>1. BracesAt(f, v, n)
    <3>1. v + 2 <= n /\ n - v - 2 < MAX_PARAM_LEN
      BY <1>4, <1>5, <1>8
    <3> QED BY <1>3, <1>8, <3>1 DEF BracesAt, InsideAt
  <2>2. GivenAt(f, v, n, q)
    <3>1. q = Inside(f, v, n)
      BY <1>3 DEF Inside
    <3> QED BY <2>1, <3>1, Zenon DEF GivenAt
  <2>3. \A m \in v..Len(f) : ValueAt(f, v, m) => m = n
    BY <1>6, <1>8
  <2>4. n \in v..Len(f) /\ b \in 0..n - 1
    BY <1>1
  <2> QED BY <1>3, <1>4, <2>2, <2>3, <2>4, ValueIsPassed, Zenon DEF AtSet
<1>9. ASSUME p = Len(f) \/ ~(Len(q) < MAX_PARAM_LEN)
      PROVE  Hopeless(f, R)
  <2>1. \A m \in v..Len(f) : ValueAt(f, v, m) => m = Len(f) + 1
    BY <1>1, <1>5, <1>6, <1>9
  <2>2. OnlyTo(f, b, Len(f) + 1)
    BY <1>3, <1>4, <2>1, ValueIsPassed, Zenon
  <2> QED BY <1>3, <1>4, <2>2, ValueIsPassed, NoHope, Zenon
<1> QED BY <1>7, <1>8, <1>9

\* A value without either, likewise.
LEMMA PlainGoesOn ==
    ASSUME NEW f, NEW R, IsRead(f, R), NEW p \in 0..Len(f), NEW o, NEW q,
           NEW a, AtPlain(f, R, p, o, q, a)
    PROVE  /\ p < Len(f) /\ IsPlainChar(f[p + 1]) =>
                IF Len(q) + 1 >= MAX_PARAM_LEN THEN Hopeless(f, R)
                ELSE AtPlain(f, R, p + 1, o, Append(q, f[p + 1]), a)
           /\ ~IsPlainChar(After(f, p)) => AtSet(f, R, p, o, q, a)
<1>1. Len(f) \in Nat /\ f \in Seq(Char)
  BY LenProperties DEF IsRead
<1>2. PICK b \in 0..p : \E v \in b + 1..p :
         /\ Valued(f, R, b, v, o, a)
         /\ ~IsQuote(f[v + 1]) /\ f[v + 1] # LeftBrace /\ q = Cut(f, v, p)
         /\ \A k \in v + 1..p : IsPlainChar(f[k])
         /\ p - v < MAX_PARAM_LEN
  BY Zenon DEF AtPlain
<1>3. PICK v \in b + 1..p :
         /\ Valued(f, R, b, v, o, a)
         /\ ~IsQuote(f[v + 1]) /\ f[v + 1] # LeftBrace /\ q = Cut(f, v, p)
         /\ \A k \in v + 1..p : IsPlainChar(f[k])
         /\ p - v < MAX_PARAM_LEN
  BY <1>2
<1>4. b \in 0..Len(f) /\ v \in b + 1..Len(f) /\ v \in 0..p /\ v \in Nat
      /\ v <= p
  BY <1>1
<1>5. Len(q) = p - v
  BY <1>1, <1>3, <1>4, CutIs
<1>6. ASSUME p < Len(f), IsPlainChar(f[p + 1])
      PROVE  IF Len(q) + 1 >= MAX_PARAM_LEN THEN Hopeless(f, R)
             ELSE AtPlain(f, R, p + 1, o, Append(q, f[p + 1]), a)
  <2> PICK n \in 1..Len(f) : n = p + 1 /\ n - 1 = p
    BY <1>1, <1>6
  <2>1. ASSUME NEW k \in v + 1..n PROVE IsPlainChar(f[k])
    <3>1. k \in v + 1..p \/ k = n
      BY <1>4
    <3> QED BY <1>3, <1>6, <3>1
  <2>2. Append(q, f[n]) = Cut(f, v, n)
    BY <1>1, <1>3, <1>4, <1>6, CutGrows
  <2>3. CASE Len(q) + 1 >= MAX_PARAM_LEN
    <3>1. ASSUME NEW m \in v..Len(f) PROVE ~ValueAt(f, v, m)
      <4>1. n - v >= MAX_PARAM_LEN /\ n \in Nat /\ m \in Nat /\ v <= n
            /\ m >= v /\ n <= Len(f) /\ m <= Len(f)
        BY <1>1, <1>5, <2>3
      <4>2. ~(n - v < MAX_PARAM_LEN)
        BY <1>4, <4>1, ParserAssumption
      <4> QED BY <1>1, <1>3, <1>4, <2>1, <4>1, <4>2, PlainEnds
    <3>2. OnlyTo(f, b, Len(f) + 1)
      BY <1>3, <1>4, <3>1, ValueIsPassed, Zenon
    <3>3. Hopeless(f, R)
      BY <1>3, <1>4, <3>2, ValueIsPassed, NoHope, Zenon
    <3> QED BY <2>3, <3>3
  <2>4. CASE ~(Len(q) + 1 >= MAX_PARAM_LEN)
    <3>1. n - v < MAX_PARAM_LEN /\ b \in 0..n /\ v \in b + 1..n
      BY <1>1, <1>5, <2>4, ParserAssumption
    <3>2. AtPlain(f, R, n, o, Append(q, f[n]), a)
      BY <1>3, <2>1, <2>2, <3>1, Zenon DEF AtPlain
    <3> QED BY <2>4, <3>2
  <2> QED BY <2>3, <2>4
<1>7. ASSUME ~IsPlainChar(After(f, p)) PROVE AtSet(f, R, p, o, q, a)
  <2>1. v = p => After(f, p) \in {"#", Control}
    <3>1. v < Len(f) /\ ~IsSpace(f[v + 1])
      BY <1>3, Zenon DEF Valued
    <3> SUFFICES ASSUME v = p PROVE After(f, p) \in {"#", Control}
      OBVIOUS
    <3>2. After(f, p) = f[v + 1] /\ v + 1 \in 1..Len(f)
      BY <1>1, <3>1 DEF After
    <3>3. f[v + 1] \in Char
      BY <1>1, <3>2
    <3> QED BY <1>7, <3>1, <3>2, <3>3, NulIsNoChar
            DEF IsPlainChar, IsPrint, IsSpace
  <2>2. PlainAt(f, v, p)
    BY <1>3, <1>7, <2>1 DEF PlainAt
  <2>3. GivenAt(f, v, p, q)
    BY <1>3, <2>2, Zenon DEF GivenAt
  <2>4. \A m \in v..Len(f) : ValueAt(f, v, m) => m = p
    <3> SUFFICES ASSUME NEW m \in v..Len(f), ValueAt(f, v, m) PROVE m = p
      OBVIOUS
    <3>1. m \in Nat /\ m >= v /\ m <= Len(f) /\ p <= Len(f) /\ p \in Nat
      BY <1>1
    <3> QED BY <1>1, <1>3, <1>4, <1>7, <3>1, PlainEnds
  <2>5. p \in v..Len(f) /\ b \in 0..p - 1
    BY <1>1
  <2> QED BY <1>3, <1>4, <2>3, <2>4, <2>5, ValueIsPassed, Zenon DEF AtSet
<1> QED BY <1>6, <1>7

\* What was appended is the last.
LEMMA LastAppended ==
    ASSUME NEW S, NEW s \in Seq(S), NEW x \in S
    PROVE  Last(Append(s, x)) = x /\ Append(s, x) # <<>>
BY AppendProperties DEF Last

-----------------------------------------------------------------------------
(***************************************************************************)
(* What the scanner knows at each of its places: the inductive invariant.  *)
(***************************************************************************)
\* The last option was refused, or had no text where it wants a number.
Refused(a) == a # <<>> /\ IsRefused(Known(Last(a).opt), Last(a).param)

NoText(a) == LacksNumber(Known(Last(a).opt), Last(a).param)

\* What the scanner knows of the text and of what it may stand for.
ScannedAt(f, R, place, p, o, q, c, a) ==
    /\ place = "open" => p = 0 /\ a = <<>>
    /\ place = "start" => Begun(f, R, p, a)
    /\ place = "comment" => AtComment(f, R, p, a)
    /\ place = "option" => AtOption(f, R, p, o, a)
    /\ place = "equals" => AtEquals(f, R, p, o, a)
    /\ place = "value" => AtValue(f, R, p, o, a)
    /\ place = "quoted" => AtQuoted(f, R, p, o, q, c, a)
    /\ place = "braces" => AtBraces(f, R, p, o, q, c, a)
    /\ place = "plain" => AtPlain(f, R, p, o, q, a)
    /\ place = "set" => AtSet(f, R, p, o, q, a)
    /\ place = "done" => Means(f, R, a)
    /\ place = "failed" => Hopeless(f, R) \/ Refused(a)
    /\ place = "stray" => MeansOpen(f, R, a) \/ NoText(a)

\* With the readings of the file.
GrammarInv ==
    ScannedAt(file, ReadingsOf(file), pc, line_pos, opt, param, closing,
              applied)

\* It holds at first.
LEMMA GrammarInit == Init => GrammarInv
<1> SUFFICES ASSUME Init PROVE GrammarInv OBVIOUS
<1>1. pc = "open" /\ line_pos = 0 /\ applied = <<>>
  BY DEF Init
<1> QED BY <1>1 DEF GrammarInv, ScannedAt

\* Every step of the scanner keeps it.
LEMMA GrammarNext == Scanning /\ GrammarInv /\ [Next]_vars => GrammarInv'
<1> SUFFICES ASSUME Scanning, GrammarInv, [Next]_vars
             PROVE  GrammarInv'
  OBVIOUS
<1> DEFINE R == ReadingsOf(file)
<1>1. /\ file \in Seq(Char) /\ line_pos \in 0..Len(file) /\ Len(file) \in Nat
      /\ IsRead(file, R)
  BY FilesAreRead DEF Scanning
<1>2. file' = file /\ ReadingsOf(file)' = R
  <2>1. file' = file
    BY Zenon DEF Next, Open, SkipWhitespace, EndOfFile, BeginComment,
         SkipComment, BeginOption, ReadOption, EndOption, CheckEquals,
         BeginValue, ReadValue, EndValue, ReadPlain, EndPlain, Set, Returned,
         vars, text
  <2> QED BY <2>1
<1>3. ScannedAt(file, R, pc, line_pos, opt, param, closing, applied)
  BY DEF GrammarInv
<1>4. SUFFICES ScannedAt(file, R, pc', line_pos', opt', param', closing',
                         applied')
  BY <1>2, Zenon DEF GrammarInv
<1> HIDE DEF R
<1>5. Here = After(file, line_pos)
  BY DEF Here, After, Size
<1>6. /\ Here # NUL => /\ line_pos \in 0..Len(file) - 1
                       /\ Here = file[line_pos + 1]
      /\ line_pos < Size => /\ line_pos \in 0..Len(file) - 1
                            /\ Here = file[line_pos + 1]
      /\ ~(line_pos < Size) => line_pos = Len(file)
      /\ Here = NUL => line_pos = Len(file)
  BY <1>1, HereIsInside, NulIsBehind DEF Size, Here
<1> USE DEF Goto, Advance, Keep
<1>7. CASE Open
  <2>1. pc = "open" /\ pc' \in {"unread", "start"} /\ line_pos' = line_pos
        /\ applied' = applied
    BY <1>7 DEF Open
  <2>2. Begun(file, R, line_pos, applied)
    BY <1>1, <1>3, <2>1, BeginsAtFirst DEF ScannedAt
  <2> QED BY <2>1, <2>2 DEF ScannedAt
<1>8. CASE SkipWhitespace
  <2>1. pc \in {"start", "equals", "value"} /\ pc' = pc /\ IsSpace(Here)
        /\ line_pos' = line_pos + 1 /\ opt' = opt /\ applied' = applied
    BY <1>8 DEF SkipWhitespace
  <2>2. line_pos \in 0..Len(file) - 1 /\ IsSpace(file[line_pos + 1])
    BY <1>6, <2>1, Characters
  <2>3. CASE pc = "start"
    <3>1. Begun(file, R, line_pos + 1, applied)
      BY <1>1, <1>3, <2>2, <2>3, BlankIsPassed DEF ScannedAt
    <3> QED BY <2>1, <2>3, <3>1 DEF ScannedAt
  <2>4. CASE pc = "equals"
    <3>1. AtEquals(file, R, line_pos + 1, opt, applied)
      BY <1>1, <1>3, <2>2, <2>4, EqualsGoOn DEF ScannedAt
    <3> QED BY <2>1, <2>4, <3>1 DEF ScannedAt
  <2>5. CASE pc = "value"
    <3>1. AtValue(file, R, line_pos + 1, opt, applied)
      BY <1>1, <1>3, <2>2, <2>5, ValueGoesOn DEF ScannedAt
    <3> QED BY <2>1, <2>5, <3>1 DEF ScannedAt
  <2> QED BY <2>1, <2>3, <2>4, <2>5
<1>9. CASE EndOfFile
  <2>1. pc \in {"start", "equals", "value"} /\ pc' = "done"
        /\ line_pos >= Size /\ applied' = applied
    BY <1>9 DEF EndOfFile
  <2>2. line_pos = Len(file)
    BY <1>1, <2>1 DEF Size
  <2>3. \/ Begun(file, R, Len(file), applied)
        \/ AtEquals(file, R, Len(file), opt, applied)
        \/ AtValue(file, R, Len(file), opt, applied)
    BY <1>3, <2>1, <2>2 DEF ScannedAt
  <2>4. Means(file, R, applied)
    BY <1>1, <2>3, FileEnds
  <2> QED BY <2>1, <2>4 DEF ScannedAt
<1>10. CASE BeginComment
  <2>1. pc = "start" /\ pc' = "comment" /\ Here = "#"
        /\ line_pos' = line_pos /\ applied' = applied
    BY <1>10 DEF BeginComment
  <2>2. Begun(file, R, line_pos, applied)
    BY <1>3, <2>1 DEF ScannedAt
  <2>3. line_pos \in 0..Len(file) - 1 /\ file[line_pos + 1] = "#"
    BY <1>6, <2>1 DEF NUL
  <2>4. \A k \in line_pos + 1..line_pos : FALSE
    BY <1>1
  <2>5. line_pos \in 0..line_pos /\ line_pos < Len(file)
    BY <1>1, <2>3
  <2>6. AtComment(file, R, line_pos, applied)
    BY <2>2, <2>3, <2>4, <2>5, Zenon DEF AtComment
  <2> QED BY <2>1, <2>6 DEF ScannedAt
<1>11. CASE SkipComment
  <2>1. pc = "comment" /\ applied' = applied
    BY <1>11 DEF SkipComment
  <2>2. AtComment(file, R, line_pos, applied)
    BY <1>3, <2>1 DEF ScannedAt
  <2>3. CASE Here = Nl /\ Goto("start") /\ Advance
    <3>1. line_pos \in 0..Len(file) - 1 /\ file[line_pos + 1] = Nl
      BY <1>6, <2>3, NulIsNoChar
    <3>2. Begun(file, R, line_pos + 1, applied)
      BY <1>1, <2>2, <3>1, CommentIsPassed
    <3> QED BY <2>1, <2>3, <3>2 DEF ScannedAt
  <2>4. CASE Here \notin {Nl, NUL} /\ Goto("comment") /\ Advance
    <3>1. line_pos \in 0..Len(file) - 1 /\ file[line_pos + 1] # Nl
      BY <1>6, <2>4
    <3>2. PICK b \in 0..line_pos :
             /\ Begun(file, R, b, applied) /\ b < Len(file)
             /\ file[b + 1] = "#" /\ \A k \in b + 1..line_pos : file[k] # Nl
      BY <2>2 DEF AtComment
    <3>3. ASSUME NEW k \in b + 1..line_pos + 1 PROVE file[k] # Nl
      <4>1. k \in b + 1..line_pos \/ k = line_pos + 1
        BY <1>1
      <4> QED BY <3>1, <3>2, <4>1
    <3>4. b \in 0..line_pos + 1
      BY <1>1
    <3>5. AtComment(file, R, line_pos + 1, applied)
      BY <3>2, <3>3, <3>4, Zenon DEF AtComment
    <3> QED BY <2>1, <2>4, <3>5 DEF ScannedAt
  <2>5. CASE Here = NUL /\ Goto("stray") /\ Keep
    <3>1. MeansOpen(file, R, applied)
      BY <1>1, <1>6, <2>2, <2>5, CommentIsOpen
    <3> QED BY <2>1, <2>5, <3>1 DEF ScannedAt
  <2> QED BY <1>11, <2>3, <2>4, <2>5 DEF SkipComment
<1>12. CASE BeginOption
  <2>1. pc = "start" /\ pc' = "option" /\ ~IsSpace(Here) /\ Here # "#"
        /\ Here # NUL /\ opt' = <<>> /\ line_pos' = line_pos
        /\ applied' = applied
    BY <1>12 DEF BeginOption
  <2>2. AtOption(file, R, line_pos, <<>>, applied)
    BY <1>1, <1>3, <1>6, <2>1, OptionBegins DEF ScannedAt
  <2> QED BY <2>1, <2>2 DEF ScannedAt
<1>13. CASE ReadOption
  <2>0. CASE pc' = "overrun"
    BY <2>0 DEF ScannedAt
  <2> SUFFICES ASSUME pc' # "overrun"
               PROVE  ScannedAt(file, R, pc', line_pos', opt', param',
                                closing', applied')
    BY <2>0
  <2>1. pc = "option" /\ pc' = "option" /\ IsOptionChar(Here)
        /\ opt' = Append(opt, Here) /\ line_pos' = line_pos + 1
        /\ applied' = applied
    BY <1>13 DEF ReadOption
  <2>2. line_pos \in 0..Len(file) - 1 /\ Here = file[line_pos + 1]
    BY <1>6, <2>1, Characters
  <2>3. AtOption(file, R, line_pos + 1, Append(opt, file[line_pos + 1]),
                 applied)
    BY <1>1, <1>3, <2>1, <2>2, OptionGoesOn DEF ScannedAt
  <2> QED BY <2>1, <2>2, <2>3 DEF ScannedAt
<1>14. CASE EndOption
  <2>1. pc = "option" /\ ~IsOptionChar(Here)
        /\ pc' = (IF opt = <<>> \/ Len(opt) >= MAX_OPT_LEN THEN "failed"
                  ELSE "equals")
        /\ opt' = opt /\ line_pos' = line_pos /\ applied' = applied
    BY <1>14 DEF EndOption
  <2>2. IF opt = <<>> \/ Len(opt) >= MAX_OPT_LEN
        THEN Hopeless(file, R) ELSE AtEquals(file, R, line_pos, opt, applied)
    BY <1>1, <1>3, <1>5, <2>1, OptionEnds DEF ScannedAt
  <2> QED BY <2>1, <2>2 DEF ScannedAt
<1>15. CASE CheckEquals
  <2>1. pc = "equals" /\ ~IsSpace(Here) /\ line_pos < Size
        /\ pc' = (IF Here = "=" THEN "value" ELSE "failed")
        /\ opt' = opt /\ line_pos' = line_pos + 1 /\ applied' = applied
    BY <1>15 DEF CheckEquals
  <2>2. line_pos \in 0..Len(file) - 1 /\ Here = file[line_pos + 1]
    BY <1>6, <2>1
  <2>3. IF Here = "=" THEN AtValue(file, R, line_pos + 1, opt, applied)
        ELSE Hopeless(file, R)
    BY <1>1, <1>3, <2>1, <2>2, EqualsGoOn DEF ScannedAt
  <2> QED BY <2>1, <2>3 DEF ScannedAt
<1>16. CASE BeginValue
  <2>1. pc = "value" /\ ~IsSpace(Here) /\ line_pos < Size /\ param' = <<>>
        /\ opt' = opt /\ applied' = applied
    BY <1>16 DEF BeginValue
  <2>2. \/ /\ IsQuote(Here) /\ pc' = "quoted" /\ closing' = Here
           /\ line_pos' = line_pos + 1
        \/ /\ Here = LeftBrace /\ pc' = "braces" /\ closing' = RightBrace
           /\ line_pos' = line_pos + 1
        \/ /\ ~IsQuote(Here) /\ Here # LeftBrace /\ pc' = "plain"
           /\ line_pos' = line_pos
    BY <1>16, Zenon DEF BeginValue, LeftBrace, RightBrace
  <2>3. line_pos \in 0..Len(file) - 1 /\ Here = file[line_pos + 1]
    BY <1>6, <2>1
  <2>4. PICK b \in 0..line_pos :
           line_pos \in b + 1..line_pos
             /\ Valued(file, R, b, line_pos, opt, applied)
    BY <1>1, <1>3, <2>1, <2>3, ValueGoesOn DEF ScannedAt
  <2>5. /\ IsQuote(Here) =>
             AtQuoted(file, R, line_pos + 1, opt, <<>>, Here, applied)
        /\ Here = LeftBrace =>
             AtBraces(file, R, line_pos + 1, opt, <<>>, RightBrace, applied)
        /\ ~IsQuote(Here) /\ Here # LeftBrace =>
             AtPlain(file, R, line_pos, opt, <<>>, applied)
    BY <1>1, <2>3, <2>4, QuotedBegins
  <2> QED BY <2>1, <2>2, <2>5 DEF ScannedAt
<1>17. CASE ReadValue
  <2>1. pc \in {"quoted", "braces"} /\ pc' = pc /\ Here # closing
        /\ line_pos < Size /\ (pc = "quoted" => Here # Nl)
        /\ param' = Append(param, Here) /\ line_pos' = line_pos + 1
        /\ opt' = opt /\ closing' = closing /\ applied' = applied
    BY <1>17 DEF ReadValue, MayRead
  <2>2. line_pos < Len(file) /\ Here = file[line_pos + 1]
    BY <1>1, <1>6, <2>1
  <2>3. CASE pc = "quoted"
    <3>1. AtQuoted(file, R, line_pos + 1, opt, Append(param, Here), closing,
                   applied)
      BY <1>1, <1>3, <2>1, <2>2, <2>3, QuotedGoesOn DEF ScannedAt
    <3> QED BY <2>1, <2>3, <3>1 DEF ScannedAt
  <2>4. CASE pc = "braces"
    <3>1. AtBraces(file, R, line_pos + 1, opt, Append(param, Here), closing,
                   applied)
      BY <1>1, <1>3, <2>1, <2>2, <2>4, BracesGoOn DEF ScannedAt
    <3> QED BY <2>1, <2>4, <3>1 DEF ScannedAt
  <2> QED BY <2>1, <2>3, <2>4
<1>18. CASE EndValue
  <2>1. pc \in {"quoted", "braces"}
        /\ opt' = opt /\ param' = param /\ applied' = applied
    BY <1>18 DEF EndValue
  <2>2. CASE MayRead /\ Here = closing /\ Goto("set") /\ Advance
    <3>1. line_pos < Len(file) /\ Here = file[line_pos + 1]
          /\ Len(param) < MAX_PARAM_LEN
      BY <1>1, <1>6, <2>2 DEF MayRead
    <3>2. AtSet(file, R, line_pos + 1, opt, param, applied)
      BY <1>1, <1>3, <2>1, <2>2, <3>1, QuotedGoesOn, BracesGoOn DEF ScannedAt
    <3> QED BY <2>1, <2>2, <3>2 DEF ScannedAt
  <2>3. CASE ~MayRead /\ Goto("failed") /\ Keep
    <3>1. \/ line_pos = Len(file)
          \/ pc = "quoted" /\ file[line_pos + 1] = Nl
          \/ ~(Len(param) < MAX_PARAM_LEN)
      BY <1>1, <1>6, <2>3 DEF MayRead, Size
    <3>2. Hopeless(file, R)
      BY <1>1, <1>3, <2>1, <3>1, QuotedGoesOn, BracesGoOn DEF ScannedAt
    <3> QED BY <2>1, <2>3, <3>2 DEF ScannedAt
  <2> QED BY <1>18, <2>2, <2>3 DEF EndValue
<1>19. CASE ReadPlain
  <2>1. pc = "plain" /\ IsPlainChar(Here)
        /\ pc' = (IF Len(param) + 1 >= MAX_PARAM_LEN THEN "failed"
                  ELSE "plain")
        /\ param' = Append(param, Here) /\ line_pos' = line_pos + 1
        /\ opt' = opt /\ applied' = applied
    BY <1>19 DEF ReadPlain
  <2>2. line_pos < Len(file) /\ Here = file[line_pos + 1]
    <3>1. Here # NUL
      BY <2>1 DEF IsPlainChar, IsPrint
    <3> QED BY <1>1, <1>6, <3>1
  <2>3. IF Len(param) + 1 >= MAX_PARAM_LEN THEN Hopeless(file, R)
        ELSE AtPlain(file, R, line_pos + 1, opt, Append(param, Here), applied)
    BY <1>1, <1>3, <2>1, <2>2, PlainGoesOn DEF ScannedAt
  <2> QED BY <2>1, <2>3 DEF ScannedAt
<1>20. CASE EndPlain
  <2>1. pc = "plain" /\ ~IsPlainChar(Here) /\ pc' = "set"
        /\ param' = param /\ line_pos' = line_pos
        /\ opt' = opt /\ applied' = applied
    BY <1>20 DEF EndPlain
  <2>2. AtSet(file, R, line_pos, opt, param, applied)
    BY <1>1, <1>3, <1>5, <2>1, PlainGoesOn DEF ScannedAt
  <2> QED BY <2>1, <2>2 DEF ScannedAt
<1>21. CASE Set
  <2> DEFINE x == [opt |-> opt, param |-> param]
  <2>1. pc = "set" /\ line_pos' = line_pos /\ applied' = Append(applied, x)
        /\ \/ pc' = "stray" /\ LacksNumber(Known(opt), param)
           \/ pc' = "failed" /\ IsRefused(Known(opt), param)
           \/ pc' \in {"start", "overrun", "aborted"}
    BY <1>21, Zenon DEF Set
  <2>2. x.opt = opt /\ x.param = param
        /\ x \in [opt : Seq(Char), param : Seq(Char)]
    BY DEF Scanning
  <2>3. Last(applied') = x /\ applied' # <<>>
    <3> HIDE DEF x
    <3> PICK S : S = [opt : Seq(Char), param : Seq(Char)]
      OBVIOUS
    <3>1. applied \in Seq(S) /\ x \in S
      BY <2>2 DEF Scanning
    <3>2. Last(Append(applied, x)) = x /\ Append(applied, x) # <<>>
      BY <3>1, LastAppended
    <3> QED BY <2>1, <3>2
  <2>4. Begun(file, R, line_pos, applied')
    BY <1>1, <1>3, <2>1, SettingIsPassed DEF ScannedAt
  <2>5. pc' = "stray" => NoText(applied')
    BY <2>1, <2>2, <2>3, Zenon DEF NoText
  <2>6. pc' = "failed" => Refused(applied')
    BY <2>1, <2>2, <2>3, Zenon DEF Refused
  <2> QED BY <2>1, <2>4, <2>5, <2>6 DEF ScannedAt
<1>22. CASE Returned \/ UNCHANGED vars
  <2>1. UNCHANGED <<pc, line_pos, opt, param, closing, applied>>
    BY <1>22 DEF Returned, vars
  <2> QED BY <1>3, <2>1, Zenon
<1> QED BY <1>7, <1>8, <1>9, <1>10, <1>11, <1>12, <1>13, <1>14, <1>15, <1>16,
           <1>17, <1>18, <1>19, <1>20, <1>21, <1>22, Zenon DEF Next

\* So it holds always.
LEMMA GrammarAlways == Spec => []GrammarInv
<1>1. Scanning /\ GrammarInv /\ [Next]_vars => GrammarInv'
  BY GrammarNext
<1> QED BY <1>1, GrammarInit, ScanningAlways, PTL DEF Spec

-----------------------------------------------------------------------------
(***************************************************************************)
(* From places back to the grammar.                                        *)
(***************************************************************************)
\* The readings of the grammar are those that were reasoned about.
LEMMA SameReadings == Readings = ReadingsOf(file)
BY DEF Readings, ReadingsOf, AreReadings, ReadingsAt, Grown, Extended, After,
       Size

\* A comment that the end of the file cuts off.
LEMMA OpenCommentIsAt ==
    ASSUME NEW f \in Seq(Char), NEW b \in 0..Len(f)
    PROVE  IsOpenComment(Cut(f, b, Len(f))) <=> OpenAt(f, b)
<1> PICK l \in Nat : l = Len(f)
  BY LenProperties
<1>0. l \in 0..Len(f) /\ b \in 0..l /\ b \in Nat
  OBVIOUS
<1> PICK p \in Seq(Char) : p = Cut(f, b, l)
  BY <1>0, CutIs
<1>1. Len(p) = l - b /\ \A k \in 1..l - b : p[k] = f[b + k]
  BY <1>0, CutIs, Zenon
<1>2. Len(p) > 0 <=> b < l
  BY <1>1
<1>3. b < l => p[1] = f[b + 1]
  BY <1>1
<1>4. ASSUME \A k \in b + 1..l : f[k] # Nl, NEW k \in 1..Len(p)
      PROVE  p[k] # Nl
  <2>1. k \in 1..l - b /\ b + k \in b + 1..l
    BY <1>1
  <2> QED BY <1>1, <1>4, <2>1
<1>5. ASSUME \A k \in 1..Len(p) : p[k] # Nl, NEW k \in b + 1..l
      PROVE  f[k] # Nl
  <2>1. k - b \in 1..Len(p) /\ k - b \in 1..l - b /\ b + (k - b) = k
    BY <1>1
  <2> QED BY <1>1, <1>5, <2>1
<1> QED BY <1>2, <1>3, <1>4, <1>5 DEF IsOpenComment, Begins, OpenAt

\* What a file may mean, in terms of the places where its rest begins.
LEMMA MeaningsAre ==
    ASSUME file \in Seq(Char), NEW a
    PROVE  /\ a \in Meanings(IsUnfinished) <=>
                \E n \in 0..Len(file) :
                   a \in ReadingsOf(file)[n] /\ UnfinishedAt(file, n)
           /\ a \in Meanings(IsOpenComment) <=>
                \E n \in 0..Len(file) :
                   a \in ReadingsOf(file)[n] /\ OpenAt(file, n)
<1> DEFINE R == ReadingsOf(file)
<1>1. Readings = R
  BY SameReadings
<1>2. a \in Meanings(IsUnfinished) <=>
        \E n \in 0..Size : a \in R[n] /\ IsUnfinished(Cut(file, n, Size))
  <2> DEFINE T == {m \in 0..Size : IsUnfinished(SubSeq(file, m + 1, Size))}
  <2>1. Meanings(IsUnfinished) = UNION {Readings[n] : n \in T}
    BY DEF Meanings
  <2>2. \A n : n \in T <=>
          n \in 0..Size /\ IsUnfinished(Cut(file, n, Size))
    BY Zenon DEF Cut
  <2> HIDE DEF T, R
  <2> QED BY <1>1, <2>1, <2>2
<1>3. a \in Meanings(IsOpenComment) <=>
        \E n \in 0..Size : a \in R[n] /\ IsOpenComment(Cut(file, n, Size))
  <2> DEFINE T == {m \in 0..Size : IsOpenComment(SubSeq(file, m + 1, Size))}
  <2>1. Meanings(IsOpenComment) = UNION {Readings[n] : n \in T}
    BY DEF Meanings
  <2>2. \A n : n \in T <=>
          n \in 0..Size /\ IsOpenComment(Cut(file, n, Size))
    BY Zenon DEF Cut
  <2> HIDE DEF T, R
  <2> QED BY <1>1, <2>1, <2>2
<1> HIDE DEF R
<1>4. \A n \in 0..Len(file) : IsUnfinished(Cut(file, n, Len(file)))
                                 <=> UnfinishedAt(file, n)
  BY UnfinishedIsAt, Zenon
<1>5. \A n \in 0..Len(file) : IsOpenComment(Cut(file, n, Len(file)))
                                 <=> OpenAt(file, n)
  BY OpenCommentIsAt, Zenon
<1>6. Size = Len(file)
  BY DEF Size
<1> QED BY <1>2, <1>3, <1>4, <1>5, <1>6, Zenon DEF R

\* Where the scanner has an end, the grammar has that and no other.
LEMMA MeaningIsOne ==
    ASSUME file \in Seq(Char), NEW a
    PROVE  /\ Means(file, ReadingsOf(file), a) => Meanings(IsUnfinished) = {a}
           /\ MeansOpen(file, ReadingsOf(file), a) =>
                Meanings(IsOpenComment) = {a}
           /\ Hopeless(file, ReadingsOf(file)) => Meanings(IsUnfinished) = {}
<1> DEFINE R == ReadingsOf(file)
           M == Meanings(IsUnfinished)
           O == Meanings(IsOpenComment)
<1>1. \A t : t \in M <=>
               \E n \in 0..Len(file) : t \in R[n] /\ UnfinishedAt(file, n)
  BY MeaningsAre, Zenon
<1>2. \A t : t \in O <=>
               \E n \in 0..Len(file) : t \in R[n] /\ OpenAt(file, n)
  BY MeaningsAre, Zenon
<1> HIDE DEF R, M, O
<1>3. ASSUME Means(file, R, a) PROVE M = {a}
  <2>1. a \in M
    BY <1>1, <1>3, Zenon DEF Means
  <2>2. ASSUME NEW t \in M PROVE t = a
    BY <1>1, <1>3, <2>2, Zenon DEF Means, JustMeans, RestAt
  <2> QED BY <2>1, <2>2
<1>4. ASSUME MeansOpen(file, R, a) PROVE O = {a}
  <2>1. a \in O
    BY <1>2, <1>4, Zenon DEF MeansOpen
  <2>2. ASSUME NEW t \in O PROVE t = a
    BY <1>2, <1>4, <2>2, Zenon DEF MeansOpen, JustMeans, RestAt
  <2> QED BY <2>1, <2>2
<1>5. ASSUME Hopeless(file, R) PROVE M = {}
  <2>1. ASSUME NEW t \in M PROVE FALSE
    BY <1>1, <1>5, <2>1, Zenon DEF Hopeless, RestAt
  <2> QED BY <2>1
<1> QED BY <1>3, <1>4, <1>5, Zenon DEF R, M, O

\* parse_config_file finds in every file what the grammar finds in it, and
\* the grammar never leaves it a choice.
THEOREM ScannerParsesAsGrammar == Spec => []ParsesAsGrammar
<1>1. Scanning /\ GrammarInv => ParsesAsGrammar
  <2> SUFFICES ASSUME Scanning, GrammarInv PROVE ParsesAsGrammar
    OBVIOUS
  <2>1. file \in Seq(Char)
    BY DEF Scanning
  <2>2. /\ pc = "done" => Means(file, ReadingsOf(file), applied)
        /\ pc = "stray" => \/ MeansOpen(file, ReadingsOf(file), applied)
                           \/ NoText(applied)
        /\ pc = "failed" => \/ Hopeless(file, ReadingsOf(file))
                            \/ Refused(applied)
    BY DEF GrammarInv, ScannedAt
  <2>3. /\ pc = "done" => Meanings(IsUnfinished) = {applied}
        /\ pc = "stray" =>
             Meanings(IsOpenComment) = {applied} \/ NoText(applied)
        /\ pc = "failed" => Meanings(IsUnfinished) = {} \/ Refused(applied)
    BY <2>1, <2>2, MeaningIsOne, Zenon
  <2> QED BY <2>3, Zenon DEF ParsesAsGrammar, NoText, Refused
<1>2. Spec => []Scanning
  BY ScanningAlways
<1>3. Spec => []GrammarInv
  BY GrammarAlways
<1> QED BY <1>1, <1>2, <1>3, PTL
=============================================================================
