---------------------------- MODULE ConfigParser ----------------------------
(***************************************************************************)
(* parse_config_file of src/config_parser.c: the configuration file is     *)
(* read into memory and then scanned character by character.               *)
(*                                                                         *)
(*   pc = "open"     fopen to fread                                        *)
(*        "start"    the top of the loop: blanks, a comment, an option     *)
(*        "comment"  looking for the end of a comment                      *)
(*        "option"   reading the name of an option                         *)
(*        "equals"   blanks and '='                                        *)
(*        "value"    blanks and the beginning of a value                   *)
(*        "quoted", "braces", "plain"   reading a value                    *)
(*        "set"      set_option is called                                  *)
(*        "done"     0 is returned                                         *)
(*        "unread"   the file could not be read: -1 is returned            *)
(*        "failed"   -1 is returned                                        *)
(*        "stray"    memory is read that is none of the text: a comment    *)
(*                   that does not end, or parseUInt without a text        *)
(*        "overrun"  memory is written behind a buffer: that of a name, or *)
(*                   of a path                                             *)
(*        "aborted"  an assertion of set_option failed                     *)
(*                                                                         *)
(* What a program does that has read or written such memory is anything:   *)
(* nothing more is said of it.                                             *)
(***************************************************************************)
EXTENDS ConfigOptions

CONSTANTS
    MAX_OPT_LEN, MAX_PARAM_LEN,
    GrammarSize,   \* the files up to this size are compared with the grammar
    Inputs   \* the files: [text, meant]; meant is what its author wants, a
             \* session, or NoMeaning

VARIABLES
    file, meant,   \* of Inputs
    pc,            \* see above
    line_pos,      \* how many characters were scanned
    opt, param,    \* the buffers
    closing,       \* the quote that closes the value
    session,       \* the session being configured
    applied        \* history: what set_option was called with

vars == <<file, meant, pc, line_pos, opt, param, closing, session, applied>>

text == <<file, meant>>

NoMeaning == [none |-> TRUE]

\* What ends a text in memory, and is in no text.
NUL == ""

Char == STRING \ {NUL}

\* A character that is neither printable nor blank.
Control == "control"

ASSUME ParserAssumption ==
    /\ MAX_OPT_LEN \in Nat \ {0} /\ MAX_PARAM_LEN \in Nat \ {0}
    /\ GrammarSize \in Nat
    /\ \A i \in Inputs : i.text \in Seq(Char)

Final == {"done", "failed", "unread", "stray", "overrun", "aborted"}

\* line[line_pos]; the text is followed by a NUL.
Size == Len(file)

Here == IF line_pos < Size THEN file[line_pos + 1] ELSE NUL

IsPrint(c) == c \notin {NUL, Nl, Control}

IsOptionChar(c) == IsPrint(c) /\ c \notin {" ", "#", "="}

IsPlainChar(c) == IsPrint(c) /\ c \notin {" ", "#"}

Goto(place) == pc' = place

Advance == line_pos' = line_pos + 1

Keep == UNCHANGED line_pos

\* A file that cannot be read, or has no contents.
Open ==
    /\ pc = "open"
    /\ \/ Goto("unread")
       \/ Size > 0 /\ Goto("start")
    /\ UNCHANGED <<text, line_pos, opt, param, closing, session, applied>>

SkipWhitespace ==
    /\ pc \in {"start", "equals", "value"}
    /\ IsSpace(Here)
    /\ Advance
    /\ UNCHANGED <<text, pc, opt, param, closing, session, applied>>

\* The end of the file, also where an option has no value yet.
EndOfFile ==
    /\ pc \in {"start", "equals", "value"}
    /\ line_pos >= Size
    /\ Goto("done")
    /\ UNCHANGED <<text, line_pos, opt, param, closing, session, applied>>

BeginComment ==
    /\ pc = "start"
    /\ Here = "#"
    /\ Goto("comment")
    /\ UNCHANGED <<text, line_pos, opt, param, closing, session, applied>>

\* Nothing but a line break ends a comment.
SkipComment ==
    /\ pc = "comment"
    /\ \/ Here = Nl /\ Goto("start") /\ Advance
       \/ Here \notin {Nl, NUL} /\ Goto("comment") /\ Advance
       \/ Here = NUL /\ Goto("stray") /\ Keep
    /\ UNCHANGED <<text, opt, param, closing, session, applied>>

BeginOption ==
    /\ pc = "start"
    /\ ~IsSpace(Here) /\ Here \notin {"#", NUL}
    /\ opt' = <<>>
    /\ Goto("option")
    /\ UNCHANGED <<text, line_pos, param, closing, session, applied>>

\* The loop goes on when the name is too long; opt has MAX_OPT_LEN + 1 places.
ReadOption ==
    /\ pc = "option"
    /\ IsOptionChar(Here)
    /\ \/ /\ Len(opt) <= MAX_OPT_LEN
          /\ opt' = Append(opt, Here)
          /\ Goto("option") /\ Advance
       \/ /\ Len(opt) > MAX_OPT_LEN
          /\ Goto("overrun") /\ Keep
          /\ UNCHANGED opt
    /\ UNCHANGED <<text, param, closing, session, applied>>

\* Seeded bug: what does not begin with a name is passed over.
PassOver ==
    /\ pc = "option"
    /\ ~IsOptionChar(Here)
    /\ Goto(IF opt = <<>> THEN "start"
            ELSE IF Len(opt) >= MAX_OPT_LEN THEN "failed" ELSE "equals")
    /\ UNCHANGED <<text, line_pos, opt, param, closing, session, applied>>

EndOption ==
    /\ pc = "option"
    /\ ~IsOptionChar(Here)
    /\ Goto(IF opt = <<>> \/ Len(opt) >= MAX_OPT_LEN THEN "failed"
            ELSE "equals")
    /\ UNCHANGED <<text, line_pos, opt, param, closing, session, applied>>

CheckEquals ==
    /\ pc = "equals"
    /\ ~IsSpace(Here) /\ line_pos < Size
    /\ Goto(IF Here = "=" THEN "value" ELSE "failed")
    /\ Advance
    /\ UNCHANGED <<text, opt, param, closing, session, applied>>

BeginValue ==
    /\ pc = "value"
    /\ ~IsSpace(Here) /\ line_pos < Size
    /\ param' = <<>>
    /\ \/ IsQuote(Here) /\ Goto("quoted") /\ closing' = Here /\ Advance
       \/ Here = "{" /\ Goto("braces") /\ closing' = "}" /\ Advance
       \/ /\ ~IsQuote(Here) /\ Here # "{"
          /\ Goto("plain") /\ Keep
          /\ UNCHANGED closing
    /\ UNCHANGED <<text, opt, session, applied>>

\* Seeded bug: the end of the text is not looked at.
GoesOn == Len(param) < MAX_PARAM_LEN /\ (pc = "quoted" => Here # Nl)

\* Seeded bug: a value in quotes goes on behind the end of its line.
GoesOnBelow == Len(param) < MAX_PARAM_LEN /\ line_pos < Size

\* A value in quotes stays on its line, one in braces may have many.
MayRead ==
    /\ Len(param) < MAX_PARAM_LEN
    /\ line_pos < Size
    /\ pc = "quoted" => Here # Nl

ReadValue ==
    /\ pc \in {"quoted", "braces"}
    /\ MayRead /\ Here # closing
    /\ param' = Append(param, Here)
    /\ Advance
    /\ UNCHANGED <<text, pc, opt, closing, session, applied>>

EndValue ==
    /\ pc \in {"quoted", "braces"}
    /\ \/ MayRead /\ Here = closing /\ Goto("set") /\ Advance
       \/ ~MayRead /\ Goto("failed") /\ Keep
    /\ UNCHANGED <<text, opt, param, closing, session, applied>>

ReadPlain ==
    /\ pc = "plain"
    /\ IsPlainChar(Here)
    /\ param' = Append(param, Here)
    /\ Advance
    /\ Goto(IF Len(param) + 1 >= MAX_PARAM_LEN THEN "failed" ELSE "plain")
    /\ UNCHANGED <<text, opt, closing, session, applied>>

EndPlain ==
    /\ pc = "plain"
    /\ ~IsPlainChar(Here)
    /\ Goto("set")
    /\ UNCHANGED <<text, line_pos, opt, param, closing, session, applied>>

Set ==
    /\ pc = "set"
    /\ LET name == Known(opt) IN
       \/ /\ AssertionFails(name, param)
          /\ Goto("aborted")
          /\ UNCHANGED session
       \/ /\ Overruns(name, param)
          /\ Goto("overrun")
          /\ UNCHANGED session
       \/ /\ LacksNumber(name, param)
          /\ Goto("stray")
          /\ UNCHANGED session
       \/ /\ IsRefused(name, param) /\ ~Overruns(name, param)
          /\ Goto("failed")
          /\ UNCHANGED session
       \/ /\ ~LacksNumber(name, param) /\ ~IsRefused(name, param)
          /\ ~Overruns(name, param)
          /\ session' = set_option(session, name, param)
          /\ Goto("start")
    /\ applied' = Append(applied, [opt |-> opt, param |-> param])
    /\ UNCHANGED <<text, line_pos, opt, param, closing>>

\* parse_config_file has returned.
Returned == pc \in Final /\ UNCHANGED vars

Init ==
    /\ \E i \in Inputs : file = i.text /\ meant = i.meant
    /\ pc = "open"
    /\ line_pos = 0
    /\ opt = <<>> /\ param = <<>>
    /\ closing = NUL
    /\ session = session_init
    /\ applied = <<>>

Next ==
    \/ Open \/ SkipWhitespace \/ EndOfFile \/ BeginComment \/ SkipComment
    \/ BeginOption \/ ReadOption \/ EndOption \/ CheckEquals
    \/ BeginValue \/ ReadValue \/ EndValue \/ ReadPlain \/ EndPlain \/ Set
    \/ Returned

Spec == Init /\ [][Next]_vars

-----------------------------------------------------------------------------
(***************************************************************************)
(* The language, said without a scanner.  A piece of a text is blank, or a *)
(* comment, or it sets an option; a text means what its pieces set.        *)
(***************************************************************************)
All(piece, Is(_)) == \A k \in 1..Len(piece) : Is(piece[k])

IsBlank(piece) == All(piece, IsSpace)

IsComment(piece) ==
    /\ Begins(piece, "#")
    /\ Last(piece) = Nl
    /\ \A k \in 1..Len(piece) - 1 : piece[k] # Nl

IsName(piece) ==
    piece # <<>> /\ Len(piece) < MAX_OPT_LEN /\ All(piece, IsOptionChar)

\* The value a piece stands for, in a set that is empty if it is none; next
\* is the character that follows the piece.
ValueOf(piece, next) ==
    LET n == Len(piece)
        inside == SubSeq(piece, 2, n - 1)
        without(c) == \A k \in 1..Len(inside) : inside[k] # c
    IN  IF n >= 2 /\ IsQuote(piece[1]) /\ piece[n] = piece[1]
             /\ without(piece[1]) /\ without(Nl)
             /\ Len(inside) < MAX_PARAM_LEN
        THEN {inside}
        ELSE IF n >= 2 /\ piece[1] = "{" /\ piece[n] = "}"
                  /\ without("}") /\ Len(inside) < MAX_PARAM_LEN
        THEN {inside}
        ELSE IF All(piece, IsPlainChar) /\ ~IsPlainChar(next)
                  /\ (n = 0 => next \in {"#", Control})
                  /\ ~(n > 0 /\ (IsQuote(piece[1]) \/ piece[1] = "{"))
                  /\ n < MAX_PARAM_LEN
        THEN {piece}
        ELSE {}

\* The settings that a piece stands for: name, blanks, =, blanks, value.
SettingOf(piece, next) ==
    LET n == Len(piece)
        heads == {h \in (1..n) \X (1..n) :
                    /\ h[1] < h[2] /\ piece[h[2]] = "="
                    /\ IsName(SubSeq(piece, 1, h[1]))
                    /\ IsBlank(SubSeq(piece, h[1] + 1, h[2] - 1))}
        starts(e) == {v \in e + 1..n + 1 :
                        /\ IsBlank(SubSeq(piece, e + 1, v - 1))
                        /\ v <= n => ~IsSpace(piece[v])}
    IN  UNION {UNION {{[opt |-> SubSeq(piece, 1, h[1]), param |-> p] :
                         p \in ValueOf(SubSeq(piece, v, n), next)} :
                      v \in starts(h[2])} : h \in heads}

\* The rest of a file that ends before there is a value.
IsUnfinished(piece) ==
    \/ piece = <<>>
    \/ \E a \in 1..Len(piece) :
         /\ IsName(SubSeq(piece, 1, a))
         /\ LET rest == SubSeq(piece, a + 1, Len(piece)) IN
            \/ IsBlank(rest)
            \/ \E e \in 1..Len(rest) :
                 /\ rest[e] = "="
                 /\ IsBlank(SubSeq(rest, 1, e - 1))
                 /\ IsBlank(SubSeq(rest, e + 1, Len(rest)))

\* What the first n characters of the file may stand for, pieces end there.
Readings ==
    LET next(n) == IF n < Size THEN file[n + 1] ELSE NUL
        With(s, piece, n) ==
            (IF IsBlank(piece) \/ IsComment(piece) THEN {s} ELSE {})
              \cup {Append(s, x) : x \in SettingOf(piece, next(n))}
        Read[n \in 0..Size] ==
            IF n = 0 THEN {<<>>}
            ELSE UNION {UNION {With(s, SubSeq(file, m + 1, n), n) :
                                 s \in Read[m]} : m \in 0..n - 1}
    IN  Read

\* What the file may stand for when it ends in such a rest.
Meanings(IsRest(_)) ==
    UNION {Readings[n] : n \in {m \in 0..Size :
                                  IsRest(SubSeq(file, m + 1, Size))}}

IsOpenComment(piece) ==
    Begins(piece, "#") /\ \A k \in 1..Len(piece) : piece[k] # Nl

-----------------------------------------------------------------------------
(***************************************************************************)
(* Properties.                                                             *)
(***************************************************************************)
Uint8  == 0..255
Int16  == -32768..32767
Uint16 == 0..65535
Ports  == 1025..65534

\* The numbers of a session fit the widths of its fields, what is in the
\* buffers fits theirs, a NUL behind a value included, and the switches are
\* 0 or 1.
TypeOK ==
    /\ pc \in Final \cup {"open", "start", "comment", "option", "equals",
                          "value", "quoted", "braces", "plain", "set"}
    /\ line_pos \in Nat
    /\ Len(opt) <= MAX_OPT_LEN + 1
    /\ Len(param) <= MAX_PARAM_LEN
    /\ session.check_interval \in Uint8
    /\ session.upspeed \in Int16
    /\ session.rpc_port \in Uint16
    /\ session.use_transmission \in {0, 1}
    /\ session.start_torrent \in {0, 1}

\* The scanner does not leave the text (config_parser.c:654), but for two
\* places: a comment that the end of the file cuts off (:591), and an option
\* that wants a number and has no text at all (:143).  It does not write
\* behind its buffers, but for a name of MAX_OPT_LEN + 2 characters or more
\* (:603), and a path that is too long for that of utils.c:164.
StaysInside ==
    /\ line_pos <= Size
    /\ pc = "stray" =>
         \/ /\ line_pos = Size
            /\ \E k \in 1..Size : IsOpenComment(SubSeq(file, k, Size))
         \/ LacksNumber(Known(Last(applied).opt), Last(applied).param)
    /\ pc = "overrun" =>
         \/ /\ line_pos > MAX_OPT_LEN /\ line_pos < Size
            /\ All(SubSeq(file, line_pos - MAX_OPT_LEN, line_pos + 1),
                   IsOptionChar)
         \/ Overruns(Known(Last(applied).opt), Last(applied).param)

\* What the parser says of itself: a name that is too long is an error
\* (config_parser.c:605), and of an error -1 is returned (:530).
LongNamesAreErrors ==
    pc \in Final /\ Len(opt) >= MAX_OPT_LEN => pc = "failed"

\* What the scanner finds in a file is what the grammar finds in it: where
\* it returns 0, also if the last option is not finished (:643), the text
\* has one meaning and no other, and what was set is just that, in its
\* order; it returns -1 for no other reason than that the text has no
\* meaning or that an option refuses its value.
ParsesAsGrammar ==
    Size <= GrammarSize =>
        /\ pc = "done" => Meanings(IsUnfinished) = {applied}
        /\ pc = "stray" /\ Here = NUL =>
             \/ Meanings(IsOpenComment) = {applied}
             \/ LacksNumber(Known(Last(applied).opt), Last(applied).param)
        /\ pc = "failed" =>
             \/ Meanings(IsUnfinished) = {}
             \/ /\ applied # <<>>
                /\ IsRefused(Known(Last(applied).opt), Last(applied).param)

\* A session that is written down as a configuration file, with whatever
\* quotes, blanks, comments, order and line breaks, comes back from it.
\* Feeds and filters come back in the reverse order (list.c:178).
WrittenIsRead ==
    meant # NoMeaning /\ pc \in Final \ {"unread"} =>
        pc = "done" /\ session = meant

\* Where set_option was given such a number for an option.
Given(name, numbers) ==
    {k \in DOMAIN applied : /\ applied[k].opt = <<name>>
                            /\ parseUInt(applied[k].param) \in numbers}

\* The value is the last of them, as a field of so many values keeps it, or
\* the default if there is none.
IsLast(value, given, default, width) ==
    \/ given = {} /\ value = default
    \/ \E k \in given :
          /\ \A j \in given : j <= k
          /\ value % width = parseUInt(applied[k].param) % width

\* The session holds the last number the file gives an option, and its
\* default if there is none.  A number that does not fit is cut to the width
\* of its field: an interval of 256 minutes is none (config_parser.c:469), a
\* limit of 32768 no limit (:453).  A port that is not in Ports changes
\* nothing, although a message speaks of 65535 and of the default (:462).
NumbersAreKept ==
    pc = "done" =>
      /\ session.check_interval \in Uint8 /\ session.upspeed \in Int16
      /\ IsLast(session.check_interval, Given("interval", Nat), 30, 256)
      /\ IsLast(session.upspeed, Given("upload-limit", Nat), -1, 65536)
      /\ IsLast(session.rpc_port, Given("rpc-port", Ports), 9091, 65536)

\* Every step scans a character or, where it looks at one again, comes
\* closer to one that does: no file keeps parse_config_file in its loops.
Rank == [open |-> 0, value |-> 1, quoted |-> 2, braces |-> 2, plain |-> 2,
         set |-> 3, start |-> 4, comment |-> 5, option |-> 5, equals |-> 6,
         done |-> 7, failed |-> 7, unread |-> 7, stray |-> 7,
         overrun |-> 7, aborted |-> 7]

ScansForward ==
    [][\/ line_pos' > line_pos
       \/ line_pos' = line_pos /\ Rank[pc'] > Rank[pc]]_vars
=============================================================================
