---------------------------- MODULE UrlRewriting ----------------------------
(***************************************************************************)
(* Regular expressions and URLs as the daemon uses them: src/regex.c,      *)
(* url_encode_whitespace of src/urlcode.c and the file names of            *)
(* src/torrent.c.  A text is a sequence of strings, most of them one       *)
(* character; the empty text stands for NULL too, since am_strdup makes    *)
(* NULL of it.  What a pattern matches is a matter of PCRE: two constant   *)
(* operators say it.                                                       *)
(***************************************************************************)
EXTENDS Integers, Sequences, SequencesExt

CONSTANTS
    MAX_SUBST_LEN,
    Matches(_, _),      \* Matches(p, s): pcre_exec finds p in s
    Captures(_, _)      \* Captures(p, s): the texts of the groups of p in s,
                        \* as far as pcre_exec counts them; <<>> if p does
                        \* not match, or captures nothing

ASSUME SubstAssumption == MAX_SUBST_LEN \in Nat

NULL      == <<>>
Backslash == "\\"
Digits    == [d \in {"0", "1", "2", "3", "4", "5", "6", "7", "8", "9"} |->
                 CASE d = "0" -> 0 [] d = "1" -> 1 [] d = "2" -> 2
                   [] d = "3" -> 3 [] d = "4" -> 4 [] d = "5" -> 5
                   [] d = "6" -> 6 [] d = "7" -> 7 [] d = "8" -> 8
                   [] d = "9" -> 9]
IsDigit(c) == c \in DOMAIN Digits

isRegExMatch(pattern, str) == str # NULL /\ Matches(pattern, str)

-----------------------------------------------------------------------------
(***************************************************************************)
(* performRegexReplace.  What its loop writes, in its order, and two marks *)
(* among it: FAIL where fail is set, and STOP where the loop ends for it.  *)
(* (What stands behind a STOP is not written.)                             *)
(***************************************************************************)
FAIL == "FAIL"
STOP == "STOP"
NUL  == ""
Text == Seq(STRING \ {FAIL, STOP, NUL})

\* What is returned by nobody: memory behind the buffer was written.
OVERRUN == <<FAIL>>

MAX_IDX_LEN == 5

\* What stands at a place of the text, or right behind it.
CharAt(t, pos) == IF pos \in DOMAIN t THEN <<t[pos]>> ELSE <<NUL>>

\* The digits from a place on.
RunOfDigits(t, pos) ==
    LET ends == {p \in pos - 1..Len(t) : \A q \in pos..p : IsDigit(t[q])}
    IN  SubSeq(t, pos, CHOOSE p \in ends : \A q \in ends : q <= p)

atoi(digits) == FoldLeft(LAMBDA n, d : 10 * n + Digits[d], 0, digits)

\* The group a placeholder stands for.
Group(groups, digits) ==
    IF atoi(digits) \in 1..99 /\ atoi(digits) <= Len(groups)
    THEN groups[atoi(digits)]
    ELSE <<STOP>>

\* Seeded bug: a placeholder has one digit.
FirstDigit(t, pos) ==
    LET run == RunOfDigits(t, pos) IN SubSeq(run, 1, Min({1, Len(run)}))

\* The digits that fit into index.
IndexAt(t, pos) ==
    LET run == RunOfDigits(t, pos)
    IN  SubSeq(run, 1, Min({MAX_IDX_LEN - 1, Len(run)}))

IsTooLong(t, pos) == Len(RunOfDigits(t, pos)) > MAX_IDX_LEN - 1

\* What is put for the backslash at a place and the digits behind it, and the
\* place behind those.
PutFor(replace, groups, pos) ==
    IF IndexAt(replace, pos + 1) = <<>> THEN <<Backslash>>
    ELSE (IF IsTooLong(replace, pos + 1) THEN <<FAIL>> ELSE <<>>)
           \o Group(groups, IndexAt(replace, pos + 1))

After(replace, pos) == pos + 1 + Len(IndexAt(replace, pos + 1))

\* The loop from pos on.  A backslash before anything but a digit is kept with
\* what it precedes; what follows a placeholder is copied as it is, be it a
\* backslash.  What is copied may be the NUL behind the text.
Substitute(replace, groups) ==
    LET substitute[pos \in 1..Len(replace) + 2] ==
          IF pos > Len(replace) THEN <<>>
          ELSE IF replace[pos] # Backslash
          THEN CharAt(replace, pos) \o substitute[pos + 1]
          ELSE PutFor(replace, groups, pos)
                 \o CharAt(replace, After(replace, pos))
                 \o substitute[After(replace, pos) + 1]
    IN  substitute[1]

IsMarked(made, mark) == \E k \in DOMAIN made : made[k] = mark

\* How many characters of it are written.
Size(made) ==
    Cardinality({k \in DOMAIN made : /\ made[k] # FAIL
                                     /\ \A j \in 1..k : made[j] # STOP})

\* The text in the buffer, without a NUL at its end.
WithoutNUL(made) ==
    IF made # <<>> /\ Last(made) = NUL THEN Front(made) ELSE made

\* Nothing compares the characters with the buffer, which has MAX_SUBST_LEN
\* places and needs one more for a NUL.
performRegexReplace(str, pattern, replace) ==
    LET groups == Captures(pattern, str)
        made   == Substitute(replace, groups)
    IN  IF NULL \in {str, pattern, replace} \/ groups = <<>> THEN NULL
        ELSE IF Size(made) >= MAX_SUBST_LEN THEN OVERRUN
        ELSE IF IsMarked(made, FAIL) \/ IsMarked(made, STOP) THEN NULL
        ELSE WithoutNUL(made)

\* What it is for.  A replacement is put together from words: a character, a
\* backslash with one that is no digit, or a placeholder.  (A placeholder takes
\* every digit behind it, and a backslash right behind one stays a backslash,
\* as does one at the end.)
IsEscape(word) == Len(word) = 2 /\ word[1] = Backslash /\ ~IsDigit(word[2])

IsPlaceholder(word) ==
    /\ Len(word) \in 2..MAX_IDX_LEN
    /\ word[1] = Backslash
    /\ \A n \in 2..Len(word) : IsDigit(word[n])

IsClean(words) ==
    \A k \in DOMAIN words :
       \/ Len(words[k]) = 1 /\ (words[k][1] # Backslash \/ k = Len(words))
       \/ IsEscape(words[k])
       \/ /\ IsPlaceholder(words[k])
          /\ k < Len(words) => /\ words[k + 1][1] # Backslash
                               /\ ~IsDigit(words[k + 1][1])

\* It asks for a group there is not.
IsBad(word, groups) ==
    /\ IsPlaceholder(word)
    /\ atoi(Tail(word)) \notin (1..99) \cap (1..Len(groups))

SomeBad(words, k, groups) == \E j \in 1..k : IsBad(words[j], groups)

\* What becomes of the words, up to a bad one.
Put(words, groups) ==
    FlattenSeq([k \in DOMAIN words |->
                  IF SomeBad(words, k, groups) THEN <<>>
                  ELSE IF IsPlaceholder(words[k])
                  THEN groups[atoi(Tail(words[k]))]
                  ELSE words[k]])

\* The NUL behind the text is written with the last word.
TakesNUL(words, groups) ==
    LET last == words[Len(words)]
    IN  /\ ~SomeBad(words, Len(words), groups)
        /\ IsPlaceholder(last) \/ last = <<Backslash>>

Replacement(words, groups) ==
    LET room == Len(Put(words, groups))
                  + (IF TakesNUL(words, groups) THEN 1 ELSE 0)
    IN  IF room >= MAX_SUBST_LEN THEN OVERRUN
        ELSE IF SomeBad(words, Len(words), groups) THEN NULL
        ELSE Put(words, groups)

-----------------------------------------------------------------------------
(***************************************************************************)
(* URLs and file names.                                                    *)
(***************************************************************************)
isMagnetURI(url) == url # NULL /\ Head(url) = "magnet:"

url_encode_whitespace(str) ==
    FlattenSeq([k \in DOMAIN str |->
                  IF str[k] = " " THEN <<"%", "2", "0">> ELSE <<str[k]>>])

\* The last piece of a URL between slashes, as strtok finds it.
LastPiece(url) ==
    LET last  == SelectLastInSeq(url, LAMBDA c : c # "/")
        slash == SelectLastInSubSeq(url, 1, last, LAMBDA c : c = "/")
    IN  SubSeq(url, slash + 1, last)

get_filename(content_filename, url, t_folder) ==
    t_folder \o <<"/">> \o
      (IF content_filename # NULL THEN content_filename ELSE LastPiece(url))
=============================================================================
