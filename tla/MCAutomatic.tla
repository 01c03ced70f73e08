---------------------------- MODULE MCAutomatic ----------------------------
(***************************************************************************)
(* Small instances of Automatic for TLC: streams of one to four items,     *)
(* with and without guid, torrents and magnet links, wanted or not.        *)
(***************************************************************************)
EXTENDS Automatic

Item(guid, url, magnet, wanted) ==
    [guid |-> guid, url |-> url, magnet |-> magnet, wanted |-> wanted]

a1 == Item("g1", "u1", FALSE, TRUE)
a2 == Item(NoGUID, "u2", TRUE, TRUE)
a3 == Item("g3", "u3", FALSE, TRUE)
a4 == Item("g4", "u4", FALSE, TRUE)
c  == Item("g5", "u5", FALSE, FALSE)

\* One feed with a torrent and a magnet link, with an item that no filter
\* matches in addition, or with more torrents.
OneFeed    == {"f"}
TwoItems   == [f \in OneFeed |-> <<a1, a2>>]
SomeItems  == [f \in OneFeed |-> <<a1, c, a2, a3>>]
FourItems  == [f \in OneFeed |-> <<a1, a2, a3, a4>>]
ConfigOne  == {<<"f">>}

\* Two feeds; the configuration names one of them or both.  No filter matches
\* what the second one has.
TwoFeeds   == {"f", "g"}
FourAndOne == [f \in TwoFeeds |-> IF f = "f" THEN FourItems["f"] ELSE <<c>>]
ConfigAny  == {<<"f">>, <<"f", "g">>}

ItemsOf(stream) == UNION {Elements(stream[f]) : f \in DOMAIN stream}
ItemsTwo   == ItemsOf(TwoItems)
ItemsSome  == ItemsOf(SomeItems)
ItemsBoth  == ItemsOf(FourAndOne)

Args(match_only, once, xmlfile) ==
    [match_only |-> match_only, once |-> once, xmlfile |-> xmlfile]

Daemon  == {Args(FALSE, FALSE, NoFile)}
AnyArgv == {Args(FALSE, FALSE, NoFile), Args(TRUE, FALSE, NoFile),
            Args(FALSE, TRUE, NoFile), Args(FALSE, FALSE, "f")}

NoFaults    == {}
Kills       == {"kill"}
SaveTrouble == {"open", "write", "load"}
AllFaults   == FaultKinds
=============================================================================
