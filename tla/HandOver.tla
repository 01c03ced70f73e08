------------------------------ MODULE HandOver ------------------------------
(***************************************************************************)
(* What handing a torrent over to Transmission promises, however many      *)
(* requests it takes and whatever becomes of them.  Transmission takes the *)
(* torrent that is offered, whole and unchanged, once or not at all.       *)
(* "added" is reported only if it was taken in this very call, "duplicate" *)
(* only if it was there before; an error may be reported in any case, for  *)
(* an answer can be lost.  The feed check of module Automatic takes this   *)
(* for granted.                                                            *)
(***************************************************************************)
EXTENDS Integers

CONSTANTS Torrents, Nothing

VARIABLES
    held,      \* what Transmission holds
    offered,   \* the torrent being handed over, or Nothing
    taken,     \* whether Transmission took it in this call
    reported   \* the last result: 1 added, 0 duplicate, -1 error

vars == <<held, offered, taken, reported>>

Init ==
    /\ held = {}
    /\ offered = Nothing
    /\ taken = FALSE
    /\ reported = -1

Offer(t) ==
    /\ offered = Nothing
    /\ offered' = t
    /\ taken' = FALSE
    /\ UNCHANGED <<held, reported>>

Take ==
    /\ offered # Nothing
    /\ offered \notin held
    /\ held' = held \cup {offered}
    /\ taken' = TRUE
    /\ UNCHANGED <<offered, reported>>

Report(result) ==
    /\ offered # Nothing
    /\ result = 1 => taken
    /\ result = 0 => offered \in held /\ ~taken
    /\ reported' = result
    /\ offered' = Nothing
    /\ taken' = FALSE
    /\ UNCHANGED held

\* An error before there is anything to offer: no download, no daemon.
Fail ==
    /\ offered = Nothing
    /\ reported' = -1
    /\ UNCHANGED <<held, offered, taken>>

Next ==
    \/ Take \/ Fail
    \/ \E t \in Torrents : Offer(t)
    \/ \E r \in -1..1 : Report(r)
Spec == Init /\ [][Next]_vars
=============================================================================
