--------------------------- MODULE DurableHistory ---------------------------
(***************************************************************************)
(* What the daemon promises about its download history, whatever stops or  *)
(* restarts it: a history that survives every process, holds no id twice,  *)
(* and changes only by one new id at a time, at its front, which may cost  *)
(* it the oldest entry.  Nothing else is ever forgotten, or learned.       *)
(***************************************************************************)
EXTENDS Naturals, Sequences

CONSTANT Ids            \* the ids of the torrents there are
VARIABLE history        \* the ids remembered, newest first

Forgets(id) == \A k \in 1..Len(history) : history[k] # id

Remember(id) ==
    /\ Forgets(id)
    /\ \/ history' = <<id>> \o history
       \/ history' = SubSeq(<<id>> \o history, 1, Len(history))

Init == history = <<>>
Next == \E id \in Ids : Remember(id)
Spec == Init /\ [][Next]_history
=============================================================================
