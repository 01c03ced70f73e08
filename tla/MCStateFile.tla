---------------------------- MODULE MCStateFile ----------------------------
(***************************************************************************)
(* An instance of StateFile: an id that fits a line, one that is too long  *)
(* and has a line break in it, so that it comes back as three, and an      *)
(* empty one.                                                              *)
(***************************************************************************)
EXTENDS StateFile

MCGuids == {<<"a", "b">>, <<"a", "b", "c", Nl>>, <<>>}
=============================================================================
