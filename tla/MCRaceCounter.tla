---------------------------- MODULE MCRaceCounter ----------------------------
(* No increments, some, and more than an int of this size counts to.       *)
EXTENDS RaceCounter

SomeArguments == {-1, 0, 3, 4}
=============================================================================
