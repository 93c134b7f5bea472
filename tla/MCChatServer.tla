---------------------------- MODULE MCChatServer ----------------------------
(* Two to four users, of whom the second may type, or does type, the name  *)
(* of the first.  Names are numbered in the order of the map's keys.       *)
EXTENDS ChatServer

TwoConns == 1 .. 2
ThreeConns == 1 .. 3
FourConns == 1 .. 4
SomeNames == <<{2}, {1, 2}, {3}>>
TwoNames == <<{2}, {1}>>
OneName == <<{1}, {1}>>
SameName == <<{1}, {1}, {2}, {3}>>
=============================================================================
