---------------------------- MODULE MCFsiddReply ----------------------------
(* FsiddReply with two connections, of which one or both create FSIDs. *)
EXTENDS FsiddReply, TLC

CONSTANTS c1, c2, p1, p2, e1, e2

TwoConns == {c1, c2}
OneCreator == {c1}
TwoPaths == {p1, p2}
TwoErrors == {e1, e2}
OnePath == {p1}
OneError == {e1}
MCFsidOf == [p \in Paths |-> IF p = p1 THEN 1 ELSE 2]
=============================================================================
