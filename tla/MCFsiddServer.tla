--------------------------- MODULE MCFsiddServer ---------------------------
(* FsiddServer with a handful of connections. *)
EXTENDS FsiddServer

CONSTANTS c1, c2

MCConns == {c1, c2}
OneConn == {c1}
=============================================================================
