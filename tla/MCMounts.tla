------------------------------ MODULE MCMounts ------------------------------
(* A small set of mounts for model checking. *)
EXTENDS MountStats

\* Two mounts that share a superblock, and another of the same server.
MCRemoteFs == [p |-> "f", q |-> "f", r |-> "g"]
MCServerOf == [p |-> "a", q |-> "a", r |-> "a"]
=============================================================================
