-------------------------- MODULE MCUpstreamClient --------------------------
(* Small instances of UpstreamClient for TLC. *)
EXTENDS UpstreamClient, TLC
=============================================================================
