----------------------------- MODULE MCLruCache -----------------------------
(* A small instance of LruCache for TLC. *)
EXTENDS LruCache, TLC
=============================================================================
