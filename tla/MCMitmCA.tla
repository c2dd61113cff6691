------------------------------ MODULE MCMitmCA -------------------------------
(* Two handshakes at a time over more hosts than the cache holds.          *)
EXTENDS MitmCA
=============================================================================
