-------------------------- MODULE MCBoundedChannel --------------------------
(* BoundedChannel on a few threads.                                        *)
EXTENDS BoundedChannel, TLC
=============================================================================
