---------------------------- MODULE MCThreadPool ----------------------------
(* ThreadPool with a few threads; the limits are pairs, which a             *)
(* configuration cannot write.                                              *)
EXTENDS ThreadPool, TLC

MCLimits == {<<1, 2>>, <<2, 2>>}
=============================================================================
