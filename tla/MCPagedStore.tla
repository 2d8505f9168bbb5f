---------------------------- MODULE MCPagedStore ----------------------------
(* PagedStore on a file of a few pages.                                    *)
EXTENDS PagedStore, TLC
=============================================================================
