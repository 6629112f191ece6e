---------------------------- MODULE MCShimCollect ----------------------------
(***************************************************************************)
(* A small log for ShimCollect.                                            *)
(***************************************************************************)
EXTENDS ShimCollect, TLC

CONSTANT MaxLines   \* bound: lines in the log

\* No action tells one entry from another, and nothing here is a liveness
\* property.
Symmetric == Permutations(Entries)

LogIsShort == Len(rawLog) <= MaxLines

=============================================================================
