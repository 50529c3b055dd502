------------------------------ MODULE MCReview -------------------------------
(***************************************************************************)
(* Two Resolvers over a queue that is new, or holds a column from before.  *)
(***************************************************************************)
EXTENDS Review

CONSTANTS tables, feeds, colX, colY

NewOrUsed == {<<>>, <<colX>>}
==============================================================================
