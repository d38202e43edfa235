----------------------------- MODULE MCWatcher -----------------------------
(***************************************************************************)
(* Instances of Watcher for TLC.                                           *)
(***************************************************************************)
EXTENDS Watcher

\* An empty list, a short one, and one that ends with an incomplete batch of two.
MCLists == {<<>>, <<"b">>, <<"a", "b", "c">>}
\* One batch of the default size.
MCFullBatch == {<<"a", "b", "c", "d">>}
=============================================================================
