--------------------------- MODULE MCSiteArchive ---------------------------
(* Instances of SiteArchive for TLC.                                        *)
EXTENDS SiteArchive, TLC

CONSTANTS u1, u2

\* Two texts, one of them rendered with two different whitespaces.
MCContents == {[text |-> "a", space |-> 0], [text |-> "a", space |-> 1],
               [text |-> "b", space |-> 0]}

\* The updaters behave alike.
MCSymmetry == Permutations({u1, u2})
=============================================================================
