--------------------------- MODULE MCSliceStorage ---------------------------
(* Instances of SliceStorage for TLC.                                       *)
EXTENDS SliceStorage, TLC

Sub(url, filter) ==
    [URL |-> url, Filter |-> filter, ContentType |-> <<>>, UseChrome |-> FALSE, Interval |-> 1]

\* Two whose joined texts are the same, and a third with the URL of the first.
s1 == Sub(<<"a">>, <<"b">>)
s2 == Sub(<<"a", "b">>, <<>>)
s3 == Sub(<<"a">>, <<"c">>)
MCSubscriptions == {s1, s2, s3}

\* Nothing, one and three subscriptions, with a free element behind them.
MCLists == {Literal(<<>>),
            [arrays |-> <<<<s1, s3>>>>, len |-> 1],
            [arrays |-> <<<<s2, s3, s1, Nil>>>>, len |-> 3]}

MCSymmetry == Permutations(Emails)
=============================================================================
