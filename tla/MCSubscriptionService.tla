----------------------- MODULE MCSubscriptionService -----------------------
(***************************************************************************)
(* Instances of SubscriptionService for TLC.                               *)
(***************************************************************************)
EXTENDS SubscriptionService, TLC

Sub(url, useChrome, interval) ==
    [URL |-> <<url>>, Filter |-> <<>>, ContentType |-> <<>>,
     UseChrome |-> useChrome, Interval |-> interval]

\* Two equal subscriptions with different intervals, and another one.
MCSubscriptions == {Sub("a", FALSE, 1), Sub("a", FALSE, 2), Sub("a", TRUE, 1)}

\* Different subscriptions only, one more than a subscriber may have at most.
MCDistinct == {Sub("a", FALSE, 1), Sub("b", FALSE, 1), Sub("c", FALSE, 1)}

\* AddSubscriber requests for the default limit and for no limit.
MCLimits == {-1, 0}
MCDefaultLimit == {0}

MCSymmetry ==
    Permutations(Callers) \cup Permutations(Emails) \cup Permutations(Addrs)
=============================================================================
