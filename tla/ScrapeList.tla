----------------------------- MODULE ScrapeList -----------------------------
(***************************************************************************)
(* GenerateScrapeList (watcher/watcher.go): the loops that go through the   *)
(* subscriptions of all subscribers and collect the list to scrape, without *)
(* duplicates.                                                             *)
(*                                                                         *)
(* GetSubscribers copies one subscriber after the other, with the slice of  *)
(* its subscriptions.  The slice keeps its length, but the storage may       *)
(* overwrite its elements at any time; SliceStorage says when it does.       *)
(***************************************************************************)
EXTENDS Integers, Sequences, Subscription

CONSTANT Subscriptions  \* the subscriptions there are

VARIABLES
    subscribers,    \* for each subscriber copied, the elements of its slice
    got,            \* GetSubscribers has returned
    i, j,           \* the subscription looked at: number j of subscriber i
    siteSet,        \* the keys seen so far
    subscriptions,  \* the scrape list
    looked          \* the subscriptions looked at (history)

loops == <<i, j, siteSet, subscriptions, looked>>
vars == <<subscribers, got, loops>>

Init ==
    /\ subscribers = <<>>
    /\ got = FALSE
    /\ i = 1
    /\ j = 1
    /\ siteSet = {}
    /\ subscriptions = <<>>
    /\ looked = {}

\* GetSubscribers: the next subscriber is copied.
Copied ==
    /\ ~ got
    /\ subscribers' \in Seq(Seq(Subscriptions))
    /\ Len(subscribers') = Len(subscribers) + 1
    /\ \A h \in DOMAIN subscribers : subscribers'[h] = subscribers[h]
    /\ UNCHANGED <<got, loops>>

GotSubscribers ==
    /\ ~ got
    /\ got' = TRUE
    /\ UNCHANGED <<subscribers, loops>>

\* The storage overwrites elements of the slices.
Overwritten ==
    /\ subscribers' \in Seq(Seq(Subscriptions))
    /\ Len(subscribers') = Len(subscribers)
    /\ \A h \in DOMAIN subscribers : Len(subscribers'[h]) = Len(subscribers[h])
    /\ UNCHANGED <<got, loops>>

\* The loops are over.
Returned == got /\ i > Len(subscribers)

Looking == got /\ i <= Len(subscribers) /\ j <= Len(subscribers[i])

NextSubscriber ==
    /\ got
    /\ i <= Len(subscribers)
    /\ j > Len(subscribers[i])
    /\ i' = i + 1
    /\ j' = 1
    /\ UNCHANGED <<subscribers, got, siteSet, subscriptions, looked>>

Look ==
    /\ j' = j + 1
    /\ looked' = looked \cup {subscribers[i][j]}
    /\ UNCHANGED <<subscribers, got, i>>

\* Mutant: the key is not remembered.
CollectAgain ==
    /\ Looking
    /\ DedupKey(subscribers[i][j]) \notin siteSet
    /\ Look
    /\ subscriptions' = Append(subscriptions, subscribers[i][j])
    /\ UNCHANGED siteSet

\* A key not seen before.
Collect ==
    /\ Looking
    /\ DedupKey(subscribers[i][j]) \notin siteSet
    /\ Look
    /\ subscriptions' = Append(subscriptions, subscribers[i][j])
    /\ siteSet' = siteSet \cup {DedupKey(subscribers[i][j])}

Skip ==
    /\ Looking
    /\ DedupKey(subscribers[i][j]) \in siteSet
    /\ Look
    /\ UNCHANGED <<siteSet, subscriptions>>

Next == Copied \/ GotSubscribers \/ Overwritten \/ NextSubscriber \/ Collect \/ Skip

Spec == Init /\ [][Next]_vars
----------------------------------------------------------------------------
\* No two entries of the list have the same key: however many subscribers share a
\* site, and whatever the storage overwrites meanwhile, a round scrapes it once.
ScrapedOnce ==
    \A m, n \in DOMAIN subscriptions :
        DedupKey(subscriptions[m]) = DedupKey(subscriptions[n]) => m = n

Texts(s)  == <<s.URL, s.Filter, s.ContentType>>
Joined(s) == s.URL \o s.Filter \o s.ContentType

\* For every subscription looked at, the list has an entry whose three texts are the
\* same when joined (watcher.go:98), and one with its very texts, unless another that
\* was looked at has different texts that are the same when joined.  Of two such the
\* second is left out of every round, although Equals (subscription.go:16) tells them
\* apart, and so does PostgreSQL; and of two that differ in UseChrome, the second.
AllScraped ==
    \A s \in looked : \E n \in DOMAIN subscriptions :
        /\ Joined(subscriptions[n]) = Joined(s)
        /\ \/ Texts(subscriptions[n]) = Texts(s)
           \/ \E t \in looked : Joined(t) = Joined(s) /\ Texts(t) # Texts(s)

\* The types, where the loops are, and what siteSet has to do with the list.
ScrapeListInv ==
    /\ subscribers \in Seq(Seq(Subscriptions))
    /\ i \in Nat \ {0}
    /\ j \in Nat \ {0}
    /\ subscriptions \in Seq(Subscriptions)
    /\ looked \subseteq Subscriptions
    /\ siteSet = {DedupKey(subscriptions[n]) : n \in DOMAIN subscriptions}
=============================================================================
