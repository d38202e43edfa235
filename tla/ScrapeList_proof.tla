-------------------------- MODULE ScrapeList_proof --------------------------
(***************************************************************************)
(* Proofs about ScrapeList, for any subscriptions, any number of            *)
(* subscribers, and whatever the storage overwrites meanwhile.              *)
(***************************************************************************)
EXTENDS ScrapeList, TLAPS

\* The keys of a list.
Keys(list) == {DedupKey(list[n]) : n \in DOMAIN list}

\* Appending keeps the entries and their positions, and adds one key.
LEMMA AppendKeys ==
    ASSUME NEW list \in Seq(Subscriptions), NEW s \in Subscriptions
    PROVE  /\ Append(list, s) \in Seq(Subscriptions)
           /\ DOMAIN list = 1 .. Len(list)
           /\ Len(list) \in Nat
           /\ DOMAIN Append(list, s) = 1 .. (Len(list) + 1)
           /\ \A n \in DOMAIN list : Append(list, s)[n] = list[n]
           /\ Append(list, s)[Len(list) + 1] = s
           /\ Keys(Append(list, s)) = Keys(list) \cup {DedupKey(s)}
<1>1. /\ Append(list, s) \in Seq(Subscriptions)
      /\ DOMAIN list = 1 .. Len(list)
      /\ Len(list) \in Nat
      /\ DOMAIN Append(list, s) = 1 .. (Len(list) + 1)
      /\ \A n \in DOMAIN list : Append(list, s)[n] = list[n]
      /\ Append(list, s)[Len(list) + 1] = s
  OBVIOUS
<1>2. DOMAIN Append(list, s) = DOMAIN list \cup {Len(list) + 1}
  BY <1>1
<1>3. Keys(Append(list, s)) = Keys(list) \cup {DedupKey(s)}
  BY <1>1, <1>2 DEF Keys
<1> QED  BY <1>1, <1>3

\* Every key looked at is listed, and nothing is listed that was not looked at.
KeysListed ==
    \A s \in looked :
        \E n \in DOMAIN subscriptions : DedupKey(subscriptions[n]) = DedupKey(s)
ListedLooked == \A n \in DOMAIN subscriptions : subscriptions[n] \in looked

Inv == ScrapeListInv /\ ScrapedOnce /\ KeysListed /\ ListedLooked

\* The loops begin with nothing looked at and nothing listed.
LEMMA InitInv == Init => Inv
BY DEF Init, Inv, ScrapeListInv, ScrapedOnce, KeysListed, ListedLooked

\* Whatever GetSubscribers copies and the storage overwrites, the loops keep what they
\* have collected.
LEMMA SubscribersInv ==
    ASSUME Inv, UNCHANGED loops, subscribers' \in Seq(Seq(Subscriptions))
    PROVE  Inv'
BY DEF Inv, ScrapeListInv, ScrapedOnce, KeysListed, ListedLooked, loops

\* The position looked at is one of a subscription.
LEMMA Looked ==
    ASSUME Inv, Looking
    PROVE  subscribers[i][j] \in Subscriptions
<1>1. i \in DOMAIN subscribers
  BY DEF Inv, ScrapeListInv, Looking
<1>2. subscribers[i] \in Seq(Subscriptions)
  BY <1>1 DEF Inv, ScrapeListInv
<1>3. j \in DOMAIN subscribers[i]
  BY <1>2 DEF Inv, ScrapeListInv, Looking
<1> QED  BY <1>2, <1>3

\* Going on to the next subscriber looks at nothing.
LEMMA NextSubscriberInv == Inv /\ NextSubscriber => Inv'
BY DEF Inv, ScrapeListInv, ScrapedOnce, KeysListed, ListedLooked, NextSubscriber

\* A subscription whose key is in siteSet has an entry already.
LEMMA SkipInv == Inv /\ Skip => Inv'
<1> SUFFICES ASSUME Inv, Skip PROVE Inv'
  OBVIOUS
<1>1. subscribers[i][j] \in Subscriptions
  BY Looked DEF Skip
<1>2. ScrapeListInv' /\ ScrapedOnce'
  BY <1>1 DEF Inv, ScrapeListInv, ScrapedOnce, Skip, Look
<1>3. KeysListed'
  <2> SUFFICES ASSUME NEW s \in looked'
               PROVE  \E n \in DOMAIN subscriptions : DedupKey(subscriptions[n]) = DedupKey(s)
    BY DEF Skip, KeysListed
  <2>1. CASE s \in looked
    BY <2>1 DEF Inv, KeysListed
  <2>2. CASE s = subscribers[i][j]
    BY <2>2 DEF Skip, Inv, ScrapeListInv
  <2> QED  BY <2>1, <2>2 DEF Skip, Look
<1>4. ListedLooked'
  <2>1. subscriptions' = subscriptions /\ looked \subseteq looked'
    BY DEF Skip, Look
  <2> QED  BY <2>1 DEF Inv, ListedLooked
<1> QED  BY <1>2, <1>3, <1>4 DEF Inv

\* A new key is added together with its entry.
LEMMA CollectInv == Inv /\ Collect => Inv'
<1> SUFFICES ASSUME Inv, Collect PROVE Inv'
  OBVIOUS
<1> DEFINE s == subscribers[i][j]
           list == subscriptions
<1>1. s \in Subscriptions /\ list \in Seq(Subscriptions)
  BY Looked DEF Collect, Inv, ScrapeListInv
<1>2. /\ subscriptions' \in Seq(Subscriptions)
      /\ DOMAIN list = 1 .. Len(list)
      /\ Len(list) \in Nat
      /\ DOMAIN subscriptions' = 1 .. (Len(list) + 1)
      /\ \A n \in DOMAIN list : subscriptions'[n] = list[n]
      /\ subscriptions'[Len(list) + 1] = s
      /\ Keys(subscriptions') = Keys(list) \cup {DedupKey(s)}
  BY <1>1, AppendKeys DEF Collect
<1>3. \A n \in DOMAIN list : DedupKey(list[n]) # DedupKey(s)
  BY DEF Collect, Inv, ScrapeListInv
<1>4. ScrapeListInv'
  BY <1>1, <1>2, SMTT(30) DEF Collect, Look, Inv, ScrapeListInv, Keys
<1>5. ScrapedOnce'
  <2> SUFFICES ASSUME NEW m \in DOMAIN subscriptions', NEW n \in DOMAIN subscriptions',
                      DedupKey(subscriptions'[m]) = DedupKey(subscriptions'[n])
               PROVE  m = n
    BY DEF ScrapedOnce, DedupKey
  <2>1. m \in DOMAIN list \/ m = Len(list) + 1
    BY <1>2
  <2>2. n \in DOMAIN list \/ n = Len(list) + 1
    BY <1>2
  <2> QED  BY <2>1, <2>2, <1>2, <1>3 DEF Inv, ScrapedOnce
<1>6. KeysListed'
  <2> SUFFICES ASSUME NEW t \in looked'
               PROVE  \E n \in DOMAIN subscriptions' : DedupKey(subscriptions'[n]) = DedupKey(t)
    BY DEF KeysListed, DedupKey
  <2>1. CASE t \in looked
    BY <2>1, <1>2 DEF Inv, KeysListed
  <2>2. CASE t = s
    BY <2>2, <1>2
  <2> QED  BY <2>1, <2>2 DEF Collect, Look
<1>7. ListedLooked'
  <2>1. looked' = looked \cup {s} /\ \A n \in DOMAIN list : list[n] \in looked
    BY DEF Collect, Look, Inv, ListedLooked
  <2>2. \A n \in DOMAIN subscriptions' : n \in DOMAIN list \/ n = Len(list) + 1
    BY <1>2
  <2> QED  BY <1>2, <2>1, <2>2 DEF ListedLooked
<1> QED  BY <1>4, <1>5, <1>6, <1>7 DEF Inv

\* Every step keeps the invariant.
LEMMA StepInv == Inv /\ [Next]_vars => Inv'
<1> SUFFICES ASSUME Inv, [Next]_vars PROVE Inv'
  OBVIOUS
<1>1. CASE Copied
  BY <1>1, SubscribersInv DEF Copied
<1>2. CASE GotSubscribers
  BY <1>2, SubscribersInv DEF GotSubscribers, Inv, ScrapeListInv
<1>3. CASE Overwritten
  BY <1>3, SubscribersInv DEF Overwritten
<1>4. CASE UNCHANGED vars
  BY <1>4, SubscribersInv DEF vars, Inv, ScrapeListInv
<1> QED  BY <1>1, <1>2, <1>3, <1>4, NextSubscriberInv, SkipInv, CollectInv DEF Next

\* The invariant, whatever is copied and overwritten: siteSet holds the keys of the
\* scrape list, and GenerateScrapeList stays within the slices it was given.
THEOREM ScrapeListCorrect == Spec => []Inv
BY InitInv, StepInv, PTL DEF Spec

\* The loops never leave the subscriptions they were given, and siteSet is the set of
\* the keys listed: TypeOK of GenerateScrapeList.
THEOREM TypeCorrect == Spec => []ScrapeListInv
<1>1. Inv => ScrapeListInv
  BY DEF Inv
<1> QED  BY <1>1, ScrapeListCorrect, PTL

\* GenerateScrapeList lists no key twice, for any subscribers, and whatever the storage
\* overwrites meanwhile.
THEOREM ListedOnce == Spec => []ScrapedOnce
<1>1. Inv => ScrapedOnce
  BY DEF Inv
<1> QED  BY <1>1, ScrapeListCorrect, PTL

\* What is looked at is listed.
LEMMA InvListed == Inv => AllScraped
<1> SUFFICES ASSUME Inv, NEW s \in looked
             PROVE  \E n \in DOMAIN subscriptions :
                       /\ Joined(subscriptions[n]) = Joined(s)
                       /\ \/ Texts(subscriptions[n]) = Texts(s)
                          \/ \E t \in looked : Joined(t) = Joined(s) /\ Texts(t) # Texts(s)
  BY DEF AllScraped
<1>1. \A x : DedupKey(x) = Joined(x)
  BY DEF DedupKey, Joined
<1>2. PICK n \in DOMAIN subscriptions : DedupKey(subscriptions[n]) = DedupKey(s)
  BY DEF Inv, KeysListed
<1>3. subscriptions[n] \in looked
  BY DEF Inv, ListedLooked
<1> QED  BY <1>1, <1>2, <1>3

\* For every subscription it looked at, GenerateScrapeList lists one with the same joined
\* texts, and one with its very texts unless it looked at another with different texts
\* that are the same when joined; for any subscribers.
THEOREM AllListed == Spec => []AllScraped
BY ScrapeListCorrect, InvListed, PTL
=============================================================================
