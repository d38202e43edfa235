--------------------------- MODULE MemoryStorage ---------------------------
(***************************************************************************)
(* The subscriptions part of the in-memory storage                         *)
(* (storage/memory/storage.go), the default backend of the server.         *)
(*                                                                         *)
(* db.subscribers is a slice of POINTERS, and GetSubscriber hands such a    *)
(* pointer out: after the mutex is released its holder still looks at the  *)
(* live object, and, once the subscriber is removed, at an orphan.  So the  *)
(* subscribers are objects in a heap and the slice holds their addresses.   *)
(*                                                                         *)
(* Every operation holds db.mu from its first to its last access and is    *)
(* therefore one step.  The heap holds the objects something refers to;    *)
(* `held' are those a caller's local variable refers to.                    *)
(***************************************************************************)
EXTENDS Integers, Sequences, FiniteSets, Subscription

CONSTANTS
    Emails,         \* e-mail addresses of possible subscribers
    Subscriptions,  \* the subscriptions requests are made for
    Addrs           \* addresses of subscriber objects

VARIABLES
    heap,           \* address -> subscriber object
    subscribers     \* db.subscribers: a sequence of addresses

storage == <<heap, subscribers>>

Subscriber == [Email             : Emails,
               Subscriptions     : Seq(Subscriptions),
               SubscriptionLimit : Int]

StorageInit ==
    /\ heap = [a \in {} |-> 0]
    /\ subscribers = <<>>

StorageTypeOK ==
    /\ DOMAIN heap \subseteq Addrs
    /\ heap \in [DOMAIN heap -> Subscriber]
    /\ subscribers \in Seq(DOMAIN heap)

----------------------------------------------------------------------------
First(S) == CHOOSE i \in S : \A j \in S : i <= j

\* Mutant, a broken form of the next definition that nothing uses (see the
\* README): the slice is not shortened.
SwapRemoveKeep(s, i) == [j \in DOMAIN s |-> IF j = i THEN s[Len(s)] ELSE s[j]]

\* Remove element i: the last element takes its place.
SwapRemove(s, i) ==
    [j \in 1..(Len(s) - 1) |-> IF j = i THEN s[Len(s)] ELSE s[j]]

Elements(s) == {s[i] : i \in DOMAIN s}

Listed == Elements(subscribers)

\* The positions a loop over db.subscribers stops at.
Positions(email) == {i \in DOMAIN subscribers : heap[subscribers[i]].Email = email}

\* GetSubscriber: the address found for an e-mail, when there is one.
Known(email) == Positions(email) # {}
GetSubscriber(email) == subscribers[First(Positions(email))]

\* Mutant: pointers are compared, not the subscriptions they point to.
SubscribedIdentical(a, subscription) ==
    {i \in DOMAIN heap[a].Subscriptions : heap[a].Subscriptions[i] = subscription}

\* The positions of a subscription in a subscriber's list.
Subscribed(a, subscription) ==
    {i \in DOMAIN heap[a].Subscriptions : Equals(heap[a].Subscriptions[i], subscription)}

AppendSubscriber(subscriber) ==
    \E a \in Addrs \ DOMAIN heap :
        /\ heap' = [x \in DOMAIN heap \cup {a} |-> IF x = a THEN subscriber ELSE heap[x]]
        /\ subscribers' = Append(subscribers, a)

\* Mutant: no look at the subscribers there are.
AddSubscriberBlindly(email, limit) ==
    AppendSubscriber([Email |-> email, Subscriptions |-> <<>>, SubscriptionLimit |-> limit])

\* A subscriber already there is an error, and nothing changes.
AddSubscriber(email, limit) ==
    \/ /\ Known(email)
       /\ UNCHANGED storage
    \/ /\ ~ Known(email)
       /\ AppendSubscriber([Email             |-> email,
                            Subscriptions     |-> <<>>,
                            SubscriptionLimit |-> limit])

\* An unknown subscriber is created, with the zero value of SubscriptionLimit.
AddSubscription(email, subscription) ==
    \/ /\ Known(email)
       /\ LET a == GetSubscriber(email)
          IN  /\ heap' = IF Subscribed(a, subscription) = {}
                         THEN [heap EXCEPT ![a].Subscriptions = Append(@, subscription)]
                         ELSE heap
              /\ UNCHANGED subscribers
    \/ /\ ~ Known(email)
       /\ AppendSubscriber([Email             |-> email,
                            Subscriptions     |-> <<subscription>>,
                            SubscriptionLimit |-> 0])

\* Mutants: the list is cut where the subscription was found; the last subscription
\* is removed, whichever was found.
CutSubscriptions(email, subscription) ==
    /\ Known(email)
    /\ LET a == GetSubscriber(email)
       IN  /\ Subscribed(a, subscription) # {}
           /\ heap' = [heap EXCEPT ![a].Subscriptions =
                          SubSeq(@, 1, First(Subscribed(a, subscription)) - 1)]
    /\ UNCHANGED subscribers
RemoveLastSubscription(email, subscription) ==
    /\ Known(email)
    /\ LET a == GetSubscriber(email)
       IN  /\ Subscribed(a, subscription) # {}
           /\ heap' = [heap EXCEPT ![a].Subscriptions = SwapRemove(@, Len(@))]
    /\ UNCHANGED subscribers

\* Enabled when the subscriber and the subscription exist; an error otherwise.
RemoveSubscription(email, subscription) ==
    /\ Known(email)
    /\ LET a == GetSubscriber(email)
       IN  /\ Subscribed(a, subscription) # {}
           /\ heap' = [heap EXCEPT ![a].Subscriptions =
                          SwapRemove(@, First(Subscribed(a, subscription)))]
    /\ UNCHANGED subscribers

\* Enabled when the subscriber exists; an error otherwise.
RemoveSubscriber(email, held) ==
    /\ Known(email)
    /\ subscribers' = SwapRemove(subscribers, First(Positions(email)))
    /\ heap' = [a \in DOMAIN heap \ ({GetSubscriber(email)} \ held) |-> heap[a]]
=============================================================================
