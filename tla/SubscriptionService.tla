------------------------ MODULE SubscriptionService ------------------------
(***************************************************************************)
(* The subscription service (service/subscription.go) over the in-memory   *)
(* storage.  The HTTP server runs every request in a goroutine of its own,  *)
(* so any number of calls of the service are under way at once; a caller   *)
(* stands for such a goroutine.  A call is one step per storage operation, *)
(* plus one for each decision taken, without a lock, on what a storage      *)
(* operation returned.  A request that is refused at its first step leaves  *)
(* no trace and is not a step; one refused later returns to Idle.           *)
(***************************************************************************)
EXTENDS MemoryStorage

CONSTANTS
    Callers,            \* goroutines calling the service
    Limits,             \* SubscriptionLimit values in AddSubscriber requests
    SubscriberLimit,    \* svc.subscriberLimit
    SubscriptionLimit   \* svc.subscriptionLimit, the default of a subscriber

ASSUME CallersAssumption == IsFiniteSet(Callers)
ASSUME LimitsAssumption ==
    /\ Limits \subseteq Int
    /\ SubscriberLimit \in Int
    /\ SubscriptionLimit \in Int

VARIABLE
    call                \* caller -> where its call is, and its local variables

vars == <<heap, subscribers, call>>

Idle == [pc |-> "idle"]

Inserting == [pc : {"insert"}, email : Emails, limit : Int]
Checking  == [pc : {"check"}, email : Emails, subscription : Subscriptions, ref : Addrs]
Adding    == [pc : {"add"}, email : Emails, subscription : Subscriptions]

\* Objects still pointed to by the variable `subscriber' of these callers' calls.
Held(callers) == {call[c].ref : c \in {d \in callers : call[d].pc = "check"}}

TypeOK ==
    /\ StorageTypeOK
    /\ call \in [Callers -> {Idle} \cup Inserting \cup Checking \cup Adding]
    /\ DOMAIN heap = Listed \cup Held(Callers)

Init ==
    /\ StorageInit
    /\ call = [c \in Callers |-> Idle]

Goto(c, state) == call' = [call EXCEPT ![c] = state]

----------------------------------------------------------------------------
\* AddSubscriber, first half: SubscriberCount, read without a lock, is
\* compared with the limit, and the subscriber's own limit gets its default.
AddSubscriberCount(c, email, limit) ==
    /\ call[c] = Idle
    /\ Len(subscribers) # SubscriberLimit
    /\ Goto(c, [pc    |-> "insert",
                email |-> email,
                limit |-> IF limit = 0 THEN SubscriptionLimit ELSE limit])
    /\ UNCHANGED storage

\* AddSubscriber, second half.
AddSubscriberInsert(c) ==
    /\ call[c].pc = "insert"
    /\ AddSubscriber(call[c].email, call[c].limit)
    /\ Goto(c, Idle)

\* Subscribe: GetSubscriber returns a pointer to the stored object.
SubscribeGet(c, email, subscription) ==
    /\ call[c] = Idle
    /\ Known(email)
    /\ Goto(c, [pc           |-> "check",
                email        |-> email,
                subscription |-> subscription,
                ref          |-> GetSubscriber(email)])
    /\ UNCHANGED storage

\* Mutant: off by one.
AtMostLimit(subscriber) ==
    \/ subscriber.SubscriptionLimit <= 0
    \/ Len(subscriber.Subscriptions) <= subscriber.SubscriptionLimit

\* The limit holds for the object the pointer leads to, in its present state.
BelowLimit(subscriber) ==
    \/ subscriber.SubscriptionLimit <= 0
    \/ Len(subscriber.Subscriptions) < subscriber.SubscriptionLimit

SubscribeCheck(c) ==
    /\ call[c].pc = "check"
    /\ Goto(c, IF BelowLimit(heap[call[c].ref])
               THEN [pc           |-> "add",
                     email        |-> call[c].email,
                     subscription |-> call[c].subscription]
               ELSE Idle)
    /\ heap' = [a \in Listed \cup Held(Callers \ {c}) |-> heap[a]]
    /\ UNCHANGED subscribers

SubscribeAdd(c) ==
    /\ call[c].pc = "add"
    /\ AddSubscription(call[c].email, call[c].subscription)
    /\ Goto(c, Idle)

\* One storage operation each, and no decision of their own.
Unsubscribe(c, email, subscription) ==
    /\ call[c] = Idle
    /\ RemoveSubscription(email, subscription)
    /\ UNCHANGED call

DeleteSubscriber(c, email) ==
    /\ call[c] = Idle
    /\ RemoveSubscriber(email, Held(Callers))
    /\ UNCHANGED call

Next ==
    \E c \in Callers :
        \/ \E email \in Emails, limit \in Limits : AddSubscriberCount(c, email, limit)
        \/ AddSubscriberInsert(c)
        \/ \E email \in Emails, s \in Subscriptions : SubscribeGet(c, email, s)
        \/ SubscribeCheck(c)
        \/ SubscribeAdd(c)
        \/ \E email \in Emails, s \in Subscriptions : Unsubscribe(c, email, s)
        \/ \E email \in Emails : DeleteSubscriber(c, email)

Spec == Init /\ [][Next]_vars
----------------------------------------------------------------------------
\* At most one subscriber has a given e-mail: the test for an existing one and
\* the append of a new one happen under one lock, in AddSubscriber and in the
\* creation of a missing subscriber by AddSubscription alike.
UniqueEmails ==
    \A i, j \in DOMAIN subscribers :
        heap[subscribers[i]].Email = heap[subscribers[j]].Email => i = j

\* No subscriber holds two equal subscriptions, however many calls of Subscribe
\* passed their checks at the same time.
UniqueSubscriptions ==
    \A a \in Listed : \A i, j \in DOMAIN heap[a].Subscriptions :
        Equals(heap[a].Subscriptions[i], heap[a].Subscriptions[j]) => i = j

\* Concurrent calls can push a subscriber over its limit, because Subscribe
\* decides before it takes the lock again; but only by one subscription for each
\* caller but one.  With a single caller the limit is exact.
LimitOvershootBounded ==
    \A a \in Listed :
        heap[a].SubscriptionLimit > 0 =>
            Len(heap[a].Subscriptions) <=
                heap[a].SubscriptionLimit + Cardinality(Callers) - 1

\* The callers that may still add a subscription to a's e-mail without looking
\* at the present state of object a: they passed the check, or they will check
\* an orphan that had the same e-mail.
Unchecked(a) ==
    {c \in Callers :
        \/ call[c].pc = "add" /\ call[c].email = heap[a].Email
        \/ call[c].pc = "check" /\ call[c].email = heap[a].Email /\ call[c].ref # a}

\* The inductive form of the bound: those callers count as well.
OvershootInv ==
    \A a \in Listed :
        heap[a].SubscriptionLimit > 0 =>
            Len(heap[a].Subscriptions) + Cardinality(Unchecked(a)) <=
                heap[a].SubscriptionLimit + Cardinality(Callers) - 1

\* The service over the in-memory storage implements the directory: a step of a
\* call changes the set of subscribers and their sets of subscriptions as one
\* operation of the directory does, or not at all.
Addressed(email) == CHOOSE a \in Listed : heap[a].Email = email

Directory ==
    [email \in {heap[a].Email : a \in Listed} |->
        [limit |-> heap[Addressed(email)].SubscriptionLimit,
         subscriptions |-> Elements(heap[Addressed(email)].Subscriptions)]]

Dir == INSTANCE SubscriptionDirectory
         WITH directory         <- Directory,
              Limits            <- (Limits \ {0}) \cup {SubscriptionLimit},
              CreateOnSubscribe <- TRUE,
              Same              <- Equals

ImplementsDirectory == Dir!Spec

\* What a step of caller c does to the directory, if it is one of these.
AsRequested(c) ==
    /\ AddSubscriberInsert(c) => Dir!AddSubscriber(call[c].email) \/ UNCHANGED Directory
    /\ SubscribeAdd(c) =>
          \/ Dir!AddSubscription(call[c].email, call[c].subscription)
          \/ UNCHANGED Directory
    /\ \A email \in Emails :
          /\ DeleteSubscriber(c, email) => Dir!RemoveSubscriber(email)
          /\ \A s \in Subscriptions :
                Unsubscribe(c, email, s) => Dir!RemoveSubscription(email, s)

\* Each operation does to the directory what was asked for, with the arguments of
\* the call, or is refused and does nothing: Unsubscribe takes out that subscription
\* and no other, however often elements have changed places.
OperationsAsRequested == [][\A c \in Callers : AsRequested(c)]_vars

----------------------------------------------------------------------------
(* What the code says, and concurrent calls refute.                         *)

\* service/subscription.go:68, "the maximum number of subscribers".
SubscriberLimitHolds ==
    SubscriberLimit >= 0 => Len(subscribers) <= SubscriberLimit
=============================================================================
