----------------------- MODULE SubscriptionDirectory -----------------------
(***************************************************************************)
(* What the SubscriptionStorage interface (storage/subscription.go)        *)
(* promises to the services, without slices, pointers, tables or locks:    *)
(* a directory that maps the e-mail of every subscriber to its limit and   *)
(* to its SET of subscriptions, of which no two are equal.  Every operation *)
(* changes the directory at one instant, or fails and leaves it as it was.  *)
(*                                                                         *)
(* The two backends disagree on one point, a constant here: whether adding *)
(* a subscription for an unknown e-mail creates a subscriber.              *)
(***************************************************************************)
EXTENDS Integers

CONSTANTS
    Emails,             \* e-mail addresses of possible subscribers
    Subscriptions,      \* the subscriptions there may be
    Limits,             \* the limits subscribers are added with
    CreateOnSubscribe,  \* a Boolean
    Same(_, _)          \* the storage's notion of equal subscriptions

VARIABLE directory

Entry(limit, subscriptions) == [limit |-> limit, subscriptions |-> subscriptions]

Set(email, entry) ==
    directory' = [e \in DOMAIN directory \cup {email} |->
                      IF e = email THEN entry ELSE directory[e]]

Equal(subscriptions, s) == {t \in subscriptions : Same(t, s)}

Init == directory = [e \in {} |-> Entry(0, {})]

AddSubscriber(email) ==
    /\ email \notin DOMAIN directory
    /\ \E limit \in Limits : Set(email, Entry(limit, {}))

AddSubscription(email, s) ==
    \/ /\ email \in DOMAIN directory
       /\ Equal(directory[email].subscriptions, s) = {}
       /\ Set(email, Entry(directory[email].limit, directory[email].subscriptions \cup {s}))
    \/ /\ email \notin DOMAIN directory
       /\ CreateOnSubscribe
       /\ Set(email, Entry(0, {s}))

RemoveSubscription(email, s) ==
    /\ email \in DOMAIN directory
    /\ Equal(directory[email].subscriptions, s) # {}
    /\ Set(email, Entry(directory[email].limit,
                        directory[email].subscriptions \ Equal(directory[email].subscriptions, s)))

RemoveSubscriber(email) ==
    /\ email \in DOMAIN directory
    /\ directory' = [e \in DOMAIN directory \ {email} |-> directory[e]]

Next ==
    \E email \in Emails :
        \/ AddSubscriber(email)
        \/ \E s \in Subscriptions : AddSubscription(email, s)
        \/ \E s \in Subscriptions : RemoveSubscription(email, s)
        \/ RemoveSubscriber(email)

Spec == Init /\ [][Next]_directory
=============================================================================
