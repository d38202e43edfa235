-------------------------- MODULE PostgresLookups --------------------------
(***************************************************************************)
(* The lookups of the subscriptions part of the PostgreSQL storage          *)
(* (storage/postgres/subscription.go), while transactions go on.            *)
(*                                                                         *)
(* A lookup is no transaction: a first statement selects subscribers, and    *)
(* then FindBySubscriber is called for each of them, a statement of its own *)
(* that sees what is committed by then.  Each statement may fail.            *)
(***************************************************************************)
EXTENDS PostgresStorage

VARIABLES
    selected,   \* e-mails the lookup has selected, {} when there is none under way
    todo,       \* those whose subscriptions are still to be read
    answer,     \* <<e-mail, key>>: the subscriptions read so far
    always,     \* <<e-mail, key>>: subscribed since the lookup began (history)
    ever        \* <<e-mail, key>>: subscribed at a moment since then (history)

lookup == <<selected, todo, answer>>
history == <<always, ever>>

LookupsInit ==
    /\ Init
    /\ selected = {} /\ todo = {} /\ answer = {}
    /\ always = {} /\ ever = {}

Committed ==
    {p \in Emails \X Keys : \E s \in WithKey(subscriptions, p[2]) : <<p[1], s.id>> \in references}

----------------------------------------------------------------------------
Select(emails) ==
    /\ selected = {}
    /\ selected' = emails
    /\ todo' = emails
    /\ always' = Committed \cap (emails \X Keys)
    /\ ever' = always'
    /\ UNCHANGED <<vars, answer>>

GetAllSubscribers == Select(subscribers)

FindBySubscription(key) == Select({p[1] : p \in {q \in Committed : q[2] = key}})

GetSubscriber(email) == Select(subscribers \cap {email})

\* Mutant: one row of the result is scanned, as GetContext does.
FindOne(email) ==
    /\ email \in todo
    /\ todo' = todo \ {email}
    /\ \E p \in Committed : answer' = answer \cup ({p} \cap ({email} \X Keys))
    /\ UNCHANGED <<vars, selected, history>>

FindBySubscriber(email) ==
    /\ email \in todo
    /\ todo' = todo \ {email}
    /\ answer' = answer \cup (Committed \cap ({email} \X Keys))
    /\ UNCHANGED <<vars, selected, history>>

\* The lookup returns, or a statement of it fails.
LookupEnds ==
    /\ selected # {}
    /\ selected' = {} /\ todo' = {} /\ answer' = {}
    /\ always' = {} /\ ever' = {}
    /\ UNCHANGED vars

\* Transactions go on.
Elsewhere ==
    /\ Next
    /\ always' = always \cap Committed'
    /\ ever' = ever \cup (Committed' \cap (selected \X Keys))
    /\ UNCHANGED lookup

LookupsNext ==
    \/ Elsewhere
    \/ GetAllSubscribers
    \/ \E key \in Keys : FindBySubscription(key)
    \/ \E email \in Emails : GetSubscriber(email) \/ FindBySubscriber(email)
    \/ LookupEnds

LookupsSpec == LookupsInit /\ [][LookupsNext]_<<vars, lookup, history>>
----------------------------------------------------------------------------
\* Although each subscriber is read at a moment of its own, an answer has every
\* subscription that was there all the time, and none that was not there at any: no site
\* drops out of the scrape list because of somebody else's transaction.
AnswersHold == todo = {} => always \subseteq answer /\ answer \subseteq ever
=============================================================================
