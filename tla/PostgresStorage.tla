-------------------------- MODULE PostgresStorage --------------------------
(***************************************************************************)
(* The subscriptions part of the PostgreSQL storage                        *)
(* (storage/postgres/subscription.go) and its tables (00001_init.sql).      *)
(*                                                                         *)
(* The operations that change several tables run in a transaction, at the  *)
(* default isolation level, read committed: a statement sees what was       *)
(* committed when it began, and what its own transaction wrote.  Until its   *)
(* transaction ends, a row it inserted, updated or deleted is locked, and   *)
(* a row a foreign key it inserted refers to is locked against being        *)
(* deleted or updated.  A statement that needs a locked row waits, and goes  *)
(* on with the row as it finds it then; the conditions it selected the row  *)
(* by are not looked at again if the row was locked only.                   *)
(*                                                                         *)
(* A step is a statement, or a part of one before and after a wait.  The     *)
(* database notices transactions that wait for each other and lets one fail. *)
(***************************************************************************)
EXTENDS Integers, FiniteSets

CONSTANTS
    Callers,    \* goroutines with a transaction each
    Emails,     \* e-mail addresses of possible subscribers
    Keys,       \* URL, filter and content type of the subscriptions there are
    Renderings, \* use_chrome of the subscriptions that are asked for
    MaxId       \* bound on the ids the table of subscriptions has given out

ASSUME MaxIdAssumption == MaxId \in Nat

VARIABLES
    subscriptions,  \* committed rows: id, key and use_chrome
    subscribers,    \* committed rows: e-mails
    references,     \* committed rows of subscriber_subscription: <<e-mail, id>>
    lastId,         \* the identity sequence, which no transaction rolls back
    tx,             \* caller -> its transaction
    overlapped      \* two transactions have been open at once (history)

tables == <<subscriptions, subscribers, references>>
vars == <<subscriptions, subscribers, references, lastId, tx, overlapped>>

Row(id, key, chrome) == [id |-> id, key |-> key, chrome |-> chrome]
Rows == [id : 1..MaxId, key : Keys, chrome : Renderings]
References == Emails \X (1..MaxId)

Ids(rows) == {r.id : r \in rows}
WithKey(rows, key) == {r \in rows : r.key = key}

\* A transaction: the request, the subscription found, and what it wrote so far:
\* rows inserted or updated, ids, references and e-mails deleted.
Transaction ==
    [pc       : {"idle", "insert", "refer", "cleanup", "delete", "commit"},
     request  : (Emails \X Keys \X Renderings) \cup (Emails \X Keys) \cup {<<>>},
     id       : 0..MaxId,
     doomed   : SUBSET (1..MaxId),
     written  : SUBSET Rows,
     deleted  : SUBSET (1..MaxId),
     added    : SUBSET References,
     removed  : SUBSET References,
     gone     : SUBSET Emails]

Closed ==
    [pc |-> "idle", request |-> <<>>, id |-> 0, doomed |-> {}, written |-> {},
     deleted |-> {}, added |-> {}, removed |-> {}, gone |-> {}]

Init ==
    /\ subscriptions = {}
    /\ subscribers = {}
    /\ references = {}
    /\ lastId = 0
    /\ tx = [c \in Callers |-> Closed]
    /\ overlapped = FALSE

Idle(c) == tx[c].pc = "idle"
Others(c) == {tx[d] : d \in Callers \ {c}}

\* What other transactions keep c from writing, or from referring to.
WrittenByOthers(c)  == UNION {Ids(t.written) \cup t.deleted : t \in Others(c)}
ReferredByOthers(c) == UNION {{r[2] : r \in t.added} : t \in Others(c)}
RemovedByOthers(c)  == UNION {t.removed : t \in Others(c)}
AddedByOthers(c)    == UNION {t.added : t \in Others(c)}
GoneByOthers(c)     == UNION {t.gone : t \in Others(c)}

Open(c, t) ==
    /\ Idle(c)
    /\ tx' = [tx EXCEPT ![c] = t]
    /\ overlapped' = (overlapped \/ \E d \in Callers : ~ Idle(d))
    /\ UNCHANGED <<subscriptions, subscribers, references, lastId>>

Goto(c, t) ==
    /\ tx' = [tx EXCEPT ![c] = t]
    /\ UNCHANGED <<subscriptions, subscribers, references, overlapped>>

----------------------------------------------------------------------------
(* AddSubscriber: one statement.  An e-mail already there is an error.      *)

AddSubscriber(c, email) ==
    /\ Idle(c)
    /\ email \notin GoneByOthers(c) \cup subscribers
    /\ subscribers' = subscribers \cup {email}
    /\ overlapped' = (overlapped \/ \E d \in Callers : ~ Idle(d))
    /\ UNCHANGED <<subscriptions, references, lastId, tx>>

----------------------------------------------------------------------------
(* AddSubscription.                                                         *)

\* SELECT: the subscription may exist already.  The row is not locked.
SelectSubscription(c, email, key, chrome) ==
    LET found == Ids(WithKey(subscriptions, key))
    IN  \/ /\ found = {}
           /\ Open(c, [Closed EXCEPT !.pc = "insert", !.request = <<email, key, chrome>>])
        \/ \E id \in found :
              Open(c, [Closed EXCEPT !.pc = "refer", !.id = id, !.request = <<email, key, chrome>>])

\* Mutant: ON CONFLICT DO NOTHING, which returns no id.
InsertOrNothing(c) ==
    LET key  == tx[c].request[2]
        none == WithKey(subscriptions, key) = {}
    IN  /\ tx[c].pc = "insert"
        /\ lastId < MaxId
        /\ \A t \in Others(c) : WithKey(t.written, key) = {}
        /\ lastId' = lastId + 1
        /\ Goto(c, [tx[c] EXCEPT
                       !.pc = "refer",
                       !.id = IF none THEN lastId + 1 ELSE 0,
                       !.written = IF none THEN {Row(lastId + 1, key, tx[c].request[3])} ELSE {}])

\* Mutant: no look at rows with the same key.
InsertAlways(c) ==
    /\ tx[c].pc = "insert"
    /\ lastId < MaxId
    /\ lastId' = lastId + 1
    /\ Goto(c, [tx[c] EXCEPT !.pc = "refer", !.id = lastId + 1,
                             !.written = {Row(lastId + 1, tx[c].request[2], tx[c].request[3])}])

\* INSERT ... ON CONFLICT DO UPDATE: waits for transactions that write a row with
\* this key; one that is there now is updated, and an id is used up all the same.
InsertSubscription(c) ==
    LET key    == tx[c].request[2]
        chrome == tx[c].request[3]
        same   == WithKey(subscriptions, key)
    IN  /\ tx[c].pc = "insert"
        /\ lastId < MaxId
        /\ \A t \in Others(c) : WithKey(t.written, key) = {}
        /\ Ids(same) \cap (WrittenByOthers(c) \cup ReferredByOthers(c)) = {}
        /\ lastId' = lastId + 1
        /\ \E id \in IF same = {} THEN {lastId + 1} ELSE Ids(same) :
              Goto(c, [tx[c] EXCEPT !.pc = "refer", !.id = id,
                                    !.written = {Row(id, key, chrome)}])

\* Mutant: no foreign key to the subscriptions.
InsertUnchecked(c) ==
    LET email == tx[c].request[1]
        id    == tx[c].id
    IN  /\ tx[c].pc = "refer"
        /\ email \in subscribers \ GoneByOthers(c)
        /\ <<email, id>> \notin references
        /\ <<email, id>> \notin AddedByOthers(c) \cup RemovedByOthers(c)
        /\ Goto(c, [tx[c] EXCEPT !.pc = "commit", !.added = {<<email, id>>}])
        /\ UNCHANGED lastId

\* INSERT into subscriber_subscription: the row must be new, and both rows it
\* refers to must exist, or the statement fails (RollBack).
InsertReference(c) ==
    LET email == tx[c].request[1]
        id    == tx[c].id
    IN  /\ tx[c].pc = "refer"
        /\ id \in Ids(subscriptions) \cup Ids(tx[c].written)
        /\ email \in subscribers
        /\ <<email, id>> \notin references
        /\ id \notin WrittenByOthers(c)
        /\ email \notin GoneByOthers(c)
        /\ <<email, id>> \notin AddedByOthers(c) \cup RemovedByOthers(c)
        /\ Goto(c, [tx[c] EXCEPT !.pc = "commit", !.added = {<<email, id>>}])
        /\ UNCHANGED lastId

----------------------------------------------------------------------------
(* RemoveSubscription, RemoveSubscriber, and the clean-up that ends both.   *)

\* Mutant: without the condition on the e-mail.
DeleteByKey(c, email, key) ==
    LET removed == {r \in references : r[2] \in Ids(WithKey(subscriptions, key))}
    IN  /\ removed # {}
        /\ removed \cap RemovedByOthers(c) = {}
        /\ Open(c, [Closed EXCEPT !.pc = "cleanup", !.request = <<email, key>>,
                                  !.removed = removed])

\* DELETE the reference; if there is none that is an error.
DeleteReference(c, email, key) ==
    LET removed == {r \in references : r[1] = email /\ r[2] \in Ids(WithKey(subscriptions, key))}
    IN  /\ removed # {}
        /\ removed \cap RemovedByOthers(c) = {}
        /\ Open(c, [Closed EXCEPT !.pc = "cleanup", !.request = <<email, key>>,
                                  !.removed = removed])

\* DELETE the subscriber, its references with it; if there is none that is an error.
DeleteSubscriber(c, email) ==
    LET removed == {r \in references : r[1] = email}
    IN  /\ email \in subscribers \ GoneByOthers(c)
        /\ \A r \in AddedByOthers(c) : r[1] # email
        /\ removed \cap RemovedByOthers(c) = {}
        /\ Open(c, [Closed EXCEPT !.pc = "cleanup", !.gone = {email}, !.removed = removed])

\* Mutant: nothing is cleaned up.
SelectNothing(c) ==
    /\ tx[c].pc = "cleanup"
    /\ Goto(c, [tx[c] EXCEPT !.pc = "delete"])
    /\ UNCHANGED lastId

\* DELETE FROM subscriptions: first the rows are found that no reference is seen to.
SelectUnreferenced(c) ==
    /\ tx[c].pc = "cleanup"
    /\ Goto(c, [tx[c] EXCEPT
                   !.pc = "delete",
                   !.doomed = Ids(subscriptions) \ {r[2] : r \in references \ tx[c].removed}])
    /\ UNCHANGED lastId

\* Mutant: the foreign key is not ON DELETE CASCADE, and nothing checks it.
NoCascade(ids) == {}

\* ON DELETE CASCADE: the references to deleted subscriptions.
Cascade(ids) == {r \in references : r[2] \in ids}

\* Mutant: nobody waits for those who refer to a row.
DeleteAtOnce(c) ==
    LET deleted == tx[c].doomed \cap Ids(subscriptions)
    IN  /\ tx[c].pc = "delete"
        /\ deleted \cap WrittenByOthers(c) = {}
        /\ Goto(c, [tx[c] EXCEPT !.pc = "commit", !.doomed = {}, !.deleted = deleted,
                                 !.removed = @ \cup Cascade(deleted)])
        /\ UNCHANGED lastId

\* Then they are deleted, as soon as nobody has locked one of them.
DeleteUnreferenced(c) ==
    LET deleted == tx[c].doomed \cap Ids(subscriptions)
    IN  /\ tx[c].pc = "delete"
        /\ deleted \cap (WrittenByOthers(c) \cup ReferredByOthers(c)) = {}
        /\ Cascade(deleted) \cap RemovedByOthers(c) = {}
        /\ Goto(c, [tx[c] EXCEPT !.pc = "commit", !.doomed = {}, !.deleted = deleted,
                                 !.removed = @ \cup Cascade(deleted)])
        /\ UNCHANGED lastId

----------------------------------------------------------------------------
Commit(c) ==
    /\ tx[c].pc = "commit"
    /\ subscriptions' =
          {r \in subscriptions : r.id \notin tx[c].deleted \cup Ids(tx[c].written)} \cup tx[c].written
    /\ subscribers' = subscribers \ tx[c].gone
    /\ references' = (references \ tx[c].removed) \cup tx[c].added
    /\ tx' = [tx EXCEPT ![c] = Closed]
    /\ UNCHANGED <<lastId, overlapped>>

\* A statement fails, or the commit does: no trace is left.
RollBack(c) ==
    /\ ~ Idle(c)
    /\ Goto(c, Closed)
    /\ UNCHANGED lastId

Next ==
    \E c \in Callers :
        \/ \E email \in Emails : AddSubscriber(c, email) \/ DeleteSubscriber(c, email)
        \/ \E email \in Emails, key \in Keys :
              \/ \E chrome \in Renderings : SelectSubscription(c, email, key, chrome)
              \/ DeleteReference(c, email, key)
        \/ InsertSubscription(c) \/ InsertReference(c)
        \/ SelectUnreferenced(c) \/ DeleteUnreferenced(c)
        \/ Commit(c) \/ RollBack(c)

Spec == Init /\ [][Next]_vars

----------------------------------------------------------------------------
\* Types; an id is given out before a row has it, and known before it is referred to.
TypeOK ==
    /\ subscriptions \in SUBSET Rows
    /\ subscribers \in SUBSET Emails
    /\ references \in SUBSET References
    /\ lastId \in 0..MaxId
    /\ tx \in [Callers -> Transaction]
    /\ \A c \in Callers : Ids(subscriptions \cup tx[c].written) \subseteq 1..lastId
    /\ \A c \in Callers : tx[c].pc = "refer" => tx[c].id \in 1..lastId

\* No two rows have the same key, although a row is inserted after a look that found
\* none: without that, FindBySubscriber would return a subscription twice.
UniqueKeys ==
    \A r, s \in subscriptions : r.key = s.key => r = s

\* Every reference is one to a subscriber and a subscription that exist: those that a
\* concurrent RemoveSubscriber or a clean-up deletes are deleted with their references.
NothingDangles ==
    \A r \in references : r[1] \in subscribers /\ r[2] \in Ids(subscriptions)

\* What a transaction may have written, by where it is.
Phases(t) ==
    /\ t.pc \in {"insert", "refer"} => t.request \in Emails \X Keys \X Renderings
    /\ t.pc \in {"idle", "insert", "cleanup", "delete"} => t.written = {}
    /\ t.pc # "commit" => t.added = {} /\ t.deleted = {}
    /\ t.pc \in {"idle", "insert", "refer"} => t.removed = {} /\ t.gone = {}
    /\ t.added # {} => t.removed = {} /\ t.gone = {} /\ t.deleted = {}
    /\ t.deleted # {} => t.written = {}
    /\ \A v, w \in t.written : v = w

\* Rows that are, or will be, committed.
AllRows == subscriptions \cup UNION {tx[c].written : c \in Callers}

\* An id stands for one key for ever; the one a transaction has found, for the key it
\* was asked for.
IdsMeanKeys ==
    /\ \A r, s \in AllRows : r.id = s.id => r.key = s.key
    /\ \A c \in Callers, r \in AllRows :
          (tx[c].pc = "refer" \/ tx[c].added # {}) /\ r.id = tx[c].id =>
              r.key = tx[c].request[2]

\* The reference c added is the one it was asked for, and until c ends nobody deletes
\* the two rows the reference is to.
ReferredStay(c) ==
    \A a \in tx[c].added :
        /\ a = <<tx[c].request[1], tx[c].id>>
        /\ a[1] \in subscribers
        /\ a[2] \in Ids(subscriptions) \cup Ids(tx[c].written)
        /\ \A d \in Callers \ {c} : a[1] \notin tx[d].gone /\ a[2] \notin tx[d].deleted

\* The row c wrote is the only one with its key, and will be when others commit.
WrittenAlone(c) ==
    \A w \in tx[c].written :
        /\ \A s \in subscriptions : s.key = w.key => s.id = w.id
        /\ \A d \in Callers \ {c} : \A v \in tx[d].written : v.key # w.key

\* With the rows c deletes go all references to them, those added meanwhile included.
DeletedWhole(c) ==
    \A r \in references : r[1] \in tx[c].gone \/ r[2] \in tx[c].deleted => r \in tx[c].removed

\* What the transactions under way rely on, and keep for each other by their locks.
TransactionsInv ==
    /\ IdsMeanKeys
    /\ \A c \in Callers :
          Phases(tx[c]) /\ ReferredStay(c) /\ WrittenAlone(c) /\ DeletedWhole(c)

\* Until transactions overlap, no subscription outlives its last reference: adding one
\* leaves none behind when it fails, and removing one cleans up.
NoGarbageSerially ==
    ~ overlapped /\ (\A c \in Callers : Idle(c)) =>
        \A s \in subscriptions : \E r \in references : r[2] = s.id

\* The directory stored in the tables.
Directory ==
    [email \in subscribers |->
        [limit |-> 0,
         subscriptions |-> {s.key : s \in {t \in subscriptions : <<email, t.id>> \in references}}]]

SameKey(k1, k2) == k1 = k2

Dir == INSTANCE SubscriptionDirectory
         WITH directory         <- Directory,
              Subscriptions     <- Keys,
              Limits            <- {0},
              CreateOnSubscribe <- FALSE,
              Same              <- SameKey

\* Until transactions overlap, the tables implement the directory, at the moment of
\* the commit: the clean-up is not seen in it.
DirectorySerially == Dir!Init /\ [][~ overlapped' => [Dir!Next]_Directory]_vars

\* AddSubscription, from its first statement to its commit, ends with what was asked
\* for: when it commits, the e-mail refers to a row with the key, and not to one that a
\* clean-up has deleted, or deleted and another transaction inserted again, since.
AddedAsRequested ==
    [][\A c \in Callers :
          Commit(c) /\ tx[c].added # {} =>
              tx[c].request[2] \in Directory'[tx[c].request[1]].subscriptions]_vars

\* storage/postgres/subscription.go, RemoveSubscription and RemoveSubscriber: "cleanup
\* non-referenced subscriptions".  A reference disappears by an operation on its e-mail
\* only, never by somebody else's clean-up.
OthersKept ==
    [][\A r \in references \ references' :
          \E c \in Callers :
              /\ Commit(c)
              /\ IF tx[c].gone = {} THEN tx[c].request[1] = r[1] ELSE tx[c].gone = {r[1]}]_vars
=============================================================================
