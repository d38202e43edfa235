----------------------- MODULE PostgresStorage_proof -----------------------
(***************************************************************************)
(* Proofs about PostgresStorage and PostgresLookups, for any callers,       *)
(* e-mails, keys and ids.                                                   *)
(***************************************************************************)
EXTENDS PostgresLookups, TLAPS

\* The inductive invariant.
StorageInv == TypeOK /\ UniqueKeys /\ NothingDangles /\ TransactionsInv

\* Before anything happens, there is nothing to be wrong.
LEMMA InitCorrect == Init => StorageInv
<1> SUFFICES ASSUME Init PROVE StorageInv
  OBVIOUS
<1> USE DEF Init
<1>1. TypeOK
  BY MaxIdAssumption DEF TypeOK, Closed, Transaction, Ids
<1>2. UniqueKeys /\ NothingDangles
  BY DEF UniqueKeys, NothingDangles
<1>3. AllRows = {}
  BY DEF AllRows, Closed
<1>4. TransactionsInv
  BY <1>3 DEF TransactionsInv, IdsMeanKeys, Phases, ReferredStay, WrittenAlone, DeletedWhole, Closed
<1> QED  BY <1>1, <1>2, <1>4 DEF StorageInv

\* A new subscriber disturbs nobody.
LEMMA AddSubscriberCorrect ==
    ASSUME StorageInv, NEW c \in Callers, NEW email \in Emails, AddSubscriber(c, email)
    PROVE  StorageInv'
<1> USE DEF StorageInv, AddSubscriber
<1>1. TypeOK'
  BY DEF TypeOK
<1>2. UniqueKeys' /\ NothingDangles'
  BY DEF UniqueKeys, NothingDangles
<1>3. AllRows' = AllRows
  BY DEF AllRows
<1>4. TransactionsInv'
  BY <1>3 DEF TransactionsInv, IdsMeanKeys, ReferredStay, WrittenAlone, DeletedWhole
<1> QED  BY <1>1, <1>2, <1>4

\* What makes t a transaction that may take the place of c's, when nothing is committed.
Fits(c, t) ==
    /\ t \in Transaction /\ Phases(t)
    /\ Ids(t.written) \subseteq 1..lastId'
    /\ t.pc = "refer" => t.id \in 1..lastId'
    /\ \A r, s \in t.written \cup AllRows : r.id = s.id => r.key = s.key
    /\ \A d \in Callers \ {c}, r \in t.written :
          (tx[d].pc = "refer" \/ tx[d].added # {}) /\ r.id = tx[d].id => r.key = tx[d].request[2]
    /\ \A r \in t.written \cup AllRows :
          (t.pc = "refer" \/ t.added # {}) /\ r.id = t.id => r.key = t.request[2]
    /\ \A a \in t.added :
          /\ a = <<t.request[1], t.id>>
          /\ a[1] \in subscribers
          /\ a[2] \in Ids(subscriptions) \cup Ids(t.written)
          /\ \A d \in Callers \ {c} : a[1] \notin tx[d].gone /\ a[2] \notin tx[d].deleted
    /\ \A d \in Callers \ {c} : \A a \in tx[d].added : a[1] \notin t.gone /\ a[2] \notin t.deleted
    /\ \A w \in t.written :
          /\ \A s \in subscriptions : s.key = w.key => s.id = w.id
          /\ \A d \in Callers \ {c} : \A v \in tx[d].written : v.key # w.key
    /\ \A r \in references : r[1] \in t.gone \/ r[2] \in t.deleted => r \in t.removed

\* A step of c that commits nothing, and leaves c with a transaction that fits.
LEMMA LocalStep ==
    ASSUME StorageInv, NEW c \in Callers, NEW t, Fits(c, t),
           tx' = [tx EXCEPT ![c] = t], UNCHANGED tables, lastId' \in lastId..MaxId
    PROVE  StorageInv'
<1>1. /\ tx \in [Callers -> Transaction] /\ lastId \in 0..MaxId
      /\ tx' \in [Callers -> Transaction]
      /\ tx'[c] = t
      /\ \A d \in Callers \ {c} : tx'[d] = tx[d]
      /\ subscriptions' = subscriptions /\ subscribers' = subscribers /\ references' = references
      /\ MaxId \in Nat
  BY MaxIdAssumption DEF StorageInv, TypeOK, Fits, tables
<1>2. TypeOK'
  <2>1. \A d \in Callers : Ids(subscriptions' \cup tx'[d].written) \subseteq 1..lastId'
    BY <1>1 DEF StorageInv, TypeOK, Fits, Ids
  <2>2. \A d \in Callers : tx'[d].pc = "refer" => tx'[d].id \in 1..lastId'
    BY <1>1 DEF StorageInv, TypeOK, Fits
  <2>3. lastId' \in 0..MaxId
    BY <1>1
  <2> QED  BY <1>1, <2>1, <2>2, <2>3 DEF StorageInv, TypeOK
<1>3. UniqueKeys' /\ NothingDangles'
  BY <1>1 DEF StorageInv, UniqueKeys, NothingDangles, Ids
<1>4. IdsMeanKeys'
  <2>1. \A r \in AllRows' : r \in t.written \cup AllRows
    BY <1>1 DEF AllRows
  <2>2. \A r \in AllRows' : r \in t.written \/ r \in subscriptions \/
            \E d \in Callers \ {c} : r \in tx[d].written
    BY <1>1 DEF AllRows
  <2>3. \A r, s \in AllRows' : r.id = s.id => r.key = s.key
    BY <2>1 DEF Fits
  <2>4. ASSUME NEW d \in Callers, NEW r \in AllRows',
               tx'[d].pc = "refer" \/ tx'[d].added # {}, r.id = tx'[d].id
        PROVE  r.key = tx'[d].request[2]
    <3>1. CASE d = c
      BY <1>1, <2>1, <2>4, <3>1 DEF Fits
    <3>2. CASE d # c
      BY <1>1, <2>1, <2>4, <3>2 DEF Fits, StorageInv, TransactionsInv, IdsMeanKeys
    <3> QED  BY <3>1, <3>2
  <2> QED  BY <2>3, <2>4 DEF IdsMeanKeys
<1>5. ASSUME NEW d \in Callers
      PROVE  (Phases(tx[d]) /\ ReferredStay(d) /\ WrittenAlone(d) /\ DeletedWhole(d))'
  <2>1. CASE d = c
    BY <1>1, <2>1 DEF Fits, Phases, ReferredStay, WrittenAlone, DeletedWhole, Ids
  <2>2. CASE d # c
    <3>1. Phases(tx[d]) /\ ReferredStay(d) /\ WrittenAlone(d) /\ DeletedWhole(d)
      BY DEF StorageInv, TransactionsInv
    <3>2. Phases(tx[d])' /\ DeletedWhole(d)'
      BY <1>1, <2>2, <3>1 DEF Phases, DeletedWhole
    <3>3. ReferredStay(d)'
      BY <1>1, <2>2, <3>1 DEF Fits, ReferredStay, Ids
    <3>4. WrittenAlone(d)'
      BY <1>1, <2>2, <3>1 DEF Fits, WrittenAlone
    <3> QED  BY <3>2, <3>3, <3>4
  <2> QED  BY <2>1, <2>2
<1> QED  BY <1>2, <1>3, <1>4, <1>5 DEF StorageInv, TransactionsInv

\* A transaction that wrote nothing and refers to nothing fits.
LEMMA NothingFits ==
    ASSUME StorageInv, NEW c \in Callers, NEW t \in Transaction, Phases(t),
           t.written = {}, t.added = {}, t.gone = {}, t.deleted = {},
           lastId' \in lastId..MaxId,
           t.pc = "refer" =>
               t.id \in 1..lastId /\ \A r \in AllRows : r.id = t.id => r.key = t.request[2]
    PROVE  Fits(c, t)
<1>1. lastId \in 0..MaxId /\ MaxId \in Nat
  BY MaxIdAssumption DEF StorageInv, TypeOK
<1>2. \A r, s \in AllRows : r.id = s.id => r.key = s.key
  BY DEF StorageInv, TransactionsInv, IdsMeanKeys
<1>3. t.pc = "refer" => t.id \in 1..lastId'
  BY <1>1
<1>4. Ids(t.written) = {}
  BY DEF Ids
<1> QED  BY <1>2, <1>3, <1>4 DEF Fits

\* No transaction is a transaction that wrote nothing.
LEMMA ClosedFits == Closed \in Transaction /\ Phases(Closed) /\ Closed.pc # "refer"
<1>1. Closed \in Transaction
  BY MaxIdAssumption DEF Closed, Transaction
<1>2. Phases(Closed) /\ Closed.pc # "refer"
  BY DEF Closed, Phases
<1> QED  BY <1>1, <1>2

\* A rolled back transaction leaves nothing behind.
LEMMA RollBackCorrect ==
    ASSUME StorageInv, NEW c \in Callers, RollBack(c)
    PROVE  StorageInv'
<1>3. lastId' \in lastId..MaxId
  BY MaxIdAssumption DEF RollBack, StorageInv, TypeOK
<1>4. Fits(c, Closed)
  BY <1>3, ClosedFits, NothingFits DEF Closed
<1> QED  BY <1>3, <1>4, LocalStep DEF RollBack, Goto, tables

\* SELECT: nothing is written; a row found has the key asked for.
LEMMA SelectSubscriptionCorrect ==
    ASSUME StorageInv, NEW c \in Callers, NEW email \in Emails, NEW key \in Keys,
           NEW chrome \in Renderings, SelectSubscription(c, email, key, chrome)
    PROVE  StorageInv'
<1>1. UNCHANGED tables /\ lastId' \in lastId..MaxId
  <2>1. UNCHANGED <<subscriptions, subscribers, references, lastId>>
    BY DEF SelectSubscription, Open
  <2> QED  BY <2>1, MaxIdAssumption DEF tables, StorageInv, TypeOK
<1>2. CASE Open(c, [Closed EXCEPT !.pc = "insert", !.request = <<email, key, chrome>>])
  <2> DEFINE t == [Closed EXCEPT !.pc = "insert", !.request = <<email, key, chrome>>]
  <2>1. t \in Transaction
    <3>1. <<email, key, chrome>> \in Emails \X Keys \X Renderings
      OBVIOUS
    <3> QED  BY <3>1, ClosedFits DEF Transaction
  <2>2. Phases(t) /\ t.written = {} /\ t.added = {} /\ t.gone = {} /\ t.deleted = {}
        /\ t.pc = "insert"
    BY DEF Closed, Phases
  <2>3. tx' = [tx EXCEPT ![c] = t]
    BY <1>2 DEF Open
  <2> HIDE DEF t
  <2>4. Fits(c, t)
    BY <1>1, <2>1, <2>2, NothingFits
  <2> QED  BY <1>1, <2>3, <2>4, LocalStep
<1>3. ASSUME NEW id \in Ids(WithKey(subscriptions, key)),
             Open(c, [Closed EXCEPT !.pc = "refer", !.id = id, !.request = <<email, key, chrome>>])
      PROVE  StorageInv'
  <2> DEFINE t == [Closed EXCEPT !.pc = "refer", !.id = id, !.request = <<email, key, chrome>>]
  <2>1. PICK s \in subscriptions : s.id = id /\ s.key = key
    BY <1>3 DEF Ids, WithKey
  <2>2. id \in 1..lastId /\ id \in 0..MaxId
    BY <2>1, MaxIdAssumption DEF StorageInv, TypeOK, Ids
  <2>3. t \in Transaction
    BY <2>2 DEF Closed, Transaction
  <2>4. Phases(t) /\ t.written = {} /\ t.added = {} /\ t.gone = {} /\ t.deleted = {}
        /\ t.id = id /\ t.request[2] = key
    BY DEF Closed, Phases
  <2>5. s \in AllRows
    BY <2>1 DEF AllRows
  <2>6. \A r \in AllRows : r.id = id => r.key = key
    BY <2>1, <2>5 DEF StorageInv, TransactionsInv, IdsMeanKeys
  <2>7. tx' = [tx EXCEPT ![c] = t]
    BY <1>3 DEF Open
  <2> HIDE DEF t
  <2>8. Fits(c, t)
    BY <1>1, <2>2, <2>3, <2>4, <2>6, NothingFits
  <2> QED  BY <1>1, <2>7, <2>8, LocalStep
<1> QED  BY <1>2, <1>3 DEF SelectSubscription

\* INSERT ... ON CONFLICT: nobody else has or writes a row with the key.
LEMMA InsertSubscriptionCorrect ==
    ASSUME StorageInv, NEW c \in Callers, InsertSubscription(c)
    PROVE  StorageInv'
<1> DEFINE key == tx[c].request[2]
           chrome == tx[c].request[3]
           same == WithKey(subscriptions, key)
<1>1. /\ tx \in [Callers -> Transaction] /\ tx[c].pc = "insert"
      /\ lastId \in 0..MaxId /\ MaxId \in Nat /\ lastId < MaxId /\ lastId' = lastId + 1
      /\ key \in Keys /\ chrome \in Renderings /\ Phases(tx[c])
      /\ tx[c].request \in Emails \X Keys \X Renderings
  BY MaxIdAssumption DEF InsertSubscription, StorageInv, TypeOK, TransactionsInv, Phases
<1>2. PICK id \in IF same = {} THEN {lastId + 1} ELSE Ids(same) :
         tx' = [tx EXCEPT ![c] = [tx[c] EXCEPT !.pc = "refer", !.id = id,
                                              !.written = {Row(id, key, chrome)}]]
  BY DEF InsertSubscription, Goto
<1> DEFINE t == [tx[c] EXCEPT !.pc = "refer", !.id = id, !.written = {Row(id, key, chrome)}]
           w == Row(id, key, chrome)
<1>3. UNCHANGED tables /\ lastId' \in lastId..MaxId
  BY <1>1 DEF InsertSubscription, Goto, tables
<1>4. id \in 1..lastId'
  BY <1>1 DEF StorageInv, TypeOK, Ids, WithKey
<1>5. \A r \in AllRows : r.id = id => r.key = key
  <2>1. \A r \in AllRows : r.id \in 1..lastId
    BY DEF AllRows, StorageInv, TypeOK, Ids
  <2>2. CASE same = {}
    BY <1>1, <2>1, <2>2
  <2>3. CASE same # {}
    <3>1. PICK s \in subscriptions : s.id = id /\ s.key = key
      BY <2>3 DEF Ids, WithKey
    <3>2. s \in AllRows
      BY <3>1 DEF AllRows
    <3> QED  BY <3>1, <3>2 DEF StorageInv, TransactionsInv, IdsMeanKeys
  <2> QED  BY <2>2, <2>3
<1>6. \A s \in subscriptions : s.key = key => s.id = id
  BY DEF StorageInv, UniqueKeys, WithKey, Ids
<1>7. \A d \in Callers \ {c} : \A v \in tx[d].written : v.key # key
  BY DEF InsertSubscription, Others, WithKey
<1>8. /\ t.pc = "refer" /\ t.id = id /\ t.written = {w} /\ t.request = tx[c].request
      /\ t.added = {} /\ t.deleted = {} /\ t.removed = {} /\ t.gone = {}
  BY <1>1 DEF Phases, Transaction
<1>9. w \in Rows /\ w.id = id /\ w.key = key
  BY <1>1, <1>4 DEF Row, Rows
<1>10. t \in Transaction
  <2>1. tx[c] \in Transaction /\ id \in 0..MaxId /\ {w} \in SUBSET Rows
    BY <1>1, <1>4, <1>9
  <2> QED  BY <2>1 DEF Transaction
<1> HIDE DEF t, w, key, chrome, same
<1>11. Phases(t)
  BY <1>1, <1>8 DEF Phases
<1>12. \A r, s \in AllRows : r.id = s.id => r.key = s.key
  BY DEF StorageInv, TransactionsInv, IdsMeanKeys
<1>13. ASSUME NEW d \in Callers \ {c}, tx[d].pc = "refer" \/ tx[d].added # {}, id = tx[d].id
       PROVE  key = tx[d].request[2]
  <2>1. tx[d].id \in 1..lastId
    <3>1. CASE tx[d].pc = "refer"
      BY <3>1 DEF StorageInv, TypeOK
    <3>2. CASE tx[d].added # {}
      BY <3>2 DEF StorageInv, TypeOK, TransactionsInv, ReferredStay, Ids
    <3> QED  BY <1>13, <3>1, <3>2
  <2>2. same # {}
    BY <1>1, <1>2, <1>13, <2>1
  <2>3. PICK s \in subscriptions : s.id = id /\ s.key = key
    BY <1>2, <2>2 DEF Ids, WithKey, same
  <2> QED  BY <1>13, <2>3 DEF StorageInv, TransactionsInv, IdsMeanKeys, AllRows
<1>14. Ids(t.written) \subseteq 1..lastId'
  BY <1>4, <1>8, <1>9 DEF Ids
<1>15. t.request[2] = key
  BY <1>8 DEF key
<1>16. Fits(c, t)
  <2>1. \A r, s \in t.written \cup AllRows : r.id = s.id => r.key = s.key
    BY <1>5, <1>8, <1>9, <1>12
  <2>2. \A d \in Callers \ {c}, r \in t.written :
           (tx[d].pc = "refer" \/ tx[d].added # {}) /\ r.id = tx[d].id => r.key = tx[d].request[2]
    BY <1>8, <1>9, <1>13
  <2>3. \A r \in t.written \cup AllRows : r.id = t.id => r.key = t.request[2]
    BY <1>5, <1>8, <1>9, <1>15
  <2>4. \A v \in t.written :
          /\ \A s \in subscriptions : s.key = v.key => s.id = v.id
          /\ \A d \in Callers \ {c} : \A u \in tx[d].written : u.key # v.key
    BY <1>6, <1>7, <1>8, <1>9
  <2> QED  BY <1>4, <1>8, <1>10, <1>11, <1>14, <2>1, <2>2, <2>3, <2>4 DEF Fits
<1> QED  BY <1>2, <1>3, <1>16, LocalStep DEF t, key, chrome

\* What holds of a transaction before its step.
LEMMA Facts ==
    ASSUME StorageInv, NEW c \in Callers
    PROVE  /\ tx \in [Callers -> Transaction] /\ tx[c] \in Transaction
           /\ lastId \in 0..MaxId /\ MaxId \in Nat
           /\ Phases(tx[c]) /\ ReferredStay(c) /\ WrittenAlone(c) /\ DeletedWhole(c)
           /\ \A r, s \in AllRows : r.id = s.id => r.key = s.key
           /\ tx[c].written \subseteq AllRows /\ subscriptions \subseteq AllRows
           /\ \A r \in AllRows : r.id \in 1..lastId
           /\ references \in SUBSET References
<1>1. /\ tx \in [Callers -> Transaction] /\ lastId \in 0..MaxId /\ MaxId \in Nat
      /\ references \in SUBSET References
  BY MaxIdAssumption DEF StorageInv, TypeOK
<1>2. /\ Phases(tx[c]) /\ ReferredStay(c) /\ WrittenAlone(c) /\ DeletedWhole(c)
      /\ \A r, s \in AllRows : r.id = s.id => r.key = s.key
  BY DEF StorageInv, TransactionsInv, IdsMeanKeys
<1>3. tx[c].written \subseteq AllRows /\ subscriptions \subseteq AllRows
  BY DEF AllRows
<1>4. \A r \in AllRows : r.id \in 1..lastId
  <2>1. \A r \in AllRows : r \in subscriptions \/ \E d \in Callers : r \in tx[d].written
    BY DEF AllRows
  <2>2. \A d \in Callers : \A r \in subscriptions \cup tx[d].written : r.id \in 1..lastId
    BY DEF StorageInv, TypeOK, Ids
  <2>3. \A r \in subscriptions : r.id \in 1..lastId
    BY <2>2
  <2> QED  BY <2>1, <2>2, <2>3
<1> QED  BY <1>1, <1>2, <1>3, <1>4

\* INSERT of the reference: both rows are there, and nobody deletes them.
LEMMA InsertReferenceCorrect ==
    ASSUME StorageInv, NEW c \in Callers, InsertReference(c)
    PROVE  StorageInv'
<1> DEFINE email == tx[c].request[1]
           id == tx[c].id
           t == [tx[c] EXCEPT !.pc = "commit", !.added = {<<email, id>>}]
<1>1. /\ tx[c].pc = "refer" /\ tx' = [tx EXCEPT ![c] = t]
      /\ id \in Ids(subscriptions) \cup Ids(tx[c].written) /\ email \in subscribers
      /\ id \notin WrittenByOthers(c) /\ email \notin GoneByOthers(c)
      /\ UNCHANGED tables /\ UNCHANGED lastId
  BY DEF InsertReference, Goto, tables
<1>2. tx[c].request \in Emails \X Keys \X Renderings /\ id \in 1..lastId /\ lastId \in 0..MaxId
      /\ MaxId \in Nat /\ email \in Emails
  BY <1>1, Facts DEF Phases, StorageInv, TypeOK
<1>3. <<email, id>> \in References
  BY <1>2 DEF References
<1>4. t \in Transaction
  <2>1. tx[c] \in Transaction /\ {<<email, id>>} \in SUBSET References
    BY <1>3, Facts
  <2> QED  BY <2>1 DEF Transaction
<1>5. /\ t.pc = "commit" /\ t.added = {<<email, id>>} /\ t.id = id
      /\ t.request = tx[c].request /\ t.written = tx[c].written
      /\ t.deleted = {} /\ t.removed = {} /\ t.gone = {}
  BY <1>1, Facts DEF Phases, Transaction
<1> HIDE DEF t
<1>6. Phases(t)
  BY <1>2, <1>5, Facts DEF Phases
<1>7. \A d \in Callers \ {c} : email \notin tx[d].gone /\ id \notin tx[d].deleted
  BY <1>1 DEF WrittenByOthers, GoneByOthers, Others
<1>8. \A r \in AllRows : r.id = id => r.key = tx[c].request[2]
  BY <1>1 DEF StorageInv, TransactionsInv, IdsMeanKeys
<1>9. t.written \cup AllRows = AllRows
  BY <1>5, Facts
<1>10. Ids(t.written) \subseteq 1..lastId'
  BY <1>1, <1>5, Facts DEF Ids
<1>11. \A d \in Callers \ {c}, r \in t.written :
          (tx[d].pc = "refer" \/ tx[d].added # {}) /\ r.id = tx[d].id => r.key = tx[d].request[2]
  BY <1>9 DEF StorageInv, TransactionsInv, IdsMeanKeys
<1>12. \A a \in t.added :
          /\ a = <<t.request[1], t.id>>
          /\ a[1] \in subscribers
          /\ a[2] \in Ids(subscriptions) \cup Ids(t.written)
          /\ \A d \in Callers \ {c} : a[1] \notin tx[d].gone /\ a[2] \notin tx[d].deleted
  BY <1>1, <1>5, <1>7
<1>13. Fits(c, t)
  BY <1>4, <1>5, <1>6, <1>8, <1>9, <1>10, <1>11, <1>12, Facts DEF Fits, WrittenAlone
<1>14. lastId' \in lastId..MaxId
  BY <1>1, <1>2
<1> QED  BY <1>1, <1>13, <1>14, LocalStep

\* A removal that has deleted rows fits, if no other transaction refers to them and
\* all references to them are removed.
LEMMA RemovalFits ==
    ASSUME StorageInv, NEW c \in Callers, NEW t \in Transaction, Phases(t), UNCHANGED lastId,
           t.written = {}, t.added = {}, t.pc # "refer",
           \A d \in Callers \ {c} : \A a \in tx[d].added : a[1] \notin t.gone /\ a[2] \notin t.deleted,
           \A r \in references : r[1] \in t.gone \/ r[2] \in t.deleted => r \in t.removed
    PROVE  Fits(c, t)
<1>1. Ids(t.written) = {}
  BY DEF Ids
<1> QED  BY <1>1, Facts DEF Fits

\* DELETE of the reference.
LEMMA DeleteReferenceCorrect ==
    ASSUME StorageInv, NEW c \in Callers, NEW email \in Emails, NEW key \in Keys,
           DeleteReference(c, email, key)
    PROVE  StorageInv'
<1> DEFINE removed == {r \in references : r[1] = email /\ r[2] \in Ids(WithKey(subscriptions, key))}
           t == [Closed EXCEPT !.pc = "cleanup", !.request = <<email, key>>, !.removed = removed]
<1>1. tx' = [tx EXCEPT ![c] = t] /\ UNCHANGED tables /\ UNCHANGED lastId
  BY DEF DeleteReference, Open, tables
<1>2. <<email, key>> \in Emails \X Keys /\ removed \in SUBSET References
  BY Facts
<1>3. t \in Transaction
  BY <1>2, ClosedFits DEF Transaction
<1>4. /\ t.pc = "cleanup" /\ t.written = {} /\ t.added = {} /\ t.gone = {} /\ t.deleted = {}
      /\ Phases(t)
  BY DEF Closed, Phases
<1> HIDE DEF t
<1>5. Fits(c, t)
  BY <1>1, <1>3, <1>4, RemovalFits
<1>6. lastId' \in lastId..MaxId
  BY <1>1, Facts
<1> QED  BY <1>1, <1>5, <1>6, LocalStep

\* DELETE of the subscriber, with all references to it.
LEMMA DeleteSubscriberCorrect ==
    ASSUME StorageInv, NEW c \in Callers, NEW email \in Emails, DeleteSubscriber(c, email)
    PROVE  StorageInv'
<1> DEFINE removed == {r \in references : r[1] = email}
           t == [Closed EXCEPT !.pc = "cleanup", !.gone = {email}, !.removed = removed]
<1>1. /\ tx' = [tx EXCEPT ![c] = t] /\ UNCHANGED tables /\ UNCHANGED lastId
      /\ \A d \in Callers \ {c} : \A a \in tx[d].added : a[1] # email
  BY DEF DeleteSubscriber, Open, tables, AddedByOthers, Others
<1>2. removed \in SUBSET References
  BY Facts
<1>3. t \in Transaction
  BY <1>2, ClosedFits DEF Transaction
<1>4. /\ t.pc = "cleanup" /\ t.written = {} /\ t.added = {} /\ t.gone = {email} /\ t.deleted = {}
      /\ t.removed = removed /\ Phases(t)
  BY DEF Closed, Phases
<1> HIDE DEF t
<1>5. Fits(c, t)
  BY <1>1, <1>3, <1>4, RemovalFits
<1>6. lastId' \in lastId..MaxId
  BY <1>1, Facts
<1> QED  BY <1>1, <1>5, <1>6, LocalStep

\* Looking for rows to delete changes nothing.
LEMMA SelectUnreferencedCorrect ==
    ASSUME StorageInv, NEW c \in Callers, SelectUnreferenced(c)
    PROVE  StorageInv'
<1> DEFINE doomed == Ids(subscriptions) \ {r[2] : r \in references \ tx[c].removed}
           t == [tx[c] EXCEPT !.pc = "delete", !.doomed = doomed]
<1>1. /\ tx[c].pc = "cleanup" /\ tx' = [tx EXCEPT ![c] = t]
      /\ UNCHANGED tables /\ UNCHANGED lastId
  BY DEF SelectUnreferenced, Goto, tables
<1>2. doomed \in SUBSET (1..MaxId)
  BY Facts DEF Ids
<1>3. t \in Transaction
  BY <1>2, Facts, ZenonT(40) DEF Transaction
<1>4. /\ t.pc = "delete" /\ t.written = {} /\ t.added = {} /\ t.deleted = {}
      /\ t.gone = tx[c].gone /\ t.removed = tx[c].removed
  BY <1>1, Facts DEF Phases, Transaction
<1> HIDE DEF t
<1>5. Phases(t)
  BY <1>4 DEF Phases
<1>6. \A d \in Callers \ {c} : \A a \in tx[d].added : a[1] \notin t.gone
  BY <1>4 DEF StorageInv, TransactionsInv, ReferredStay
<1>7. Fits(c, t)
  BY <1>1, <1>3, <1>4, <1>5, <1>6, Facts, RemovalFits DEF DeletedWhole
<1>8. lastId' \in lastId..MaxId
  BY <1>1, Facts
<1> QED  BY <1>1, <1>7, <1>8, LocalStep

\* DELETE of the rows found: it waited for those who refer to one, and takes their
\* references with it.
LEMMA DeleteUnreferencedCorrect ==
    ASSUME StorageInv, NEW c \in Callers, DeleteUnreferenced(c)
    PROVE  StorageInv'
<1> DEFINE deleted == tx[c].doomed \cap Ids(subscriptions)
           t == [tx[c] EXCEPT !.pc = "commit", !.doomed = {}, !.deleted = deleted,
                              !.removed = @ \cup Cascade(deleted)]
<1>1. /\ tx[c].pc = "delete" /\ tx' = [tx EXCEPT ![c] = t]
      /\ UNCHANGED tables /\ UNCHANGED lastId
      /\ deleted \cap (WrittenByOthers(c) \cup ReferredByOthers(c)) = {}
  BY DEF DeleteUnreferenced, Goto, tables
<1>2. deleted \in SUBSET (1..MaxId) /\ Cascade(deleted) \in SUBSET References
  BY Facts DEF Ids, Cascade, Transaction
<1>3. tx[c].removed \in SUBSET References
  BY Facts DEF Transaction
<1>4. t \in Transaction
  BY <1>2, <1>3, Facts, ZenonT(40) DEF Transaction
<1>5. /\ t.pc = "commit" /\ t.written = {} /\ t.added = {} /\ t.deleted = deleted
      /\ t.gone = tx[c].gone /\ t.removed = tx[c].removed \cup Cascade(deleted)
  BY <1>1, Facts DEF Phases, Transaction
<1> HIDE DEF t
<1>6. Phases(t)
  BY <1>5 DEF Phases
<1>7. \A d \in Callers \ {c} : \A a \in tx[d].added : a[1] \notin t.gone /\ a[2] \notin t.deleted
  <2>1. \A d \in Callers \ {c} : \A a \in tx[d].added : a[1] \notin t.gone
    BY <1>5 DEF StorageInv, TransactionsInv, ReferredStay
  <2>2. \A d \in Callers \ {c} : \A a \in tx[d].added : a[2] \in ReferredByOthers(c)
    BY DEF ReferredByOthers, Others
  <2> QED  BY <1>1, <1>5, <2>1, <2>2
<1>8. \A r \in references : r[1] \in t.gone \/ r[2] \in t.deleted => r \in t.removed
  BY <1>5, Facts DEF Cascade, DeletedWhole, Phases
<1>9. Fits(c, t)
  BY <1>1, <1>4, <1>5, <1>6, <1>7, <1>8, RemovalFits
<1>10. lastId' \in lastId..MaxId
  BY <1>1, Facts
<1> QED  BY <1>1, <1>9, <1>10, LocalStep

\* What is left of each table after a commit of c.
LEMMA CommitTables ==
    ASSUME StorageInv, NEW c \in Callers, Commit(c)
    PROVE  /\ \A r \in subscriptions' : r \in tx[c].written \/
                 (r \in subscriptions /\ r.id \notin tx[c].deleted \cup Ids(tx[c].written))
           /\ tx[c].written \subseteq subscriptions'
           /\ \A i \in Ids(subscriptions) \ tx[c].deleted : i \in Ids(subscriptions')
           /\ Ids(tx[c].written) \subseteq Ids(subscriptions')
           /\ subscribers' = subscribers \ tx[c].gone
           /\ references' = (references \ tx[c].removed) \cup tx[c].added
           /\ tx'[c] = Closed /\ (\A d \in Callers \ {c} : tx'[d] = tx[d])
           /\ AllRows' \subseteq AllRows
           /\ lastId' = lastId
<1>1. /\ subscriptions' = {r \in subscriptions : r.id \notin tx[c].deleted \cup Ids(tx[c].written)}
                             \cup tx[c].written
      /\ subscribers' = subscribers \ tx[c].gone
      /\ references' = (references \ tx[c].removed) \cup tx[c].added
      /\ tx' = [tx EXCEPT ![c] = Closed]
      /\ lastId' = lastId
  BY DEF Commit
<1>2. tx'[c] = Closed /\ (\A d \in Callers \ {c} : tx'[d] = tx[d])
  BY <1>1, Facts
<1>3. \A i \in Ids(subscriptions) \ tx[c].deleted : i \in Ids(subscriptions')
  BY <1>1 DEF Ids
<1>4. Ids(tx[c].written) \subseteq Ids(subscriptions')
  BY <1>1 DEF Ids
<1>5. AllRows' \subseteq AllRows
  <2>1. subscriptions' \subseteq AllRows
    BY <1>1, Facts
  <2>2. \A d \in Callers : tx'[d].written \subseteq AllRows
    BY <1>2, Facts DEF Closed, AllRows
  <2> QED  BY <2>1, <2>2 DEF AllRows
<1> QED  BY <1>1, <1>2, <1>3, <1>4, <1>5

\* A commit keeps what the others rely on.
LEMMA CommitCorrect ==
    ASSUME StorageInv, NEW c \in Callers, Commit(c)
    PROVE  StorageInv'
<1> USE CommitTables
<1>1. TypeOK'
  <2>1. subscriptions' \in SUBSET Rows /\ subscribers' \in SUBSET Emails
        /\ references' \in SUBSET References
    BY Facts DEF StorageInv, TypeOK, Transaction
  <2>2. tx' \in [Callers -> Transaction]
    BY Facts, ClosedFits DEF Commit
  <2>3. \A d \in Callers : Ids(subscriptions' \cup tx'[d].written) \subseteq 1..lastId'
    <3>1. \A d \in Callers : subscriptions' \cup tx'[d].written \subseteq AllRows'
      BY DEF AllRows
    <3> QED  BY <3>1, Facts DEF Ids
  <2>4. \A d \in Callers : tx'[d].pc = "refer" => tx'[d].id \in 1..lastId'
    BY ClosedFits DEF StorageInv, TypeOK
  <2> QED  BY <2>1, <2>2, <2>3, <2>4, Facts DEF TypeOK
<1>2. UniqueKeys'
  <2> SUFFICES ASSUME NEW r \in subscriptions', NEW s \in subscriptions', r.key = s.key
               PROVE  r = s
    BY DEF UniqueKeys
  <2>1. CASE r \in tx[c].written /\ s \in tx[c].written
    BY <2>1, Facts DEF Phases
  <2>2. CASE r \notin tx[c].written /\ s \notin tx[c].written
    BY <2>2 DEF StorageInv, UniqueKeys
  <2>3. CASE r \in tx[c].written /\ s \notin tx[c].written
    BY <2>3, Facts DEF WrittenAlone, Ids
  <2>4. CASE r \notin tx[c].written /\ s \in tx[c].written
    BY <2>4, Facts DEF WrittenAlone, Ids
  <2> QED  BY <2>1, <2>2, <2>3, <2>4
<1>3. NothingDangles'
  <2> SUFFICES ASSUME NEW r \in references' PROVE r[1] \in subscribers' /\ r[2] \in Ids(subscriptions')
    BY DEF NothingDangles
  <2>1. CASE r \in tx[c].added
    BY <2>1, Facts DEF ReferredStay, Phases
  <2>2. CASE r \in references \ tx[c].removed
    BY <2>2, Facts DEF DeletedWhole, StorageInv, NothingDangles
  <2> QED  BY <2>1, <2>2
<1>4. IdsMeanKeys'
  <2>1. \A r, s \in AllRows' : r.id = s.id => r.key = s.key
    BY Facts
  <2>2. ASSUME NEW d \in Callers, NEW r \in AllRows',
               tx'[d].pc = "refer" \/ tx'[d].added # {}, r.id = tx'[d].id
        PROVE  r.key = tx'[d].request[2]
    <3>1. d # c
      BY <2>2 DEF Closed
    <3> QED  BY <2>2, <3>1 DEF StorageInv, TransactionsInv, IdsMeanKeys
  <2> QED  BY <2>1, <2>2 DEF IdsMeanKeys
<1>5. ASSUME NEW d \in Callers
      PROVE  (Phases(tx[d]) /\ ReferredStay(d) /\ WrittenAlone(d) /\ DeletedWhole(d))'
  <2>1. CASE d = c
    BY <2>1, ClosedFits DEF Closed, ReferredStay, WrittenAlone, DeletedWhole
  <2>2. CASE d # c
    <3>1. Phases(tx[d]) /\ ReferredStay(d) /\ WrittenAlone(d) /\ DeletedWhole(d) /\ tx'[d] = tx[d]
      BY <2>2, Facts
    <3>2. ReferredStay(c) /\ WrittenAlone(c)
      BY Facts
    <3>3. Phases(tx[d])'
      BY <3>1 DEF Phases
    <3>4. ReferredStay(d)'
      <4> SUFFICES ASSUME NEW a \in tx[d].added
                   PROVE  /\ a = <<tx[d].request[1], tx[d].id>>
                          /\ a[1] \in subscribers'
                          /\ a[2] \in Ids(subscriptions') \cup Ids(tx[d].written)
                          /\ \A e \in Callers \ {d} : a[1] \notin tx'[e].gone /\ a[2] \notin tx'[e].deleted
        BY <3>1 DEF ReferredStay
      <4>1. \A e \in Callers \ {d} : a[1] \notin tx[e].gone /\ a[2] \notin tx[e].deleted
        BY <3>1 DEF ReferredStay
      <4>2. \A e \in Callers \ {d} : a[1] \notin tx'[e].gone /\ a[2] \notin tx'[e].deleted
        BY <4>1 DEF Closed
      <4> QED  BY <2>2, <3>1, <4>1, <4>2 DEF ReferredStay
    <3>5. WrittenAlone(d)'
      <4> SUFFICES ASSUME NEW w \in tx[d].written
                   PROVE  /\ \A s \in subscriptions' : s.key = w.key => s.id = w.id
                          /\ \A e \in Callers \ {d} : \A v \in tx'[e].written : v.key # w.key
        BY <3>1 DEF WrittenAlone
      <4>1. \A e \in Callers \ {d} : \A v \in tx[e].written : v.key # w.key
        BY <3>1 DEF WrittenAlone
      <4>2. \A e \in Callers \ {d} : \A v \in tx'[e].written : v.key # w.key
        BY <4>1 DEF Closed
      <4> QED  BY <2>2, <3>1, <4>1, <4>2 DEF WrittenAlone
    <3>6. DeletedWhole(d)'
      <4> SUFFICES ASSUME NEW r \in references', r[1] \in tx[d].gone \/ r[2] \in tx[d].deleted
                   PROVE  r \in tx[d].removed
        BY <3>1 DEF DeletedWhole
      <4>1. r \notin tx[c].added
        BY <2>2, <3>2 DEF ReferredStay
      <4> QED  BY <3>1, <4>1 DEF DeletedWhole
    <3> QED  BY <3>3, <3>4, <3>5, <3>6
  <2> QED  BY <2>1, <2>2
<1> QED  BY <1>1, <1>2, <1>3, <1>4, <1>5 DEF StorageInv, TransactionsInv

\* What every commit of an added reference leaves in the tables.
AddedRows(c) ==
    Commit(c) /\ tx[c].added # {} =>
        /\ tx[c].request[1] \in subscribers'
        /\ \E r \in subscriptions' :
              /\ r.key = tx[c].request[2]
              /\ <<tx[c].request[1], r.id>> \in references'

\* A commit keeps them so: the row is there, and has the key asked for.
LEMMA CommitAdds ==
    ASSUME StorageInv, NEW c \in Callers PROVE AddedRows(c)
<1> SUFFICES ASSUME Commit(c), NEW a \in tx[c].added
             PROVE  /\ tx[c].request[1] \in subscribers'
                    /\ \E r \in subscriptions' :
                          /\ r.key = tx[c].request[2]
                          /\ <<tx[c].request[1], r.id>> \in references'
  BY DEF AddedRows
<1>1. /\ a = <<tx[c].request[1], tx[c].id>> /\ a[1] \in subscribers
      /\ a[2] \in Ids(subscriptions) \cup Ids(tx[c].written)
      /\ tx[c].gone = {} /\ tx[c].deleted = {}
  BY Facts DEF ReferredStay, Phases
<1>2. a \in references' /\ tx[c].request[1] \in subscribers'
  BY <1>1, CommitTables
<1>3. PICK r \in subscriptions' : r.id = tx[c].id
  BY <1>1, CommitTables DEF Ids
<1>4. r \in AllRows
  BY <1>3, CommitTables, Facts
<1>5. r.key = tx[c].request[2]
  BY <1>3, <1>4 DEF StorageInv, TransactionsInv, IdsMeanKeys
<1> QED  BY <1>1, <1>2, <1>3, <1>5

\* The same, of the directory.
LEMMA CommitAddsToDirectory ==
    ASSUME StorageInv, NEW c \in Callers, Commit(c), tx[c].added # {}
    PROVE  tx[c].request[2] \in Directory'[tx[c].request[1]].subscriptions
<1> DEFINE email == tx[c].request[1]
           held == {s.key : s \in {t \in subscriptions' : <<email, t.id>> \in references'}}
<1>1. PICK r \in subscriptions' : r.key = tx[c].request[2] /\ <<email, r.id>> \in references'
  BY CommitAdds DEF AddedRows
<1>2. email \in subscribers'
  BY CommitAdds DEF AddedRows
<1>3. Directory'[email] = [limit |-> 0, subscriptions |-> held]
  BY <1>2 DEF Directory
<1>4. tx[c].request[2] \in held
  BY <1>1
<1> QED  BY <1>3, <1>4, SMTT(30)

\* Every step keeps the invariant.
LEMMA NextCorrect == StorageInv /\ [Next]_vars => StorageInv'
<1> SUFFICES ASSUME StorageInv, [Next]_vars PROVE StorageInv'
  OBVIOUS
<1>1. CASE UNCHANGED vars
  BY <1>1 DEF vars, StorageInv, TypeOK, UniqueKeys, NothingDangles, TransactionsInv, IdsMeanKeys,
              AllRows, ReferredStay, WrittenAlone, DeletedWhole
<1>2. CASE Next
  BY <1>2, AddSubscriberCorrect, SelectSubscriptionCorrect, InsertSubscriptionCorrect,
     InsertReferenceCorrect, DeleteReferenceCorrect, DeleteSubscriberCorrect,
     SelectUnreferencedCorrect, DeleteUnreferencedCorrect, CommitCorrect, RollBackCorrect DEF Next
<1> QED  BY <1>1, <1>2

\* The inductive invariant holds: rows, keys, references and the transactions under way
\* stay consistent, whatever the transactions and however they interleave.
THEOREM StorageCorrect == Spec => []StorageInv
BY InitCorrect, NextCorrect, PTL DEF Spec

\* The tables and the transactions are well typed, and no row has an id not given out.
THEOREM TypeCorrect == Spec => []TypeOK
<1>1. StorageInv => TypeOK
  BY DEF StorageInv
<1> QED  BY <1>1, StorageCorrect, PTL

\* No two subscriptions have the same key, although AddSubscription looks first and
\* inserts later.
THEOREM KeysUnique == Spec => []UniqueKeys
<1>1. StorageInv => UniqueKeys
  BY DEF StorageInv
<1> QED  BY <1>1, StorageCorrect, PTL

\* No reference is left to a subscriber or a subscription that was deleted.
THEOREM ReferencesHold == Spec => []NothingDangles
<1>1. StorageInv => NothingDangles
  BY DEF StorageInv
<1> QED  BY <1>1, StorageCorrect, PTL

\* What the transactions rely on until they end.
THEOREM LocksHold == Spec => []TransactionsInv
<1>1. StorageInv => TransactionsInv
  BY DEF StorageInv
<1> QED  BY <1>1, StorageCorrect, PTL

\* AddSubscription commits what it was asked for, whatever was deleted or inserted
\* between its statements.
THEOREM AdditionCorrect == Spec => AddedAsRequested
<1>1. StorageInv /\ [Next]_vars =>
         [\A c \in Callers :
             Commit(c) /\ tx[c].added # {} =>
                 tx[c].request[2] \in Directory'[tx[c].request[1]].subscriptions]_vars
  BY CommitAddsToDirectory
<1> QED  BY <1>1, StorageCorrect, PTL DEF Spec, AddedAsRequested

----------------------------------------------------------------------------
(* Until transactions overlap.                                              *)

Referenced(refs) == {r[2] : r \in refs}

\* A row c wrote is the one it refers to in the end.  What c removes is what was asked
\* for, of the tables as they still are; and it deletes the rows that leaves unreferenced.
Removal(t) ==
    \/ /\ t.gone = {} /\ t.request \in Emails \X Keys /\ t.removed # {}
       /\ t.removed = {r \in references : /\ r[1] = t.request[1]
                                          /\ r[2] \in Ids(WithKey(subscriptions, t.request[2]))}
    \/ \E email \in subscribers :
          t.gone = {email} /\ t.removed = {r \in references : r[1] = email}
Alone(c) ==
    /\ \A w \in tx[c].written : w.id = tx[c].id
    /\ tx[c].written # {} => tx[c].pc = "refer" \/ tx[c].added # {}
    /\ tx[c].added \cap references = {}
    /\ tx[c].pc \in {"cleanup", "delete"} \/ (tx[c].pc = "commit" /\ tx[c].added = {}) =>
           Removal(tx[c])
    /\ tx[c].pc = "delete" =>
           tx[c].doomed = Ids(subscriptions) \ Referenced(references \ tx[c].removed)
    /\ tx[c].pc = "commit" /\ tx[c].added = {} =>
           tx[c].deleted = Ids(subscriptions) \ Referenced(references \ tx[c].removed)

OneOpen == \A c, d \in Callers : ~ Idle(c) /\ ~ Idle(d) => c = d
NoGarbage == \A s \in subscriptions : s.id \in Referenced(references)

SerialInv == ~ overlapped => OneOpen /\ NoGarbage /\ \A c \in Callers : Alone(c)

\* A step of the one transaction that is open, or that is opened, before its commit.
LEMMA SerialStep ==
    ASSUME StorageInv, StorageInv', SerialInv, NEW c \in Callers, NEW t,
           tx' = [tx EXCEPT ![c] = t], UNCHANGED tables, ~ overlapped',
           ~ overlapped, \A d \in Callers \ {c} : Idle(d),
           t.pc = "idle" \/ Alone(c)'
    PROVE  SerialInv'
<1>1. /\ subscriptions' = subscriptions /\ subscribers' = subscribers /\ references' = references
      /\ tx'[c] = t /\ \A d \in Callers \ {c} : tx'[d] = tx[d]
  BY Facts DEF tables
<1>2. OneOpen' /\ NoGarbage'
  BY <1>1 DEF OneOpen, NoGarbage, SerialInv, Idle
<1>3. ASSUME NEW d \in Callers, tx'[d].pc = "idle" PROVE Alone(d)'
  <2>1. Phases(tx[d])'
    BY DEF StorageInv, TransactionsInv
  <2> QED  BY <1>3, <2>1 DEF Phases, Alone
<1>4. \A d \in Callers : Alone(d)'
  BY <1>1, <1>3 DEF Idle
<1> QED  BY <1>2, <1>4 DEF SerialInv

\* Who opens a transaction is alone.
LEMMA OpenedAlone ==
    ASSUME StorageInv, NEW c \in Callers, NEW t, Open(c, t), ~ overlapped'
    PROVE  /\ ~ overlapped /\ \A d \in Callers : Idle(d)
           /\ tx' = [tx EXCEPT ![c] = t] /\ tx'[c] = t /\ UNCHANGED tables
           /\ references' = references /\ subscriptions' = subscriptions
           /\ subscribers' = subscribers
<1>1. overlapped' = (overlapped \/ \E d \in Callers : ~ Idle(d))
  BY DEF Open
<1> QED  BY <1>1, Facts DEF Open, tables

\* So is who goes on with one.
LEMMA GoesOnAlone ==
    ASSUME StorageInv, SerialInv, NEW c \in Callers, NEW t, Goto(c, t), ~ Idle(c), ~ overlapped'
    PROVE  /\ ~ overlapped /\ (\A d \in Callers \ {c} : Idle(d)) /\ Alone(c)
           /\ tx' = [tx EXCEPT ![c] = t] /\ tx'[c] = t /\ UNCHANGED tables
           /\ references' = references /\ subscriptions' = subscriptions
           /\ subscribers' = subscribers
BY Facts DEF Goto, SerialInv, OneOpen, tables

LEMMA SerialAddSubscriber ==
    ASSUME StorageInv, StorageInv', NEW c \in Callers, NEW email \in Emails,
           AddSubscriber(c, email), SerialInv
    PROVE  SerialInv'
<1> SUFFICES ASSUME ~ overlapped' PROVE (OneOpen /\ NoGarbage /\ \A d \in Callers : Alone(d))'
  BY DEF SerialInv
<1>1. ~ overlapped /\ (\A d \in Callers : Idle(d)) /\ tx' = tx
      /\ subscriptions' = subscriptions /\ references' = references
  BY DEF AddSubscriber
<1>2. OneOpen' /\ NoGarbage'
  BY <1>1 DEF OneOpen, NoGarbage, SerialInv, Idle
<1>3. ASSUME NEW d \in Callers PROVE Alone(d)'
  <2>1. Phases(tx[d])' /\ tx'[d].pc = "idle"
    BY <1>1 DEF StorageInv, TransactionsInv, Idle
  <2> QED  BY <2>1 DEF Phases, Alone
<1> QED  BY <1>2, <1>3

LEMMA SerialSelect ==
    ASSUME StorageInv, StorageInv', NEW c \in Callers, NEW email \in Emails, NEW key \in Keys,
           NEW chrome \in Renderings, SelectSubscription(c, email, key, chrome), SerialInv
    PROVE  SerialInv'
<1> SUFFICES ASSUME ~ overlapped' PROVE SerialInv'
  BY DEF SerialInv
<1>1. PICK t : Open(c, t) /\ t.pc \in {"insert", "refer"} /\ t.written = {} /\ t.added = {}
  <2>1. CASE Open(c, [Closed EXCEPT !.pc = "insert", !.request = <<email, key, chrome>>])
    <3> DEFINE t == [Closed EXCEPT !.pc = "insert", !.request = <<email, key, chrome>>]
    <3>1. t.pc = "insert" /\ t.written = {} /\ t.added = {}
      BY DEF Closed
    <3>2. Open(c, t)
      BY <2>1
    <3> HIDE DEF t
    <3> QED  BY <3>1, <3>2
  <2>2. ASSUME NEW id,
               Open(c, [Closed EXCEPT !.pc = "refer", !.id = id, !.request = <<email, key, chrome>>])
        PROVE  \E t : Open(c, t) /\ t.pc \in {"insert", "refer"} /\ t.written = {} /\ t.added = {}
    <3> DEFINE t == [Closed EXCEPT !.pc = "refer", !.id = id, !.request = <<email, key, chrome>>]
    <3>1. t.pc = "refer" /\ t.written = {} /\ t.added = {}
      BY DEF Closed
    <3>2. Open(c, t)
      BY <2>2
    <3> HIDE DEF t
    <3> QED  BY <3>1, <3>2
  <2> QED  BY <2>1, <2>2 DEF SelectSubscription
<1>2. /\ ~ overlapped /\ (\A d \in Callers : Idle(d)) /\ tx' = [tx EXCEPT ![c] = t]
      /\ tx'[c] = t /\ UNCHANGED tables
  BY <1>1, OpenedAlone
<1>3. Alone(c)'
  BY <1>1, <1>2 DEF Alone
<1> QED  BY <1>2, <1>3, SerialStep

LEMMA SerialInsertSubscription ==
    ASSUME StorageInv, StorageInv', NEW c \in Callers, InsertSubscription(c), SerialInv
    PROVE  SerialInv'
<1> SUFFICES ASSUME ~ overlapped' PROVE SerialInv'
  BY DEF SerialInv
<1>1. tx[c].pc = "insert" /\ tx[c].added = {} /\ tx[c] \in Transaction
  BY Facts DEF InsertSubscription, Phases
<1>2. PICK t : /\ Goto(c, t) /\ t.pc = "refer" /\ t.added = {}
               /\ \A w \in t.written : w.id = t.id
  <2>1. PICK id, key, chrome :
           Goto(c, [tx[c] EXCEPT !.pc = "refer", !.id = id, !.written = {Row(id, key, chrome)}])
    BY DEF InsertSubscription
  <2> DEFINE t == [tx[c] EXCEPT !.pc = "refer", !.id = id, !.written = {Row(id, key, chrome)}]
  <2>2. t.pc = "refer" /\ t.id = id /\ t.added = {} /\ t.written = {Row(id, key, chrome)}
    BY <1>1 DEF Transaction
  <2>3. Row(id, key, chrome).id = id
    BY DEF Row
  <2> HIDE DEF t
  <2>4. \A w \in t.written : w.id = t.id
    BY <2>2, <2>3
  <2>5. Goto(c, t)
    BY <2>1 DEF t
  <2> QED  BY <2>2, <2>4, <2>5
<1>3. ~ Idle(c)
  BY <1>1 DEF Idle
<1>4. /\ ~ overlapped /\ (\A d \in Callers \ {c} : Idle(d)) /\ tx' = [tx EXCEPT ![c] = t]
      /\ tx'[c] = t /\ UNCHANGED tables
  BY <1>2, <1>3, GoesOnAlone
<1>5. Alone(c)'
  BY <1>2, <1>4 DEF Alone
<1> QED  BY <1>4, <1>5, SerialStep

LEMMA SerialInsertReference ==
    ASSUME StorageInv, StorageInv', NEW c \in Callers, InsertReference(c), SerialInv
    PROVE  SerialInv'
<1> SUFFICES ASSUME ~ overlapped' PROVE SerialInv'
  BY DEF SerialInv
<1> DEFINE a == <<tx[c].request[1], tx[c].id>>
           t == [tx[c] EXCEPT !.pc = "commit", !.added = {a}]
<1>1. tx[c].pc = "refer" /\ Goto(c, t) /\ a \notin references /\ ~ Idle(c)
  BY DEF InsertReference, Idle
<1>2. /\ t.pc = "commit" /\ t.added = {a} /\ t.written = tx[c].written /\ t.id = tx[c].id
  BY Facts DEF Transaction
<1> HIDE DEF t, a
<1>3. /\ ~ overlapped /\ (\A d \in Callers \ {c} : Idle(d)) /\ tx' = [tx EXCEPT ![c] = t]
      /\ tx'[c] = t /\ UNCHANGED tables /\ Alone(c) /\ references' = references
  BY <1>1, GoesOnAlone
<1>4. Alone(c)'
  BY <1>1, <1>2, <1>3 DEF Alone
<1> QED  BY <1>3, <1>4, SerialStep

\* A removal that begins.
LEMMA SerialRemoval ==
    ASSUME StorageInv, StorageInv', NEW c \in Callers, NEW t, Open(c, t), SerialInv,
           t.pc = "cleanup", t.written = {}, t.added = {}, Removal(t)
    PROVE  SerialInv'
<1> SUFFICES ASSUME ~ overlapped' PROVE SerialInv'
  BY DEF SerialInv
<1>1. /\ ~ overlapped /\ (\A d \in Callers : Idle(d)) /\ tx' = [tx EXCEPT ![c] = t]
      /\ tx'[c] = t /\ UNCHANGED tables
      /\ references' = references /\ subscriptions' = subscriptions /\ subscribers' = subscribers
  BY OpenedAlone
<1>2. Removal(tx[c])'
  BY <1>1 DEF Removal
<1>3. Alone(c)'
  BY <1>1, <1>2 DEF Alone
<1> QED  BY <1>1, <1>3, SerialStep

LEMMA SerialDeleteReference ==
    ASSUME StorageInv, StorageInv', NEW c \in Callers, NEW email \in Emails, NEW key \in Keys,
           DeleteReference(c, email, key), SerialInv
    PROVE  SerialInv'
<1> DEFINE removed == {r \in references : r[1] = email /\ r[2] \in Ids(WithKey(subscriptions, key))}
           t == [Closed EXCEPT !.pc = "cleanup", !.request = <<email, key>>, !.removed = removed]
<1>1. Open(c, t) /\ removed # {}
  BY DEF DeleteReference
<1>2. /\ t.pc = "cleanup" /\ t.written = {} /\ t.added = {} /\ t.gone = {} /\ t.removed = removed
      /\ t.request = <<email, key>> /\ t.request \in Emails \X Keys
      /\ t.request[1] = email /\ t.request[2] = key
  BY DEF Closed
<1> HIDE DEF t
<1>3. Removal(t)
  BY <1>1, <1>2 DEF Removal
<1> QED  BY <1>1, <1>2, <1>3, SerialRemoval

LEMMA SerialDeleteSubscriber ==
    ASSUME StorageInv, StorageInv', NEW c \in Callers, NEW email \in Emails,
           DeleteSubscriber(c, email), SerialInv
    PROVE  SerialInv'
<1> DEFINE removed == {r \in references : r[1] = email}
           t == [Closed EXCEPT !.pc = "cleanup", !.gone = {email}, !.removed = removed]
<1>1. Open(c, t) /\ email \in subscribers
  BY DEF DeleteSubscriber
<1>2. t.pc = "cleanup" /\ t.written = {} /\ t.added = {} /\ t.gone = {email} /\ t.removed = removed
  BY DEF Closed
<1> HIDE DEF t
<1>3. Removal(t)
  BY <1>1, <1>2 DEF Removal
<1> QED  BY <1>1, <1>2, <1>3, SerialRemoval

\* The clean-up selects the rows that are about to be unreferenced.
LEMMA SerialSelectUnreferenced ==
    ASSUME StorageInv, StorageInv', NEW c \in Callers, SelectUnreferenced(c), SerialInv
    PROVE  SerialInv'
<1> SUFFICES ASSUME ~ overlapped' PROVE SerialInv'
  BY DEF SerialInv
<1> DEFINE doomed == Ids(subscriptions) \ Referenced(references \ tx[c].removed)
           t == [tx[c] EXCEPT !.pc = "delete", !.doomed = doomed]
<1>1. tx[c].pc = "cleanup" /\ Goto(c, t) /\ ~ Idle(c)
  BY DEF SelectUnreferenced, Idle, Referenced
<1>2. /\ t.pc = "delete" /\ t.doomed = doomed /\ t.request = tx[c].request
      /\ t.written = tx[c].written /\ t.id = tx[c].id /\ t.added = tx[c].added
      /\ t.gone = tx[c].gone /\ t.removed = tx[c].removed
      /\ tx[c].written = {} /\ tx[c].added = {}
  BY <1>1, Facts DEF Transaction, Phases
<1>3. /\ ~ overlapped /\ (\A d \in Callers \ {c} : Idle(d)) /\ tx' = [tx EXCEPT ![c] = t]
      /\ tx'[c] = t /\ UNCHANGED tables /\ Alone(c)
      /\ references' = references /\ subscriptions' = subscriptions /\ subscribers' = subscribers
  BY <1>1, GoesOnAlone
<1>4. Removal(tx[c])
  BY <1>1, <1>3 DEF Alone
<1> HIDE DEF t
<1>5. Removal(tx[c])'
  BY <1>2, <1>3, <1>4 DEF Removal
<1>6. tx'[c].doomed = Ids(subscriptions') \ Referenced(references' \ tx'[c].removed)
  BY <1>2, <1>3
<1>7. Alone(c)'
  BY <1>2, <1>3, <1>5, <1>6 DEF Alone
<1> QED  BY <1>3, <1>7, SerialStep

\* And deletes them: no reference is left to one, so none goes with them.
LEMMA SerialDeleteUnreferenced ==
    ASSUME StorageInv, StorageInv', NEW c \in Callers, DeleteUnreferenced(c), SerialInv
    PROVE  SerialInv'
<1> SUFFICES ASSUME ~ overlapped' PROVE SerialInv'
  BY DEF SerialInv
<1> DEFINE deleted == tx[c].doomed \cap Ids(subscriptions)
           t == [tx[c] EXCEPT !.pc = "commit", !.doomed = {}, !.deleted = deleted,
                              !.removed = @ \cup Cascade(deleted)]
<1>1. tx[c].pc = "delete" /\ Goto(c, t) /\ ~ Idle(c)
  BY DEF DeleteUnreferenced, Idle
<1>2. /\ t.pc = "commit" /\ t.deleted = deleted /\ t.request = tx[c].request
      /\ t.written = tx[c].written /\ t.id = tx[c].id /\ t.added = tx[c].added
      /\ t.gone = tx[c].gone /\ t.removed = tx[c].removed \cup Cascade(deleted)
      /\ tx[c].written = {} /\ tx[c].added = {}
  BY <1>1, Facts DEF Transaction, Phases
<1>3. /\ ~ overlapped /\ (\A d \in Callers \ {c} : Idle(d)) /\ tx' = [tx EXCEPT ![c] = t]
      /\ tx'[c] = t /\ UNCHANGED tables /\ Alone(c)
      /\ references' = references /\ subscriptions' = subscriptions /\ subscribers' = subscribers
  BY <1>1, GoesOnAlone
<1>4. /\ Removal(tx[c])
      /\ tx[c].doomed = Ids(subscriptions) \ Referenced(references \ tx[c].removed)
  BY <1>1, <1>3 DEF Alone
<1>5. Cascade(deleted) \subseteq tx[c].removed
  BY <1>4 DEF Cascade, Referenced
<1>6. deleted = Ids(subscriptions) \ Referenced(references \ tx[c].removed)
  BY <1>4
<1> HIDE DEF t, deleted
<1>7. t.removed = tx[c].removed
  BY <1>2, <1>5
<1>8. Removal(tx[c])'
  BY <1>2, <1>3, <1>4, <1>7 DEF Removal
<1>9. tx'[c].deleted = Ids(subscriptions') \ Referenced(references' \ tx'[c].removed)
  BY <1>2, <1>3, <1>6, <1>7
<1>10. Alone(c)'
  BY <1>2, <1>3, <1>8, <1>9 DEF Alone
<1> QED  BY <1>3, <1>10, SerialStep

LEMMA SerialRollBack ==
    ASSUME StorageInv, StorageInv', NEW c \in Callers, RollBack(c), SerialInv
    PROVE  SerialInv'
<1> SUFFICES ASSUME ~ overlapped' PROVE SerialInv'
  BY DEF SerialInv
<1>1. ~ Idle(c) /\ Goto(c, Closed)
  BY DEF RollBack
<1>2. /\ ~ overlapped /\ (\A d \in Callers \ {c} : Idle(d)) /\ tx' = [tx EXCEPT ![c] = Closed]
      /\ UNCHANGED tables
  BY <1>1, GoesOnAlone
<1>3. Closed.pc = "idle"
  BY DEF Closed
<1> QED  BY <1>2, <1>3, SerialStep

\* The commit leaves every row with a reference, and no transaction open.
LEMMA SerialCommit ==
    ASSUME StorageInv, StorageInv', NEW c \in Callers, Commit(c), SerialInv
    PROVE  SerialInv'
<1> SUFFICES ASSUME ~ overlapped' PROVE (OneOpen /\ NoGarbage /\ \A d \in Callers : Alone(d))'
  BY DEF SerialInv
<1>1. ~ overlapped /\ ~ Idle(c) /\ tx[c].pc = "commit"
  BY DEF Commit, Idle
<1>2. Alone(c) /\ NoGarbage /\ \A d \in Callers \ {c} : Idle(d)
  BY <1>1 DEF SerialInv, OneOpen
<1>3. \A d \in Callers : tx'[d].pc = "idle"
  BY <1>2, CommitTables DEF Idle, Closed
<1>4. OneOpen'
  BY <1>3 DEF OneOpen, Idle
<1>5. ASSUME NEW d \in Callers PROVE Alone(d)'
  <2>1. Phases(tx[d])'
    BY DEF StorageInv, TransactionsInv
  <2> QED  BY <1>3, <2>1 DEF Phases, Alone
<1>6. NoGarbage'
  <2> SUFFICES ASSUME NEW s \in subscriptions' PROVE \E r \in references' : r[2] = s.id
    BY DEF NoGarbage, Referenced
  <2>1. CASE s \in tx[c].written
    <3>1. s.id = tx[c].id /\ tx[c].added # {}
      BY <1>1, <1>2, <2>1 DEF Alone
    <3>2. PICK a \in tx[c].added : a = <<tx[c].request[1], tx[c].id>>
      BY <3>1, Facts DEF ReferredStay
    <3>3. a \in references' /\ a[2] = s.id
      BY <3>1, <3>2, CommitTables
    <3> QED  BY <3>3
  <2>2. CASE s \in subscriptions /\ s.id \notin tx[c].deleted
    <3>1. CASE tx[c].added = {}
      <4>1. s.id \in Referenced(references \ tx[c].removed)
        BY <1>1, <1>2, <2>2, <3>1 DEF Alone, Ids
      <4> QED  BY <4>1, CommitTables DEF Referenced
    <3>2. CASE tx[c].added # {}
      <4>1. tx[c].removed = {} /\ s.id \in Referenced(references)
        BY <1>2, <2>2, <3>2, Facts DEF NoGarbage, Phases
      <4> QED  BY <4>1, CommitTables DEF Referenced
    <3> QED  BY <3>1, <3>2
  <2> QED  BY <2>1, <2>2, CommitTables
<1> QED  BY <1>4, <1>5, <1>6

LEMMA SerialNext == ASSUME StorageInv, StorageInv', SerialInv, [Next]_vars PROVE SerialInv'
<1>1. CASE UNCHANGED vars
  BY <1>1 DEF vars, SerialInv, OneOpen, NoGarbage, Alone, Removal, Idle
<1>2. CASE Next
  BY <1>2, SerialAddSubscriber, SerialSelect, SerialInsertSubscription, SerialInsertReference,
     SerialDeleteReference, SerialDeleteSubscriber, SerialSelectUnreferenced,
     SerialDeleteUnreferenced, SerialCommit, SerialRollBack DEF Next
<1> QED  BY <1>1, <1>2

LEMMA SerialInit == ASSUME Init PROVE SerialInv
BY DEF Init, SerialInv, OneOpen, NoGarbage, Alone, Idle, Closed

\* Until transactions overlap, one that is open has the tables to itself.
THEOREM SeriallyCorrect == Spec => [](StorageInv /\ SerialInv)
<1>1. Init => StorageInv /\ SerialInv
  BY InitCorrect, SerialInit
<1>2. StorageInv /\ SerialInv /\ [Next]_vars => StorageInv' /\ SerialInv'
  BY NextCorrect, SerialNext
<1> QED  BY <1>1, <1>2, PTL DEF Spec

\* Until transactions overlap, no subscription outlives its last reference.
THEOREM NothingLeftSerially == Spec => []NoGarbageSerially
<1>1. SerialInv => NoGarbageSerially
  BY DEF SerialInv, NoGarbageSerially, NoGarbage, Referenced
<1> QED  BY <1>1, SeriallyCorrect, PTL

----------------------------------------------------------------------------
(* The tables as a directory.                                               *)

\* The keys an e-mail has in the tables.
HeldKeys(email) == {s.key : s \in {t \in subscriptions : <<email, t.id>> \in references}}

LEMMA DirectoryIs ==
    Directory = [email \in subscribers |-> Dir!Entry(0, HeldKeys(email))]
BY DEF Directory, HeldKeys, Dir!Entry

LEMMA DirectoryBecomes ==
    Directory' = [email \in subscribers' |-> Dir!Entry(0, HeldKeys(email)')]
BY DEF Directory, HeldKeys, Dir!Entry

\* A commit without removals keeps the key of every reference.
LEMMA CommitKeepsKeys ==
    ASSUME StorageInv, NEW c \in Callers, Commit(c), tx[c].added # {}
    PROVE  LET a == <<tx[c].request[1], tx[c].id>>
           IN  /\ subscribers' = subscribers /\ references' = references \cup {a}
               /\ \A e \in subscribers :
                     HeldKeys(e)' = IF e = tx[c].request[1]
                                    THEN HeldKeys(e) \cup {tx[c].request[2]} ELSE HeldKeys(e)
<1> DEFINE a == <<tx[c].request[1], tx[c].id>>
<1>1. /\ tx[c].removed = {} /\ tx[c].gone = {} /\ tx[c].deleted = {}
      /\ tx[c].added = {a}
  BY Facts DEF Phases, ReferredStay
<1>2. subscribers' = subscribers /\ references' = references \cup {a}
  BY <1>1, CommitTables
<1>3. \A r \in subscriptions, w \in subscriptions' : r.id = w.id => r.key = w.key
  BY CommitTables, Facts DEF AllRows
<1>4. \A i \in Ids(subscriptions) : i \in Ids(subscriptions')
  BY <1>1, CommitTables
<1>5. \A r \in references : r[2] \in Ids(subscriptions)
  BY DEF StorageInv, NothingDangles
<1>6. \A w \in subscriptions' : w.id = tx[c].id => w.key = tx[c].request[2]
  <2>1. \A w \in subscriptions' : w \in AllRows
    BY CommitTables, Facts
  <2> QED  BY <2>1 DEF StorageInv, TransactionsInv, IdsMeanKeys
<1>7. PICK w \in subscriptions' : w.id = tx[c].id
  <2>1. tx[c].id \in Ids(subscriptions) \cup Ids(tx[c].written)
    <3>1. PICK b \in tx[c].added : /\ b = <<tx[c].request[1], tx[c].id>>
                                   /\ b[2] \in Ids(subscriptions) \cup Ids(tx[c].written)
      BY Facts DEF ReferredStay
    <3> QED  BY <3>1
  <2>2. tx[c].id \in Ids(subscriptions')
    BY <1>4, <2>1, CommitTables
  <2> QED  BY <2>2 DEF Ids
<1>8. ASSUME NEW e \in subscribers
      PROVE  HeldKeys(e)' = IF e = tx[c].request[1]
                            THEN HeldKeys(e) \cup {tx[c].request[2]} ELSE HeldKeys(e)
  <2>1. ASSUME NEW r \in subscriptions, <<e, r.id>> \in references
        PROVE  r.key \in HeldKeys(e)'
    <3>1. PICK v \in subscriptions' : v.id = r.id
      BY <1>4 DEF Ids
    <3>2. v.key = r.key /\ <<e, v.id>> \in references'
      BY <1>2, <1>3, <2>1, <3>1
    <3> QED  BY <3>2 DEF HeldKeys
  <2>2. e = tx[c].request[1] => tx[c].request[2] \in HeldKeys(e)'
    BY <1>2, <1>6, <1>7 DEF HeldKeys
  <2>3. ASSUME NEW v \in subscriptions', <<e, v.id>> \in references'
        PROVE  \/ v.key \in HeldKeys(e)
               \/ e = tx[c].request[1] /\ v.key = tx[c].request[2]
    <3>1. CASE <<e, v.id>> \in references
      <4>1. PICK r \in subscriptions : r.id = v.id
        BY <1>5, <3>1 DEF Ids
      <4>2. r.key = v.key /\ <<e, r.id>> \in references
        BY <1>3, <3>1, <4>1
      <4> QED  BY <4>2 DEF HeldKeys
    <3>2. CASE <<e, v.id>> = a
      BY <1>6, <3>2
    <3> QED  BY <1>2, <2>3, <3>1, <3>2
  <2>4. HeldKeys(e) \subseteq HeldKeys(e)'
    BY <2>1 DEF HeldKeys
  <2>5. \A k \in HeldKeys(e)' :
           k \in HeldKeys(e) \/ (e = tx[c].request[1] /\ k = tx[c].request[2])
    BY <2>3 DEF HeldKeys
  <2>6. CASE e = tx[c].request[1]
    BY <2>2, <2>4, <2>5, <2>6
  <2>7. CASE e # tx[c].request[1]
    BY <2>4, <2>5, <2>7
  <2> QED  BY <2>6, <2>7
<1> QED  BY <1>2, <1>8

\* What was asked for is not there before.
LEMMA NotHeldBefore ==
    ASSUME StorageInv, StorageInv', NEW c \in Callers, Commit(c), tx[c].added # {}, Alone(c)
    PROVE  tx[c].request[2] \notin HeldKeys(tx[c].request[1])
<1> SUFFICES ASSUME NEW s \in subscriptions, s.key = tx[c].request[2],
                    <<tx[c].request[1], s.id>> \in references
             PROVE  FALSE
  BY DEF HeldKeys
<1>1. PICK a \in tx[c].added : a = <<tx[c].request[1], tx[c].id>> /\ a \notin references
  BY Facts DEF ReferredStay, Alone
<1>2. a \in references' /\ tx[c].deleted = {}
  BY CommitTables, Facts DEF Phases
<1>3. PICK w \in subscriptions' : w.id = tx[c].id
  BY <1>1, <1>2 DEF StorageInv, NothingDangles, Ids
<1>4. w.key = tx[c].request[2]
  <2>1. w \in AllRows
    BY CommitTables, Facts
  <2> QED  BY <1>3, <2>1 DEF StorageInv, TransactionsInv, IdsMeanKeys
<1>5. s.id = tx[c].id
  <2>1. CASE s.id \in Ids(tx[c].written)
    BY <2>1 DEF Ids, Alone
  <2>2. CASE s.id \notin Ids(tx[c].written)
    <3>1. s \in subscriptions'
      BY <1>2, <2>2 DEF Commit
    <3> QED  BY <1>3, <1>4, <3>1 DEF StorageInv, UniqueKeys
  <2> QED  BY <2>1, <2>2
<1> QED  BY <1>1, <1>5

\* The directory after a step that changes one e-mail's set, or drops an e-mail.
LEMMA DirectorySet ==
    ASSUME NEW email \in subscribers, NEW keys, subscribers' = subscribers,
           \A e \in subscribers : HeldKeys(e)' = IF e = email THEN keys ELSE HeldKeys(e)
    PROVE  Dir!Set(email, Dir!Entry(0, keys))
<1>1. /\ DOMAIN Directory = subscribers
      /\ \A e \in subscribers : Directory[e] = Dir!Entry(0, HeldKeys(e))
  BY DirectoryIs
<1>2. Directory' = [e \in subscribers |-> Dir!Entry(0, IF e = email THEN keys ELSE HeldKeys(e))]
  BY DirectoryBecomes
<1>3. subscribers = DOMAIN Directory \cup {email}
  BY <1>1
<1>4. Directory' = [e \in DOMAIN Directory \cup {email} |->
                       IF e = email THEN Dir!Entry(0, keys) ELSE Directory[e]]
  BY <1>1, <1>2, <1>3
<1> QED  BY <1>4 DEF Dir!Set

\* The commit of AddSubscription adds to the directory what was asked for.
LEMMA CommitImplementsAdd ==
    ASSUME StorageInv, StorageInv', NEW c \in Callers, Commit(c), tx[c].added # {}, Alone(c)
    PROVE  Dir!Next
<1>1. PICK email \in subscribers : email = tx[c].request[1] /\ email \in Emails
  <2>1. PICK b \in tx[c].added : b = <<tx[c].request[1], tx[c].id>> /\ b[1] \in subscribers
    BY Facts DEF ReferredStay
  <2> QED  BY <2>1 DEF StorageInv, TypeOK
<1>2. PICK key \in Keys : key = tx[c].request[2]
  <2>1. PICK w \in subscriptions' : w.key = tx[c].request[2]
    BY CommitAdds DEF AddedRows
  <2> QED  BY <2>1 DEF StorageInv, TypeOK, Rows
<1>3. /\ subscribers' = subscribers
      /\ \A e \in subscribers :
            HeldKeys(e)' = IF e = email THEN HeldKeys(email) \cup {key} ELSE HeldKeys(e)
  BY <1>1, <1>2, CommitKeepsKeys
<1>4. key \notin HeldKeys(email)
  BY <1>1, <1>2, NotHeldBefore
<1>5. /\ email \in DOMAIN Directory /\ Directory[email] = Dir!Entry(0, HeldKeys(email))
      /\ Directory[email].limit = 0 /\ Directory[email].subscriptions = HeldKeys(email)
  BY DirectoryIs DEF Dir!Entry
<1>6. Dir!Equal(HeldKeys(email), key) = {}
  BY <1>4 DEF Dir!Equal, SameKey
<1>7. Dir!Set(email, Dir!Entry(0, HeldKeys(email) \cup {key}))
  BY <1>3, DirectorySet
<1>8. Dir!AddSubscription(email, key)
  BY <1>5, <1>6, <1>7 DEF Dir!AddSubscription
<1> QED  BY <1>1, <1>8 DEF Dir!Next

\* The commit of a removal, alone: nothing goes but the references asked for.
LEMMA CommitRemoves ==
    ASSUME StorageInv, NEW c \in Callers, Commit(c), tx[c].added = {}, Alone(c)
    PROVE  /\ Removal(tx[c])
           /\ references' = references \ tx[c].removed
           /\ subscribers' = subscribers \ tx[c].gone
           /\ \A e : HeldKeys(e)' = {s.key : s \in {t \in subscriptions :
                                        <<e, t.id>> \in references \ tx[c].removed}}
<1>1. /\ tx[c].pc = "commit" /\ tx[c].written = {}
      /\ Removal(tx[c])
      /\ tx[c].deleted = Ids(subscriptions) \ Referenced(references \ tx[c].removed)
  BY DEF Commit, Alone
<1>2. Ids(tx[c].written) = {}
  BY <1>1 DEF Ids
<1>3. /\ references' = references \ tx[c].removed /\ subscribers' = subscribers \ tx[c].gone
      /\ subscriptions' = {r \in subscriptions : r.id \notin tx[c].deleted}
  BY <1>1, <1>2 DEF Commit
<1>4. ASSUME NEW e, NEW t \in subscriptions, <<e, t.id>> \in references \ tx[c].removed
      PROVE  t \in subscriptions'
  <2>1. t.id \in Referenced(references \ tx[c].removed)
    BY <1>4 DEF Referenced
  <2> QED  BY <1>1, <1>3, <2>1
<1>5. \A e : {t \in subscriptions' : <<e, t.id>> \in references'} =
             {t \in subscriptions : <<e, t.id>> \in references \ tx[c].removed}
  BY <1>3, <1>4
<1> QED  BY <1>1, <1>3, <1>5 DEF HeldKeys

\* The commit of a removal takes from the directory what was asked for.
LEMMA CommitImplementsRemove ==
    ASSUME StorageInv, NEW c \in Callers, Commit(c), tx[c].added = {}, Alone(c)
    PROVE  Dir!Next
<1>1. CASE /\ tx[c].gone = {} /\ tx[c].request \in Emails \X Keys /\ tx[c].removed # {}
           /\ tx[c].removed = {r \in references :
                                  /\ r[1] = tx[c].request[1]
                                  /\ r[2] \in Ids(WithKey(subscriptions, tx[c].request[2]))}
  <2>1. PICK email \in Emails, key \in Keys : email = tx[c].request[1] /\ key = tx[c].request[2]
    BY <1>1
  <2>2. tx[c].removed = {r \in references : r[1] = email /\ r[2] \in Ids(WithKey(subscriptions, key))}
    BY <1>1, <2>1
  <2>3. subscribers' = subscribers
    BY <1>1, CommitRemoves
  <2>4. /\ \A r \in references : r = <<r[1], r[2]>> /\ r[1] \in subscribers
    BY Facts DEF References, StorageInv, NothingDangles
  <2>5. email \in subscribers /\ key \in HeldKeys(email)
    <3>1. PICK r \in references : r[1] = email /\ r[2] \in Ids(WithKey(subscriptions, key))
      BY <1>1, <2>2
    <3>2. PICK s \in subscriptions : s.key = key /\ s.id = r[2]
      BY <3>1 DEF Ids, WithKey
    <3>3. <<email, s.id>> \in references
      BY <2>4, <3>1, <3>2
    <3> QED  BY <2>4, <3>1, <3>2, <3>3 DEF HeldKeys
  <2>6. ASSUME NEW t \in subscriptions, NEW e
        PROVE  <<e, t.id>> \in references \ tx[c].removed <=>
                  <<e, t.id>> \in references /\ (e # email \/ t.key # key)
    <3>1. t.id \in Ids(WithKey(subscriptions, key)) <=> t.key = key
      <4>1. \A s \in subscriptions : s.id = t.id => s.key = t.key
        BY Facts
      <4> QED  BY <4>1 DEF Ids, WithKey
    <3> QED  BY <2>2, <3>1
  <2>7. \A e : HeldKeys(e)' = {s.key : s \in {t \in subscriptions :
                                  <<e, t.id>> \in references /\ (e # email \/ t.key # key)}}
    BY <2>6, CommitRemoves
  <2>8. \A e \in subscribers :
           HeldKeys(e)' = IF e = email THEN HeldKeys(email) \ {key} ELSE HeldKeys(e)
    <3>1. HeldKeys(email)' = HeldKeys(email) \ {key}
      <4>1. HeldKeys(email)' = {s.key : s \in {t \in subscriptions :
                                   <<email, t.id>> \in references /\ t.key # key}}
        BY <2>7
      <4>2. \A k : k \in HeldKeys(email)' <=> k \in HeldKeys(email) /\ k # key
        BY <4>1 DEF HeldKeys
      <4> QED  BY <4>2
    <3>2. \A e \in subscribers : e # email => HeldKeys(e)' = HeldKeys(e)
      BY <2>7 DEF HeldKeys
    <3> QED  BY <3>1, <3>2
  <2>9. /\ email \in DOMAIN Directory /\ Directory[email] = Dir!Entry(0, HeldKeys(email))
        /\ Directory[email].limit = 0 /\ Directory[email].subscriptions = HeldKeys(email)
    BY <2>5, DirectoryIs DEF Dir!Entry
  <2>10. Dir!Equal(HeldKeys(email), key) = {key}
    BY <2>5 DEF Dir!Equal, SameKey
  <2>11. Dir!Set(email, Dir!Entry(0, HeldKeys(email) \ {key}))
    BY <2>3, <2>5, <2>8, DirectorySet
  <2>12. Dir!RemoveSubscription(email, key)
    BY <2>9, <2>10, <2>11 DEF Dir!RemoveSubscription
  <2> QED  BY <2>12 DEF Dir!Next
<1>2. ASSUME NEW email \in subscribers,
             tx[c].gone = {email} /\ tx[c].removed = {r \in references : r[1] = email}
      PROVE  Dir!Next
  <2>1. email \in Emails /\ subscribers' = subscribers \ {email}
    BY <1>2, CommitRemoves DEF StorageInv, TypeOK
  <2>2. \A e \in subscribers' : HeldKeys(e)' = HeldKeys(e)
    <3>1. ASSUME NEW e \in subscribers', NEW t \in subscriptions
          PROVE  <<e, t.id>> \in references \ tx[c].removed <=> <<e, t.id>> \in references
      BY <1>2, <2>1
    <3> QED  BY <3>1, CommitRemoves, ZenonT(40) DEF HeldKeys
  <2>3. /\ DOMAIN Directory = subscribers
        /\ \A e \in subscribers : Directory[e] = Dir!Entry(0, HeldKeys(e))
    BY DirectoryIs
  <2>4. Directory' = [e \in subscribers' |-> Dir!Entry(0, HeldKeys(e))]
    BY <2>2, DirectoryBecomes
  <2>5. Directory' = [e \in DOMAIN Directory \ {email} |-> Directory[e]]
    BY <2>1, <2>3, <2>4
  <2>6. Dir!RemoveSubscriber(email)
    BY <2>3, <2>5 DEF Dir!RemoveSubscriber
  <2> QED  BY <2>1, <2>6 DEF Dir!Next
<1> QED  BY <1>1, <1>2, CommitRemoves DEF Removal

\* The other steps of a transaction are not seen.
LEMMA OthersUnseen ==
    ASSUME UNCHANGED tables
    PROVE  Directory' = Directory
BY DEF tables, Directory

\* A new subscriber has no subscriptions.
LEMMA AddSubscriberImplements ==
    ASSUME StorageInv, NEW c \in Callers, NEW email \in Emails, AddSubscriber(c, email)
    PROVE  Dir!Next
<1>1. /\ email \notin subscribers /\ subscribers' = subscribers \cup {email}
      /\ subscriptions' = subscriptions /\ references' = references
  BY DEF AddSubscriber
<1>2. HeldKeys(email)' = {}
  <2>1. \A r \in references : r[1] # email
    BY <1>1 DEF StorageInv, NothingDangles
  <2> QED  BY <1>1, <2>1 DEF HeldKeys
<1>3. \A e : HeldKeys(e)' = HeldKeys(e)
  BY <1>1 DEF HeldKeys
<1>4. /\ DOMAIN Directory = subscribers
      /\ \A e \in subscribers : Directory[e] = Dir!Entry(0, HeldKeys(e))
  BY DirectoryIs
<1>5. Directory' = [e \in DOMAIN Directory \cup {email} |->
                       IF e = email THEN Dir!Entry(0, {}) ELSE Directory[e]]
  <2>1. Directory' = [e \in subscribers \cup {email} |-> Dir!Entry(0, HeldKeys(e)')]
    BY <1>1, DirectoryBecomes
  <2>2. \A e \in subscribers \cup {email} :
           Dir!Entry(0, HeldKeys(e)') = IF e = email THEN Dir!Entry(0, {}) ELSE Directory[e]
    BY <1>1, <1>2, <1>3, <1>4
  <2> QED  BY <1>4, <2>1, <2>2
<1>6. Dir!AddSubscriber(email)
  BY <1>1, <1>4, <1>5 DEF Dir!AddSubscriber, Dir!Set
<1> QED  BY <1>6 DEF Dir!Next

LEMMA NextImplements ==
    ASSUME StorageInv, StorageInv', SerialInv, SerialInv', Next, ~ overlapped'
    PROVE  [Dir!Next]_Directory
<1>1. ASSUME NEW c \in Callers, Commit(c) PROVE Dir!Next
  <2>1. Alone(c)
    BY <1>1 DEF Commit, SerialInv
  <2> QED  BY <1>1, <2>1, CommitImplementsAdd, CommitImplementsRemove
<1>2. ASSUME NEW c \in Callers, NEW t, Open(c, t) \/ Goto(c, t) PROVE Directory' = Directory
  BY <1>2, OthersUnseen DEF Open, Goto, tables
<1>3. ASSUME NEW c \in Callers, InsertSubscription(c) PROVE Directory' = Directory
  BY <1>2, <1>3 DEF InsertSubscription
<1>4. ASSUME NEW c \in Callers, InsertReference(c) \/ RollBack(c)
                                \/ SelectUnreferenced(c) \/ DeleteUnreferenced(c)
      PROVE  Directory' = Directory
  BY <1>2, <1>4 DEF InsertReference, RollBack, SelectUnreferenced, DeleteUnreferenced
<1>5. ASSUME NEW c \in Callers, NEW email \in Emails, NEW key \in Keys,
             \/ DeleteReference(c, email, key)
             \/ \E chrome \in Renderings : SelectSubscription(c, email, key, chrome)
      PROVE  Directory' = Directory
  BY <1>2, <1>5 DEF DeleteReference, SelectSubscription
<1>6. ASSUME NEW c \in Callers, NEW email \in Emails, DeleteSubscriber(c, email)
      PROVE  Directory' = Directory
  BY <1>2, <1>6 DEF DeleteSubscriber
<1> QED  BY <1>1, <1>3, <1>4, <1>5, <1>6, AddSubscriberImplements DEF Next

LEMMA InitImplements == ASSUME Init PROVE Dir!Init
<1>1. subscribers = {}
  BY DEF Init
<1>2. Directory = [e \in {} |-> Dir!Entry(0, HeldKeys(e))]
  BY <1>1, DirectoryIs
<1> QED  BY <1>2 DEF Dir!Init

\* Until transactions overlap, the tables implement the directory, at the moment of the
\* commit: what the interface of the storage promises.
THEOREM DirectoryImplemented == Spec => DirectorySerially
<1>1. Init => Dir!Init
  BY InitImplements
<1>2. /\ StorageInv /\ SerialInv /\ StorageInv' /\ SerialInv' /\ [Next]_vars
      => [~ overlapped' => [Dir!Next]_Directory]_vars
  BY NextImplements
<1> QED  BY <1>1, <1>2, SeriallyCorrect, PTL DEF Spec, DirectorySerially

----------------------------------------------------------------------------
(* Lookups beside the transactions.                                         *)

allVars == <<vars, lookup, history>>

\* A lookup asks for those it selected, and who was subscribed all the time is still to be
\* read or in the answer.  What is committed now is known to the history.
LookupInv ==
    /\ selected \subseteq Emails /\ todo \subseteq selected
    /\ selected = {} => answer = {} /\ always = {} /\ ever = {}
    /\ always \subseteq Committed
    /\ Committed \cap (selected \X Keys) \subseteq ever
    /\ answer \subseteq ever
    /\ \A p \in always : p \in selected \X Keys /\ (p[1] \in todo \/ p \in answer)

\* What is committed is committed of possible subscribers.
LEMMA CommittedType == Committed \subseteq Emails \X Keys
BY DEF Committed

LEMMA InitLookup == ASSUME LookupsInit PROVE LookupInv
BY DEF LookupsInit, LookupInv

\* A first statement begins with nothing read.
LEMMA SelectLookup ==
    ASSUME LookupInv, NEW emails \in SUBSET Emails, Select(emails)
    PROVE  LookupInv'
<1>1. /\ Committed' = Committed /\ selected' = emails /\ todo' = emails /\ answer' = {}
      /\ always' = Committed \cap (emails \X Keys) /\ ever' = always'
  BY DEF Select, LookupInv, vars, Committed
<1>2. \A p \in emails \X Keys : p[1] \in emails
  OBVIOUS
<1>3. emails = {} => emails \X Keys = {}
  OBVIOUS
<1> QED  BY <1>1, <1>2, <1>3 DEF LookupInv

\* A subscriber is read as it is committed now.
LEMMA FindBySubscriberLookup ==
    ASSUME LookupInv, NEW email \in Emails, FindBySubscriber(email)
    PROVE  LookupInv'
<1>1. /\ Committed' = Committed /\ selected' = selected /\ always' = always /\ ever' = ever
      /\ email \in todo /\ todo' = todo \ {email}
      /\ answer' = answer \cup (Committed \cap ({email} \X Keys))
  BY DEF FindBySubscriber, vars, history, Committed
<1>2. answer' \subseteq ever
  <2>1. {email} \X Keys \subseteq selected \X Keys
    BY <1>1 DEF LookupInv
  <2> QED  BY <1>1, <2>1 DEF LookupInv
<1>3. ASSUME NEW p \in always PROVE p[1] \in todo' \/ p \in answer'
  <2>1. CASE p[1] = email
    <3>1. p \in {email} \X Keys
      BY <2>1 DEF LookupInv
    <3> QED  BY <1>1, <3>1 DEF LookupInv
  <2>2. CASE p[1] # email
    BY <1>1, <2>2 DEF LookupInv
  <2> QED  BY <2>1, <2>2
<1> QED  BY <1>1, <1>2, <1>3 DEF LookupInv

\* Whatever transactions commit meanwhile.
LEMMA ElsewhereLookup == ASSUME LookupInv, Elsewhere PROVE LookupInv'
<1>1. /\ selected' = selected /\ todo' = todo /\ answer' = answer
      /\ always' = always \cap Committed'
      /\ ever' = ever \cup (Committed' \cap (selected \X Keys))
  BY DEF Elsewhere, lookup
<1>2. selected = {} => selected \X Keys = {}
  OBVIOUS
<1> QED  BY <1>1, <1>2 DEF LookupInv

\* Every step keeps the invariant.
LEMMA NextLookup ==
    ASSUME LookupInv, subscribers \subseteq Emails, [LookupsNext]_allVars
    PROVE  LookupInv'
<1>1. CASE UNCHANGED allVars
  BY <1>1 DEF allVars, vars, lookup, history, LookupInv, Committed
<1>2. CASE GetAllSubscribers
  BY <1>2, SelectLookup DEF GetAllSubscribers
<1>3. ASSUME NEW key \in Keys, FindBySubscription(key) PROVE LookupInv'
  <2>1. {p[1] : p \in {q \in Committed : q[2] = key}} \in SUBSET Emails
    BY CommittedType
  <2> QED  BY <1>3, <2>1, SelectLookup DEF FindBySubscription
<1>4. ASSUME NEW email \in Emails, GetSubscriber(email) PROVE LookupInv'
  <2>1. subscribers \cap {email} \in SUBSET Emails
    OBVIOUS
  <2> QED  BY <1>4, <2>1, SelectLookup DEF GetSubscriber
<1>5. CASE LookupEnds
  BY <1>5 DEF LookupEnds, LookupInv, vars, Committed
<1> QED  BY <1>1, <1>2, <1>3, <1>4, <1>5, FindBySubscriberLookup, ElsewhereLookup DEF LookupsNext, allVars

\* Lookups leave the transactions alone: what is proved of these holds with lookups too.
LEMMA LookupsLeaveTables == LookupsSpec => Spec
<1>1. LookupsInit => Init
  BY DEF LookupsInit
<1>2. [LookupsNext]_allVars => [Next]_vars
  BY DEF LookupsNext, Elsewhere, GetAllSubscribers, FindBySubscription, GetSubscriber, Select,
         FindBySubscriber, LookupEnds, allVars
<1> QED  BY <1>1, <1>2, PTL DEF LookupsSpec, Spec, allVars

\* The lookups' invariant, and that of the transactions.
THEOREM LookupsCorrect == LookupsSpec => [](LookupInv /\ StorageInv)
<1>1. LookupsInit => LookupInv
  BY InitLookup
<1>2. StorageInv => subscribers \subseteq Emails
  BY DEF StorageInv, TypeOK
<1>3. LookupInv /\ StorageInv /\ [LookupsNext]_allVars => LookupInv'
  BY <1>2, NextLookup
<1>4. LookupsSpec => []StorageInv
  BY LookupsLeaveTables, StorageCorrect, PTL
<1> QED  BY <1>1, <1>3, <1>4, PTL DEF LookupsSpec, allVars

\* Although each subscriber is read at a moment of its own, an answer has every
\* subscription that was there all the time, and none that was not there at any.
THEOREM AnswersCorrect == LookupsSpec => []AnswersHold
<1>1. LookupInv => AnswersHold
  BY DEF LookupInv, AnswersHold
<1> QED  BY <1>1, LookupsCorrect, PTL
=============================================================================
