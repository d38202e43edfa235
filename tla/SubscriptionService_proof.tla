--------------------- MODULE SubscriptionService_proof ---------------------
(***************************************************************************)
(* Proofs about SubscriptionService, for any callers, e-mails,             *)
(* subscriptions and limits.                                               *)
(***************************************************************************)
EXTENDS SubscriptionService, FiniteSetTheorems, TLAPS

(* Sequences, and the two ways the storage changes one.                     *)

\* A loop that can stop at one position only stops there.
LEMMA FirstOfSingleton ==
    ASSUME NEW i \in Int PROVE First({i}) = i
BY DEF First

\* Appending adds one element, and an element keeps its position.
LEMMA AppendPositions ==
    ASSUME NEW S, NEW s \in Seq(S), NEW x \in S
    PROVE  /\ Append(s, x) \in Seq(S)
           /\ Len(Append(s, x)) = Len(s) + 1
           /\ DOMAIN Append(s, x) = 1 .. (Len(s) + 1)
           /\ DOMAIN s = 1 .. Len(s)
           /\ Len(s) \in Nat
           /\ \A k \in DOMAIN s : Append(s, x)[k] = s[k]
           /\ Append(s, x)[Len(s) + 1] = x
OBVIOUS

\* Appending adds one element to the set of elements.
LEMMA AppendElements ==
    ASSUME NEW S, NEW s \in Seq(S), NEW x \in S
    PROVE  Elements(Append(s, x)) = Elements(s) \cup {x}
<1>1. DOMAIN Append(s, x) = DOMAIN s \cup {Len(s) + 1}
  BY AppendPositions
<1> QED  BY <1>1, AppendPositions DEF Elements

\* SwapRemove shortens a sequence by one, and only the last element moves.
LEMMA SwapRemovePositions ==
    ASSUME NEW S, NEW s \in Seq(S), NEW i \in DOMAIN s
    PROVE  /\ SwapRemove(s, i) \in Seq(S)
           /\ Len(SwapRemove(s, i)) = Len(s) - 1
           /\ DOMAIN SwapRemove(s, i) = 1 .. (Len(s) - 1)
           /\ DOMAIN s = 1 .. Len(s)
           /\ Len(s) \in Nat
           /\ \A j \in DOMAIN SwapRemove(s, i) :
                  SwapRemove(s, i)[j] = IF j = i THEN s[Len(s)] ELSE s[j]
BY DEF SwapRemove

\* In a sequence without duplicates, SwapRemove loses element i and no other.
LEMMA SwapRemoveElements ==
    ASSUME NEW S, NEW s \in Seq(S), NEW i \in DOMAIN s,
           \A j, k \in DOMAIN s : s[j] = s[k] => j = k
    PROVE  Elements(SwapRemove(s, i)) = Elements(s) \ {s[i]}
<1> DEFINE t == SwapRemove(s, i)
<1>1. /\ DOMAIN t = 1 .. (Len(s) - 1)
      /\ DOMAIN s = 1 .. Len(s)
      /\ Len(s) \in Nat
      /\ \A j \in DOMAIN t : t[j] = IF j = i THEN s[Len(s)] ELSE s[j]
  BY SwapRemovePositions
<1> HIDE DEF t
<1>2. ASSUME NEW j \in DOMAIN t PROVE \E k \in DOMAIN s : k # i /\ s[k] = t[j]
  <2>1. CASE j = i
    BY <1>1, <2>1
  <2>2. CASE j # i
    BY <1>1, <2>2
  <2> QED  BY <2>1, <2>2
<1>3. ASSUME NEW k \in DOMAIN s, k # i PROVE \E j \in DOMAIN t : t[j] = s[k]
  <2>1. CASE k = Len(s)
    <3>1. i \in DOMAIN t /\ t[i] = s[k]
      BY <1>1, <1>3, <2>1
    <3> QED  BY <3>1
  <2>2. CASE k # Len(s)
    <3>1. k \in DOMAIN t /\ t[k] = s[k]
      BY <1>1, <1>3, <2>2
    <3> QED  BY <3>1
  <2> QED  BY <2>1, <2>2
<1>4. Elements(t) = Elements(s) \ {s[i]}
  BY <1>2, <1>3 DEF Elements
<1> QED  BY <1>4 DEF t

----------------------------------------------------------------------------
(* Finding a subscriber, and the pointers of calls under way.               *)

StorageInv == TypeOK /\ UniqueEmails /\ UniqueSubscriptions

\* Two listed objects with the same e-mail are one object.
LEMMA OneObject ==
    ASSUME UniqueEmails, NEW a \in Listed, NEW b \in Listed,
           heap[a].Email = heap[b].Email
    PROVE  a = b
BY DEF UniqueEmails, Listed, Elements

\* The object found for an e-mail is listed, has that e-mail, and is at the only
\* position that has.
LEMMA Found ==
    ASSUME TypeOK, UniqueEmails, NEW email, Known(email)
    PROVE  /\ GetSubscriber(email) \in Listed
           /\ GetSubscriber(email) \in DOMAIN heap
           /\ heap[GetSubscriber(email)].Email = email
           /\ First(Positions(email)) \in DOMAIN subscribers
           /\ subscribers[First(Positions(email))] = GetSubscriber(email)
<1>1. PICK i \in Positions(email) : TRUE
  BY DEF Known
<1>2. i \in DOMAIN subscribers /\ i \in Int
  BY <1>1 DEF Positions, TypeOK, StorageTypeOK
<1>3. Positions(email) = {i}
  BY <1>1 DEF Positions, UniqueEmails
<1>4. First(Positions(email)) = i
  BY <1>2, <1>3, FirstOfSingleton
<1> QED  BY <1>1, <1>2, <1>4 DEF Positions, GetSubscriber, Listed, Elements, TypeOK, StorageTypeOK

\* An unknown e-mail is that of no listed object.
LEMMA NotFound ==
    ASSUME NEW email, ~ Known(email), NEW a \in Listed
    PROVE  heap[a].Email # email
BY DEF Known, Positions, Listed, Elements

\* What is held after a call moved on.
LEMMA HeldAfter ==
    ASSUME TypeOK, NEW c \in Callers, NEW state, Goto(c, state)
    PROVE  /\ call'[c] = state
           /\ \A d \in Callers \ {c} : call'[d] = call[d]
           /\ state.pc # "check" => Held(Callers)' = Held(Callers \ {c})
           /\ state.pc = "check" => Held(Callers)' = Held(Callers \ {c}) \cup {state.ref}
           /\ call[c].pc # "check" => Held(Callers) = Held(Callers \ {c})
<1>1. call'[c] = state /\ \A d \in Callers \ {c} : call'[d] = call[d]
  BY DEF Goto, TypeOK
<1>2. ASSUME NEW r
      PROVE  r \in Held(Callers)' <=>
                 \/ r \in Held(Callers \ {c})
                 \/ state.pc = "check" /\ r = state.ref
  BY <1>1 DEF Held
<1>3. call[c].pc # "check" => Held(Callers) = Held(Callers \ {c})
  BY DEF Held
<1> QED  BY <1>1, <1>2, <1>3

\* A caller that holds no object returns: the others hold what they held.
LEMMA HeldUnchanged ==
    ASSUME TypeOK, NEW c \in Callers, Goto(c, Idle), call[c].pc # "check"
    PROVE  Held(Callers)' = Held(Callers)
<1>1. Idle.pc # "check"
  BY DEF Idle
<1>2. Held(Callers)' = Held(Callers \ {c}) /\ Held(Callers) = Held(Callers \ {c})
  BY <1>1, HeldAfter
<1> QED  BY <1>2

----------------------------------------------------------------------------
(* What the storage operations do to the invariant.                         *)

\* A new object with a new e-mail and no equal subscriptions.
LEMMA AppendSubscriberStep ==
    ASSUME StorageInv, NEW o \in Subscriber,
           \A a \in Listed : heap[a].Email # o.Email,
           \A i, j \in DOMAIN o.Subscriptions :
               Equals(o.Subscriptions[i], o.Subscriptions[j]) => i = j,
           AppendSubscriber(o)
    PROVE  /\ StorageTypeOK' /\ UniqueEmails' /\ UniqueSubscriptions'
           /\ \E a \in Addrs \ DOMAIN heap :
                  /\ DOMAIN heap' = DOMAIN heap \cup {a}
                  /\ Listed' = Listed \cup {a}
                  /\ heap'[a] = o
                  /\ \A x \in DOMAIN heap : heap'[x] = heap[x]
<1>1. PICK a \in Addrs \ DOMAIN heap :
        /\ heap' = [x \in DOMAIN heap \cup {a} |-> IF x = a THEN o ELSE heap[x]]
        /\ subscribers' = Append(subscribers, a)
  BY DEF AppendSubscriber
<1>2. /\ subscribers \in Seq(DOMAIN heap \cup {a})
      /\ heap \in [DOMAIN heap -> Subscriber]
      /\ DOMAIN heap \subseteq Addrs
      /\ Listed \subseteq DOMAIN heap
  BY DEF StorageInv, TypeOK, StorageTypeOK, Listed, Elements
<1>3. /\ DOMAIN heap' = DOMAIN heap \cup {a}
      /\ heap'[a] = o
      /\ \A x \in DOMAIN heap : heap'[x] = heap[x]
  BY <1>1
<1>4. Listed' = Listed \cup {a}
  BY <1>1, <1>2, AppendElements DEF Listed
<1>5. StorageTypeOK'
  BY <1>1, <1>2, <1>3, AppendPositions DEF StorageTypeOK
<1>6. UniqueEmails'
  <2> SUFFICES ASSUME NEW i \in DOMAIN subscribers', NEW j \in DOMAIN subscribers',
                      heap'[subscribers'[i]].Email = heap'[subscribers'[j]].Email
               PROVE  i = j
    BY DEF UniqueEmails
  <2>1. /\ DOMAIN subscribers' = 1 .. (Len(subscribers) + 1)
        /\ DOMAIN subscribers = 1 .. Len(subscribers)
        /\ Len(subscribers) \in Nat
        /\ \A k \in DOMAIN subscribers : subscribers'[k] = subscribers[k]
        /\ subscribers'[Len(subscribers) + 1] = a
    BY <1>1, <1>2, AppendPositions
  <2>2. ASSUME NEW k \in DOMAIN subscribers
        PROVE  /\ heap'[subscribers'[k]] = heap[subscribers[k]]
               /\ heap[subscribers[k]].Email # o.Email
    BY <1>2, <1>3, <2>1 DEF Listed, Elements
  <2>3. CASE i \in DOMAIN subscribers /\ j \in DOMAIN subscribers
    BY <2>2, <2>3 DEF StorageInv, UniqueEmails
  <2>4. CASE i \in DOMAIN subscribers /\ j \notin DOMAIN subscribers
    BY <1>3, <2>1, <2>2, <2>4
  <2>5. CASE i \notin DOMAIN subscribers /\ j \in DOMAIN subscribers
    BY <1>3, <2>1, <2>2, <2>5
  <2>6. CASE i \notin DOMAIN subscribers /\ j \notin DOMAIN subscribers
    BY <2>1, <2>6
  <2> QED  BY <2>3, <2>4, <2>5, <2>6
<1>7. UniqueSubscriptions'
  BY <1>2, <1>3, <1>4 DEF UniqueSubscriptions, StorageInv, Equals
<1> QED  BY <1>3, <1>4, <1>5, <1>6, <1>7

\* One listed object gets other subscriptions, of which no two are equal.
LEMMA ChangeSubscriptionsStep ==
    ASSUME StorageInv, NEW a \in Listed, NEW s \in Seq(Subscriptions),
           \A i, j \in DOMAIN s : Equals(s[i], s[j]) => i = j,
           heap' = [heap EXCEPT ![a].Subscriptions = s],
           UNCHANGED subscribers
    PROVE  /\ StorageTypeOK' /\ UniqueEmails' /\ UniqueSubscriptions'
           /\ DOMAIN heap' = DOMAIN heap
           /\ Listed' = Listed
           /\ heap'[a].Subscriptions = s
           /\ \A x \in DOMAIN heap :
                  /\ heap'[x].Email = heap[x].Email
                  /\ heap'[x].SubscriptionLimit = heap[x].SubscriptionLimit
                  /\ x # a => heap'[x] = heap[x]
<1>1. /\ heap \in [DOMAIN heap -> Subscriber]
      /\ Listed \subseteq DOMAIN heap
      /\ a \in DOMAIN heap
  BY DEF StorageInv, TypeOK, StorageTypeOK, Listed, Elements
<1>2. /\ DOMAIN heap' = DOMAIN heap
      /\ heap' \in [DOMAIN heap -> Subscriber]
      /\ heap'[a].Subscriptions = s
      /\ \A x \in DOMAIN heap :
             /\ heap'[x].Email = heap[x].Email
             /\ heap'[x].SubscriptionLimit = heap[x].SubscriptionLimit
             /\ x # a => heap'[x] = heap[x]
  BY <1>1 DEF Subscriber
<1>3. Listed' = Listed
  BY DEF Listed, Elements
<1>4. StorageTypeOK'
  BY <1>2 DEF StorageInv, TypeOK, StorageTypeOK
<1>5. UniqueEmails'
  BY <1>1, <1>2 DEF StorageInv, UniqueEmails, Listed, Elements
<1>6. UniqueSubscriptions'
  <2> SUFFICES ASSUME NEW b \in Listed,
                      NEW i \in DOMAIN heap'[b].Subscriptions,
                      NEW j \in DOMAIN heap'[b].Subscriptions,
                      Equals(heap'[b].Subscriptions[i], heap'[b].Subscriptions[j])
               PROVE  i = j
    BY <1>3 DEF UniqueSubscriptions, Equals
  <2>1. CASE b = a
    BY <1>2, <2>1
  <2>2. CASE b # a
    BY <1>1, <1>2, <2>2 DEF StorageInv, UniqueSubscriptions
  <2> QED  BY <2>1, <2>2
<1> QED  BY <1>2, <1>3, <1>4, <1>5, <1>6
\* The object found for an e-mail leaves the list; while it is held it stays in
\* the heap.
LEMMA RemoveSubscriberStep ==
    ASSUME StorageInv, NEW email, NEW held, RemoveSubscriber(email, held)
    PROVE  LET a == GetSubscriber(email)
           IN  /\ StorageTypeOK' /\ UniqueEmails' /\ UniqueSubscriptions'
               /\ a \in Listed
               /\ Listed' = Listed \ {a}
               /\ DOMAIN heap' = DOMAIN heap \ ({a} \ held)
               /\ \A x \in DOMAIN heap' : heap'[x] = heap[x]
<1> DEFINE a == GetSubscriber(email)
           i == First(Positions(email))
<1>1. /\ a \in Listed
      /\ i \in DOMAIN subscribers
      /\ subscribers[i] = a
      /\ subscribers' = SwapRemove(subscribers, i)
  BY Found DEF RemoveSubscriber, StorageInv
<1>2. /\ subscribers \in Seq(DOMAIN heap)
      /\ heap \in [DOMAIN heap -> Subscriber]
      /\ DOMAIN heap \subseteq Addrs
      /\ Listed \subseteq DOMAIN heap
  BY DEF StorageInv, TypeOK, StorageTypeOK, Listed, Elements
<1>3. /\ DOMAIN heap' = DOMAIN heap \ ({a} \ held)
      /\ heap' = [x \in DOMAIN heap' |-> heap[x]]
      /\ \A x \in DOMAIN heap' : heap'[x] = heap[x]
  BY DEF RemoveSubscriber
<1> HIDE DEF a, i
<1>4. /\ subscribers' \in Seq(DOMAIN heap)
      /\ DOMAIN subscribers' = 1 .. (Len(subscribers) - 1)
      /\ DOMAIN subscribers = 1 .. Len(subscribers)
      /\ Len(subscribers) \in Nat
      /\ \A j \in DOMAIN subscribers' :
             subscribers'[j] = IF j = i THEN subscribers[Len(subscribers)] ELSE subscribers[j]
  BY <1>1, <1>2, SwapRemovePositions
<1>5. Listed' = Listed \ {a}
  <2>1. \A j, k \in DOMAIN subscribers : subscribers[j] = subscribers[k] => j = k
    BY DEF StorageInv, UniqueEmails
  <2> QED  BY <1>1, <1>2, <2>1, SwapRemoveElements DEF Listed
<1>6. StorageTypeOK'
  <2>1. \A j \in DOMAIN subscribers' : subscribers'[j] \in DOMAIN heap'
    BY <1>2, <1>3, <1>5 DEF Listed, Elements
  <2>2. subscribers' \in Seq(DOMAIN heap')
    BY <1>4, <2>1
  <2> QED  BY <1>2, <1>3, <2>2 DEF StorageTypeOK
<1>7. UniqueEmails'
  <2> SUFFICES ASSUME NEW j \in DOMAIN subscribers', NEW k \in DOMAIN subscribers',
                      heap'[subscribers'[j]].Email = heap'[subscribers'[k]].Email
               PROVE  j = k
    BY DEF UniqueEmails
  <2> DEFINE origin(n) == IF n = i THEN Len(subscribers) ELSE n
  <2>1. ASSUME NEW n \in DOMAIN subscribers'
        PROVE  /\ origin(n) \in DOMAIN subscribers
               /\ heap'[subscribers'[n]] = heap[subscribers[origin(n)]]
    <3>1. subscribers'[n] \in DOMAIN heap'
      BY <1>2, <1>3, <1>5 DEF Listed, Elements
    <3>2. origin(n) \in DOMAIN subscribers /\ subscribers'[n] = subscribers[origin(n)]
      BY <1>4
    <3> QED  BY <1>3, <3>1, <3>2
  <2>2. origin(j) = origin(k)
    BY <2>1 DEF StorageInv, UniqueEmails
  <2> QED  BY <1>4, <2>2
<1>8. UniqueSubscriptions'
  <2>1. ASSUME NEW x \in Listed' PROVE x \in Listed /\ heap'[x] = heap[x]
    BY <1>2, <1>3, <1>5
  <2> QED  BY <2>1 DEF StorageInv, UniqueSubscriptions, Equals
<1> QED  BY <1>1, <1>3, <1>5, <1>6, <1>7, <1>8 DEF a

\* A subscription that is not there yet can be appended.
LEMMA AppendedSubscriptions ==
    ASSUME StorageInv, NEW a \in Listed, NEW s \in Subscriptions, Subscribed(a, s) = {}
    PROVE  LET t == Append(heap[a].Subscriptions, s)
           IN  /\ t \in Seq(Subscriptions)
               /\ Len(t) = Len(heap[a].Subscriptions) + 1
               /\ \A i, j \in DOMAIN t : Equals(t[i], t[j]) => i = j
<1> DEFINE old == heap[a].Subscriptions
           t == Append(old, s)
<1>1. /\ old \in Seq(Subscriptions)
      /\ \A i, j \in DOMAIN old : Equals(old[i], old[j]) => i = j
      /\ \A i \in DOMAIN old : ~ Equals(old[i], s) /\ ~ Equals(s, old[i])
  <2>1. heap[a] \in Subscriber
    BY DEF StorageInv, TypeOK, StorageTypeOK, Listed, Elements
  <2> QED  BY <2>1 DEF StorageInv, UniqueSubscriptions, Subscriber, Subscribed, Equals
<1> HIDE DEF old
<1>2. /\ t \in Seq(Subscriptions)
      /\ Len(t) = Len(old) + 1
      /\ DOMAIN t = 1 .. (Len(old) + 1)
      /\ DOMAIN old = 1 .. Len(old)
      /\ Len(old) \in Nat
      /\ \A k \in DOMAIN old : t[k] = old[k]
      /\ t[Len(old) + 1] = s
  BY <1>1, AppendPositions
<1> HIDE DEF t
<1>3. \A i, j \in DOMAIN t : Equals(t[i], t[j]) => i = j
  <2> SUFFICES ASSUME NEW i \in DOMAIN t, NEW j \in DOMAIN t, Equals(t[i], t[j]), i # j
               PROVE  FALSE
    OBVIOUS
  <2>1. CASE i \in DOMAIN old /\ j \in DOMAIN old
    BY <1>1, <1>2, <2>1
  <2>2. CASE i \in DOMAIN old /\ j = Len(old) + 1
    BY <1>1, <1>2, <2>2
  <2>3. CASE i = Len(old) + 1 /\ j \in DOMAIN old
    BY <1>1, <1>2, <2>3
  <2> QED  BY <1>2, <2>1, <2>2, <2>3
<1> QED  BY <1>2, <1>3 DEF t, old

\* A subscription that is there can be removed.
LEMMA RemovedSubscriptions ==
    ASSUME StorageInv, NEW a \in Listed, NEW s, Subscribed(a, s) # {}
    PROVE  LET t == SwapRemove(heap[a].Subscriptions, First(Subscribed(a, s)))
           IN  /\ t \in Seq(Subscriptions)
               /\ Len(t) = Len(heap[a].Subscriptions) - 1
               /\ \A j, k \in DOMAIN t : Equals(t[j], t[k]) => j = k
<1> DEFINE old == heap[a].Subscriptions
<1>1. PICK i \in Subscribed(a, s) : TRUE
  OBVIOUS
<1>2. /\ old \in Seq(Subscriptions)
      /\ i \in DOMAIN old
      /\ \A j, k \in DOMAIN old : Equals(old[j], old[k]) => j = k
  <2>1. heap[a] \in Subscriber
    BY DEF StorageInv, TypeOK, StorageTypeOK, Listed, Elements
  <2> QED  BY <1>1, <2>1 DEF StorageInv, UniqueSubscriptions, Subscriber, Subscribed
<1>3. Subscribed(a, s) = {i}
  BY <1>1, <1>2 DEF Subscribed, Equals
<1>4. First(Subscribed(a, s)) = i
  BY <1>2, <1>3, FirstOfSingleton
<1> HIDE DEF old
<1> DEFINE t == SwapRemove(old, i)
<1>5. /\ t \in Seq(Subscriptions)
      /\ Len(t) = Len(old) - 1
      /\ DOMAIN t = 1 .. (Len(old) - 1)
      /\ DOMAIN old = 1 .. Len(old)
      /\ Len(old) \in Nat
      /\ \A j \in DOMAIN t : t[j] = IF j = i THEN old[Len(old)] ELSE old[j]
  BY <1>2, SwapRemovePositions
<1> HIDE DEF t
<1>6. ASSUME NEW j \in DOMAIN t, NEW k \in DOMAIN t, Equals(t[j], t[k]) PROVE j = k
  <2> DEFINE origin(n) == IF n = i THEN Len(old) ELSE n
  <2>1. origin(j) \in DOMAIN old /\ origin(k) \in DOMAIN old
    BY <1>5
  <2>2. t[j] = old[origin(j)] /\ t[k] = old[origin(k)]
    BY <1>5
  <2>3. origin(j) = origin(k)
    BY <1>2, <1>6, <2>1, <2>2
  <2> QED  BY <1>5, <2>3
<1> QED  BY <1>4, <1>5, <1>6 DEF t, old
----------------------------------------------------------------------------
(* Every step of the service preserves the invariant of the storage.        *)

\* A step that moves one call on and leaves the storage alone.
LEMMA CallStep ==
    ASSUME StorageInv, NEW c \in Callers,
           NEW state \in {Idle} \cup Inserting \cup Checking \cup Adding,
           call[c].pc # "check",
           state.pc = "check" => state.ref \in Listed,
           Goto(c, state), UNCHANGED storage
    PROVE  StorageInv'
<1>1. Listed' = Listed /\ DOMAIN heap' = DOMAIN heap
  BY DEF Listed, Elements, storage
<1>2. DOMAIN heap' = Listed' \cup Held(Callers)'
  <2>1. /\ Held(Callers) = Held(Callers \ {c})
        /\ \/ Held(Callers)' = Held(Callers \ {c})
           \/ /\ Held(Callers)' = Held(Callers \ {c}) \cup {state.ref}
              /\ state.ref \in Listed
    BY HeldAfter DEF StorageInv
  <2>2. DOMAIN heap = Listed \cup Held(Callers)
    BY DEF StorageInv, TypeOK
  <2> QED  BY <1>1, <2>1, <2>2
<1>3. TypeOK'
  BY <1>2 DEF StorageInv, TypeOK, StorageTypeOK, storage, Goto
<1>4. UniqueEmails' /\ UniqueSubscriptions'
  BY <1>1 DEF StorageInv, UniqueEmails, UniqueSubscriptions, storage
<1> QED  BY <1>3, <1>4 DEF StorageInv

\* The first half of AddSubscriber keeps the storage correct.
LEMMA CountInv ==
    ASSUME StorageInv, NEW c \in Callers, NEW email \in Emails, NEW limit \in Limits,
           AddSubscriberCount(c, email, limit)
    PROVE  StorageInv'
<1> DEFINE state == [pc    |-> "insert",
                     email |-> email,
                     limit |-> IF limit = 0 THEN SubscriptionLimit ELSE limit]
<1>1. state \in Inserting /\ state.pc # "check"
  BY LimitsAssumption DEF Inserting
<1>2. call[c].pc # "check" /\ Goto(c, state) /\ UNCHANGED storage
  BY DEF AddSubscriberCount, Idle
<1> HIDE DEF state
<1> QED  BY <1>1, <1>2, CallStep

\* The second half of AddSubscriber does: the e-mail is new when it is inserted.
LEMMA InsertInv ==
    ASSUME StorageInv, NEW c \in Callers, AddSubscriberInsert(c)
    PROVE  StorageInv'
<1> DEFINE o == [Email             |-> call[c].email,
                 Subscriptions     |-> <<>>,
                 SubscriptionLimit |-> call[c].limit]
<1>1. /\ call[c].pc = "insert"
      /\ Goto(c, Idle)
      /\ Idle.pc # "check"
  BY DEF AddSubscriberInsert, Idle
<1>2. call[c] \in Inserting
  BY <1>1 DEF StorageInv, TypeOK, Idle, Inserting, Checking, Adding
<1>3. CASE Known(call[c].email) /\ UNCHANGED storage
  BY <1>1, <1>3, CallStep
<1>4. CASE ~ Known(call[c].email) /\ AppendSubscriber(o)
  <2>1. /\ o \in Subscriber
        /\ o.Email = call[c].email
        /\ \A i, j \in DOMAIN o.Subscriptions :
               Equals(o.Subscriptions[i], o.Subscriptions[j]) => i = j
    BY <1>2 DEF Subscriber, Inserting
  <2> HIDE DEF o
  <2>2. \A a \in Listed : heap[a].Email # o.Email
    BY <1>4, <2>1, NotFound
  <2>3. /\ StorageTypeOK' /\ UniqueEmails' /\ UniqueSubscriptions'
        /\ \E a : DOMAIN heap' = DOMAIN heap \cup {a} /\ Listed' = Listed \cup {a}
    BY <1>4, <2>1, <2>2, AppendSubscriberStep
  <2>4. DOMAIN heap' = Listed' \cup Held(Callers)'
    <3>1. Held(Callers)' = Held(Callers)
      BY <1>1, HeldUnchanged DEF StorageInv
    <3>2. DOMAIN heap = Listed \cup Held(Callers)
      BY DEF StorageInv, TypeOK
    <3> QED  BY <2>3, <3>1, <3>2
  <2>5. TypeOK'
    BY <1>1, <2>3, <2>4 DEF StorageInv, TypeOK, Goto
  <2> QED  BY <2>3, <2>5 DEF StorageInv
<1> QED  BY <1>3, <1>4 DEF AddSubscriberInsert, AddSubscriber

\* The first step of Subscribe does: the pointer it keeps is one to a listed object.
LEMMA GetInv ==
    ASSUME StorageInv, NEW c \in Callers, NEW email \in Emails, NEW s \in Subscriptions,
           SubscribeGet(c, email, s)
    PROVE  StorageInv'
<1> DEFINE state == [pc           |-> "check",
                     email        |-> email,
                     subscription |-> s,
                     ref          |-> GetSubscriber(email)]
<1>1. GetSubscriber(email) \in Listed /\ GetSubscriber(email) \in Addrs
  BY Found DEF SubscribeGet, StorageInv, TypeOK, StorageTypeOK
<1>2. state \in Checking /\ state.ref \in Listed
  BY <1>1 DEF Checking
<1>3. call[c].pc # "check" /\ Goto(c, state) /\ UNCHANGED storage
  BY DEF SubscribeGet, Idle
<1> HIDE DEF state
<1> QED  BY <1>2, <1>3, CallStep

\* The check of the limit does: an orphan nobody else holds disappears.
LEMMA CheckInv ==
    ASSUME StorageInv, NEW c \in Callers, SubscribeCheck(c)
    PROVE  StorageInv'
<1>1. call[c].pc = "check" /\ call[c] \in Checking
  BY DEF SubscribeCheck, StorageInv, TypeOK, Idle, Inserting, Checking, Adding
<1>2. PICK state \in {Idle} \cup Adding : Goto(c, state)
  BY <1>1 DEF SubscribeCheck, Checking, Adding
<1>3. state.pc # "check"
  BY <1>2 DEF Idle, Adding
<1>4. /\ heap' = [a \in Listed \cup Held(Callers \ {c}) |-> heap[a]]
      /\ subscribers' = subscribers
  BY DEF SubscribeCheck
<1>5. /\ Listed' = Listed
      /\ Held(Callers)' = Held(Callers \ {c})
      /\ Held(Callers \ {c}) \subseteq Held(Callers)
  BY <1>2, <1>3, <1>4, HeldAfter DEF Listed, Elements, StorageInv, Held
<1>6. /\ DOMAIN heap' = Listed' \cup Held(Callers)'
      /\ DOMAIN heap' \subseteq DOMAIN heap
      /\ \A a \in Listed : heap'[a] = heap[a]
      /\ \A a \in DOMAIN heap' : heap'[a] = heap[a]
  BY <1>4, <1>5 DEF StorageInv, TypeOK
<1>7. subscribers' \in Seq(DOMAIN heap')
  BY <1>4, <1>6 DEF StorageInv, TypeOK, StorageTypeOK, Listed, Elements
<1>8. TypeOK'
  BY <1>2, <1>4, <1>6, <1>7 DEF StorageInv, TypeOK, StorageTypeOK, Goto
<1>9. UniqueEmails'
  BY <1>4, <1>6 DEF StorageInv, UniqueEmails, Listed, Elements
<1>10. UniqueSubscriptions'
  BY <1>5, <1>6 DEF StorageInv, UniqueSubscriptions, Equals
<1> QED  BY <1>8, <1>9, <1>10 DEF StorageInv

\* The last step of Subscribe does: an equal subscription is not added again.
LEMMA AddInv ==
    ASSUME StorageInv, NEW c \in Callers, SubscribeAdd(c)
    PROVE  StorageInv'
<1> DEFINE email == call[c].email
           s == call[c].subscription
           a == GetSubscriber(email)
           o == [Email |-> email, Subscriptions |-> <<s>>, SubscriptionLimit |-> 0]
<1>1. /\ call[c].pc = "add"
      /\ Goto(c, Idle)
      /\ Idle.pc # "check"
      /\ AddSubscription(email, s)
  BY DEF SubscribeAdd, Idle
<1>2. email \in Emails /\ s \in Subscriptions
  BY <1>1 DEF StorageInv, TypeOK, Idle, Inserting, Checking, Adding
<1>3. Held(Callers)' = Held(Callers)
  BY <1>1, HeldUnchanged DEF StorageInv
<1>4. DOMAIN heap = Listed \cup Held(Callers)
  BY DEF StorageInv, TypeOK
<1>5. SUFFICES /\ StorageTypeOK' /\ UniqueEmails' /\ UniqueSubscriptions'
               /\ DOMAIN heap' = Listed' \cup Held(Callers)'
  BY <1>1 DEF StorageInv, TypeOK, Goto
<1>6. CASE Known(email) /\ Subscribed(a, s) # {}
  <2>1. UNCHANGED storage
    BY <1>1, <1>6 DEF AddSubscription, storage
  <2> QED  BY <1>1, <2>1, CallStep DEF StorageInv, TypeOK
<1>7. CASE Known(email) /\ Subscribed(a, s) = {}
  <2>1. /\ heap' = [heap EXCEPT ![a].Subscriptions = Append(heap[a].Subscriptions, s)]
        /\ UNCHANGED subscribers
    BY <1>1, <1>7 DEF AddSubscription
  <2>2. a \in Listed
    BY <1>7, Found DEF StorageInv
  <2> HIDE DEF email, s, a
  <2>3. /\ Append(heap[a].Subscriptions, s) \in Seq(Subscriptions)
        /\ \A i, j \in DOMAIN Append(heap[a].Subscriptions, s) :
               Equals(Append(heap[a].Subscriptions, s)[i],
                      Append(heap[a].Subscriptions, s)[j]) => i = j
    BY <1>2, <1>7, <2>2, AppendedSubscriptions
  <2> QED  BY <1>3, <1>4, <2>1, <2>2, <2>3, ChangeSubscriptionsStep
<1>8. CASE ~ Known(email)
  <2>1. AppendSubscriber(o)
    BY <1>1, <1>8 DEF AddSubscription
  <2>2. /\ o \in Subscriber
        /\ o.Email = email
        /\ \A i, j \in DOMAIN o.Subscriptions :
               Equals(o.Subscriptions[i], o.Subscriptions[j]) => i = j
    BY <1>2 DEF Subscriber
  <2> HIDE DEF o
  <2>3. \A x \in Listed : heap[x].Email # o.Email
    BY <1>8, <2>2, NotFound
  <2>4. /\ StorageTypeOK' /\ UniqueEmails' /\ UniqueSubscriptions'
        /\ \E x : DOMAIN heap' = DOMAIN heap \cup {x} /\ Listed' = Listed \cup {x}
    BY <2>1, <2>2, <2>3, AppendSubscriberStep
  <2> QED  BY <1>3, <1>4, <2>4
<1> QED  BY <1>6, <1>7, <1>8

\* Unsubscribe does: removing an element brings no equal one in.
LEMMA UnsubscribeInv ==
    ASSUME StorageInv, NEW c \in Callers, NEW email \in Emails, NEW s \in Subscriptions,
           Unsubscribe(c, email, s)
    PROVE  StorageInv'
<1> DEFINE a == GetSubscriber(email)
           t == SwapRemove(heap[a].Subscriptions, First(Subscribed(a, s)))
<1>1. /\ Known(email)
      /\ Subscribed(a, s) # {}
      /\ heap' = [heap EXCEPT ![a].Subscriptions = t]
      /\ UNCHANGED subscribers
      /\ UNCHANGED call
  BY DEF Unsubscribe, RemoveSubscription
<1>2. a \in Listed
  BY <1>1, Found DEF StorageInv
<1>3. /\ t \in Seq(Subscriptions)
      /\ \A i, j \in DOMAIN t : Equals(t[i], t[j]) => i = j
  BY <1>1, <1>2, RemovedSubscriptions
<1> HIDE DEF a, t
<1>4. /\ StorageTypeOK' /\ UniqueEmails' /\ UniqueSubscriptions'
      /\ DOMAIN heap' = DOMAIN heap
      /\ Listed' = Listed
  BY <1>1, <1>2, <1>3, ChangeSubscriptionsStep
<1>5. Held(Callers)' = Held(Callers)
  BY <1>1 DEF Held
<1> QED  BY <1>1, <1>4, <1>5 DEF StorageInv, TypeOK

\* DeleteSubscriber does: an object still pointed to stays in the heap.
LEMMA DeleteInv ==
    ASSUME StorageInv, NEW c \in Callers, NEW email \in Emails,
           DeleteSubscriber(c, email)
    PROVE  StorageInv'
<1> DEFINE a == GetSubscriber(email)
<1>1. RemoveSubscriber(email, Held(Callers)) /\ UNCHANGED call
  BY DEF DeleteSubscriber
<1>2. /\ StorageTypeOK' /\ UniqueEmails' /\ UniqueSubscriptions'
      /\ a \in Listed
      /\ Listed' = Listed \ {a}
      /\ DOMAIN heap' = DOMAIN heap \ ({a} \ Held(Callers))
  BY <1>1, RemoveSubscriberStep
<1>3. Held(Callers)' = Held(Callers)
  BY <1>1 DEF Held
<1> HIDE DEF a
<1>4. DOMAIN heap = Listed \cup Held(Callers)
  BY DEF StorageInv, TypeOK
<1>5. DOMAIN heap' = Listed' \cup Held(Callers)'
  BY <1>2, <1>3, <1>4
<1> QED  BY <1>1, <1>2, <1>5 DEF StorageInv, TypeOK

\* The empty storage is correct.
LEMMA InitInv == Init => StorageInv
<1> SUFFICES ASSUME Init PROVE StorageInv
  OBVIOUS
<1>1. /\ subscribers = <<>>
      /\ DOMAIN heap = {}
      /\ heap \in [DOMAIN heap -> Subscriber]
      /\ call = [c \in Callers |-> Idle]
  BY DEF Init, StorageInit
<1>2. Listed = {} /\ Held(Callers) = {}
  BY <1>1 DEF Listed, Elements, Held, Idle
<1>3. TypeOK
  BY <1>1, <1>2 DEF TypeOK, StorageTypeOK
<1> QED  BY <1>1, <1>2, <1>3 DEF StorageInv, UniqueEmails, UniqueSubscriptions

\* Every step keeps the storage correct.
LEMMA NextInv == StorageInv /\ [Next]_vars => StorageInv'
<1> SUFFICES ASSUME StorageInv, [Next]_vars PROVE StorageInv'
  OBVIOUS
<1>1. CASE UNCHANGED vars
  BY <1>1 DEF vars, StorageInv, TypeOK, StorageTypeOK, UniqueEmails,
              UniqueSubscriptions, Listed, Elements, Held
<1>2. CASE Next
  BY <1>2, CountInv, InsertInv, GetInv, CheckInv, AddInv, UnsubscribeInv, DeleteInv DEF Next
<1> QED  BY <1>1, <1>2

\* The storage invariant holds throughout.
THEOREM StorageCorrect == Spec => []StorageInv
BY InitInv, NextInv, PTL DEF Spec

\* Pointers always lead to objects of the heap and a call only holds what its
\* position in the code says (storage/memory/storage.go, service/subscription.go).
THEOREM TypeCorrect == Spec => []TypeOK
BY StorageCorrect, PTL DEF StorageInv

\* No interleaving of AddSubscriber and Subscribe creates two subscribers with
\* one e-mail.
THEOREM EmailsUnique == Spec => []UniqueEmails
BY StorageCorrect, PTL DEF StorageInv

\* No interleaving gives a subscriber two equal subscriptions.
THEOREM SubscriptionsUnique == Spec => []UniqueSubscriptions
BY StorageCorrect, PTL DEF StorageInv

----------------------------------------------------------------------------
(* The subscription limit.  A caller that may still add a subscription      *)
(* without looking at the present object is counted as if it had.           *)

\* Sets of callers are finite, and have at most as many members as Callers.
LEMMA CallersCount ==
    ASSUME NEW S \in SUBSET Callers
    PROVE  /\ Cardinality(Callers) \in Nat
           /\ Cardinality(S) \in Nat
           /\ Cardinality(S) <= Cardinality(Callers)
           /\ \A c \in Callers \ S : Cardinality(S) <= Cardinality(Callers) - 1
           /\ \A c \in S : Cardinality(S \ {c}) = Cardinality(S) - 1
           /\ \A T \in SUBSET S : Cardinality(T) \in Nat /\ Cardinality(T) <= Cardinality(S)
<1>1. IsFiniteSet(Callers) /\ Cardinality(Callers) \in Nat
  BY CallersAssumption, FS_CardinalityType
<1>2. IsFiniteSet(S) /\ Cardinality(S) \in Nat /\ Cardinality(S) <= Cardinality(Callers)
  BY <1>1, FS_Subset, FS_CardinalityType
<1>3. ASSUME NEW c \in Callers \ S PROVE Cardinality(S) <= Cardinality(Callers) - 1
  <2>1. S \in SUBSET (Callers \ {c})
    OBVIOUS
  <2>2. /\ IsFiniteSet(Callers \ {c})
        /\ Cardinality(Callers \ {c}) = Cardinality(Callers) - 1
    BY <1>1, FS_RemoveElement
  <2> QED  BY <2>1, <2>2, FS_Subset
<1>4. \A c \in S : Cardinality(S \ {c}) = Cardinality(S) - 1
  BY <1>2, FS_RemoveElement
<1>5. \A T \in SUBSET S : Cardinality(T) \in Nat /\ Cardinality(T) <= Cardinality(S)
  BY <1>2, FS_Subset, FS_CardinalityType
<1> QED  BY <1>1, <1>2, <1>3, <1>4, <1>5

\* The types of the parts of a listed object.
LEMMA ListedObject ==
    ASSUME TypeOK, NEW a \in Listed
    PROVE  /\ a \in DOMAIN heap
           /\ heap[a].Email \in Emails
           /\ heap[a].SubscriptionLimit \in Int
           /\ Len(heap[a].Subscriptions) \in Nat
<1>1. a \in DOMAIN heap /\ heap[a] \in Subscriber
  BY DEF TypeOK, StorageTypeOK, Listed, Elements
<1> QED  BY <1>1 DEF Subscriber

\* The bound for one object.
Bounded(a) ==
    heap[a].SubscriptionLimit > 0 =>
        Len(heap[a].Subscriptions) + Cardinality(Unchecked(a)) <=
            heap[a].SubscriptionLimit + Cardinality(Callers) - 1

\* An object that does not grow and is not counted for more callers.
LEMMA BoundKept ==
    ASSUME TypeOK, NEW a \in Listed, Bounded(a),
           heap'[a].SubscriptionLimit = heap[a].SubscriptionLimit,
           Len(heap'[a].Subscriptions) \in Nat,
           Len(heap'[a].Subscriptions) <= Len(heap[a].Subscriptions),
           Unchecked(a)' \subseteq Unchecked(a)
    PROVE  Bounded(a)'
<1>1. Unchecked(a) \in SUBSET Callers /\ Unchecked(a)' \in SUBSET Callers
  BY DEF Unchecked
<1>2. /\ Cardinality(Unchecked(a)) \in Nat
      /\ Cardinality(Unchecked(a)') \in Nat
      /\ Cardinality(Unchecked(a)') <= Cardinality(Unchecked(a))
      /\ Cardinality(Callers) \in Nat
  BY <1>1, CallersCount
<1>3. heap[a].SubscriptionLimit \in Int /\ Len(heap[a].Subscriptions) \in Nat
  BY ListedObject
<1> DEFINE limit == heap[a].SubscriptionLimit
           len   == Len(heap[a].Subscriptions)
           lenAfter == Len(heap'[a].Subscriptions)
           count == Cardinality(Unchecked(a))
           countAfter == Cardinality(Unchecked(a)')
           callers == Cardinality(Callers)
<1>4. limit > 0 => len + count <= limit + callers - 1
  BY DEF Bounded
<1>5. /\ limit \in Int /\ len \in Nat /\ lenAfter \in Nat /\ callers \in Nat
      /\ count \in Nat /\ countAfter \in Nat /\ countAfter <= count /\ lenAfter <= len
  BY <1>2, <1>3
<1> HIDE DEF limit, len, lenAfter, count, countAfter, callers
<1>6. limit > 0 => lenAfter + countAfter <= limit + callers - 1
  BY <1>4, <1>5
<1> QED  BY <1>6 DEF Bounded, limit, lenAfter, countAfter, callers

\* The bound, stated for one object at a time.
LEMMA OvershootPointwise == OvershootInv <=> \A a \in Listed : Bounded(a)
BY DEF OvershootInv, Bounded
\* A step that leaves the storage alone and moves no caller to the counted ones.
LEMMA CallBound ==
    ASSUME StorageInv, OvershootInv, NEW c \in Callers, NEW state,
           Goto(c, state), UNCHANGED storage,
           state.pc # "add",
           state.pc = "check" =>
               state.ref \in Listed /\ heap[state.ref].Email = state.email
    PROVE  OvershootInv'
<1>1. Listed' = Listed /\ heap' = heap
  BY DEF storage, Listed, Elements
<1>2. ASSUME NEW a \in Listed PROVE Unchecked(a)' \subseteq Unchecked(a)
  <2> SUFFICES ASSUME NEW d \in Unchecked(a)' PROVE d \in Unchecked(a)
    OBVIOUS
  <2>1. CASE d # c
    BY <1>1, <2>1, HeldAfter DEF Unchecked, StorageInv
  <2>2. CASE d = c
    <3>1. state.pc = "check" /\ state.email = heap[a].Email /\ state.ref # a
      BY <1>1, <2>2, HeldAfter DEF Unchecked, StorageInv
    <3> QED  BY <1>2, <3>1, OneObject DEF StorageInv
  <2> QED  BY <2>1, <2>2
<1>3. ASSUME NEW a \in Listed PROVE Bounded(a)'
  <2>1. Len(heap[a].Subscriptions) \in Nat
    BY ListedObject DEF StorageInv
  <2> QED  BY <1>1, <1>2, <2>1, BoundKept, OvershootPointwise DEF StorageInv
<1> QED  BY <1>1, <1>3 DEF OvershootInv, Bounded

\* The first half of AddSubscriber keeps the bound.
LEMMA CountBound ==
    ASSUME StorageInv, OvershootInv,
           NEW c \in Callers, NEW email \in Emails, NEW limit \in Limits,
           AddSubscriberCount(c, email, limit)
    PROVE  OvershootInv'
<1> DEFINE state == [pc    |-> "insert",
                     email |-> email,
                     limit |-> IF limit = 0 THEN SubscriptionLimit ELSE limit]
<1>1. Goto(c, state) /\ UNCHANGED storage /\ state.pc = "insert"
  BY DEF AddSubscriberCount
<1> HIDE DEF state
<1> QED  BY <1>1, CallBound

\* The first step of Subscribe does: the caller is not one of the unchecked ones.
LEMMA GetBound ==
    ASSUME StorageInv, OvershootInv,
           NEW c \in Callers, NEW email \in Emails, NEW s \in Subscriptions,
           SubscribeGet(c, email, s)
    PROVE  OvershootInv'
<1> DEFINE state == [pc           |-> "check",
                     email        |-> email,
                     subscription |-> s,
                     ref          |-> GetSubscriber(email)]
<1>1. /\ GetSubscriber(email) \in Listed
      /\ heap[GetSubscriber(email)].Email = email
  BY Found DEF SubscribeGet, StorageInv
<1>2. /\ Goto(c, state) /\ UNCHANGED storage
      /\ state.pc = "check" /\ state.ref \in Listed /\ heap[state.ref].Email = state.email
  BY <1>1 DEF SubscribeGet
<1> HIDE DEF state
<1> QED  BY <1>2, CallBound

\* A new object has no subscriptions, and its creator is not counted for it.
LEMMA InsertBound ==
    ASSUME StorageInv, OvershootInv, NEW c \in Callers, AddSubscriberInsert(c)
    PROVE  OvershootInv'
<1> DEFINE o == [Email             |-> call[c].email,
                 Subscriptions     |-> <<>>,
                 SubscriptionLimit |-> call[c].limit]
<1>1. call[c].pc = "insert" /\ Goto(c, Idle) /\ Idle.pc = "idle"
  BY DEF AddSubscriberInsert, Idle
<1>2. call[c] \in Inserting
  BY <1>1 DEF StorageInv, TypeOK, Idle, Inserting, Checking, Adding
<1>3. CASE Known(call[c].email) /\ UNCHANGED storage
  BY <1>1, <1>3, CallBound
<1>4. CASE ~ Known(call[c].email) /\ AppendSubscriber(o)
  <2>1. /\ o \in Subscriber
        /\ o.Email = call[c].email
        /\ Len(o.Subscriptions) = 0
        /\ o.SubscriptionLimit \in Int
        /\ \A i, j \in DOMAIN o.Subscriptions :
               Equals(o.Subscriptions[i], o.Subscriptions[j]) => i = j
    BY <1>2 DEF Subscriber, Inserting
  <2> HIDE DEF o
  <2>2. \A a \in Listed : heap[a].Email # o.Email
    BY <1>4, <2>1, NotFound
  <2>3. PICK a \in Addrs \ DOMAIN heap :
          /\ Listed' = Listed \cup {a}
          /\ heap'[a] = o
          /\ \A x \in DOMAIN heap : heap'[x] = heap[x]
    BY <1>4, <2>1, <2>2, AppendSubscriberStep
  <2>4. call'[c] = Idle /\ \A d \in Callers \ {c} : call'[d] = call[d]
    BY <1>1, HeldAfter DEF StorageInv
  <2>5. ASSUME NEW x \in Listed PROVE Bounded(x)'
    <3>1. x \in DOMAIN heap /\ Len(heap[x].Subscriptions) \in Nat
      BY ListedObject DEF StorageInv
    <3>2. Unchecked(x)' \subseteq Unchecked(x)
      BY <1>1, <2>3, <2>4, <3>1 DEF Unchecked
    <3> QED  BY <2>3, <3>1, <3>2, BoundKept, OvershootPointwise DEF StorageInv
  <2>6. Bounded(a)'
    <3>1. Unchecked(a)' \in SUBSET Callers /\ c \notin Unchecked(a)'
      BY <1>1, <2>4 DEF Unchecked
    <3>2. /\ Cardinality(Unchecked(a)') \in Nat
          /\ Cardinality(Callers) \in Nat
          /\ Cardinality(Unchecked(a)') <= Cardinality(Callers) - 1
      BY <3>1, CallersCount
    <3> DEFINE limit == heap'[a].SubscriptionLimit
               len   == Len(heap'[a].Subscriptions)
               count == Cardinality(Unchecked(a)')
               callers == Cardinality(Callers)
    <3>3. limit \in Int /\ len = 0 /\ count \in Nat /\ callers \in Nat /\ count <= callers - 1
      BY <2>1, <2>3, <3>2
    <3> HIDE DEF limit, len, count, callers
    <3>4. limit > 0 => len + count <= limit + callers - 1
      BY <3>3
    <3> QED  BY <3>4 DEF Bounded, limit, len, count, callers
  <2> QED  BY <2>3, <2>5, <2>6 DEF OvershootInv, Bounded
<1> QED  BY <1>3, <1>4 DEF AddSubscriberInsert, AddSubscriber
\* A caller that passes the check for a's own object saw a below its limit; one
\* that checked an orphan was counted already.
LEMMA CheckBound ==
    ASSUME StorageInv, OvershootInv, NEW c \in Callers, SubscribeCheck(c)
    PROVE  OvershootInv'
<1>1. call[c].pc = "check" /\ call[c] \in Checking
  BY DEF SubscribeCheck, StorageInv, TypeOK, Idle, Inserting, Checking, Adding
<1>2. PICK state \in {Idle} \cup Adding :
        /\ Goto(c, state)
        /\ state.pc = "add" => /\ state.email = call[c].email
                               /\ BelowLimit(heap[call[c].ref])
  BY <1>1 DEF SubscribeCheck, Checking, Adding, Idle
<1>3. /\ state.pc # "check"
      /\ call'[c] = state
      /\ \A d \in Callers \ {c} : call'[d] = call[d]
  <2>1. state.pc # "check"
    BY <1>2 DEF Idle, Adding
  <2> QED  BY <1>2, <2>1, HeldAfter DEF StorageInv
<1>4. Listed' = Listed /\ \A a \in Listed : heap'[a] = heap[a]
  BY DEF SubscribeCheck, Listed, Elements
<1>5. ASSUME NEW a \in Listed, call[c].ref # a \/ state.pc # "add" PROVE Bounded(a)'
  <2>1. Len(heap[a].Subscriptions) \in Nat
    BY ListedObject DEF StorageInv
  <2>2. Unchecked(a)' \subseteq Unchecked(a)
    BY <1>1, <1>2, <1>3, <1>4, <1>5 DEF Unchecked
  <2> QED  BY <1>4, <2>1, <2>2, BoundKept, OvershootPointwise DEF StorageInv
<1>6. ASSUME NEW a \in Listed, call[c].ref = a, state.pc = "add" PROVE Bounded(a)'
  <2>1. /\ Len(heap[a].Subscriptions) \in Nat
        /\ heap[a].SubscriptionLimit \in Int
        /\ \/ heap[a].SubscriptionLimit <= 0
           \/ Len(heap[a].Subscriptions) < heap[a].SubscriptionLimit
    BY <1>2, <1>6, ListedObject DEF StorageInv, BelowLimit
  <2>2. /\ Cardinality(Unchecked(a)') \in Nat
        /\ Cardinality(Callers) \in Nat
        /\ Cardinality(Unchecked(a)') <= Cardinality(Callers)
    <3>1. Unchecked(a)' \in SUBSET Callers
      BY DEF Unchecked
    <3> QED  BY <3>1, CallersCount
  <2> DEFINE limit == heap[a].SubscriptionLimit
             len   == Len(heap[a].Subscriptions)
             count == Cardinality(Unchecked(a)')
             callers == Cardinality(Callers)
  <2> HIDE DEF limit, len, count, callers
  <2>3. limit > 0 => len + count <= limit + callers - 1
    BY <2>1, <2>2 DEF limit, len, count, callers
  <2> QED  BY <1>4, <2>3 DEF Bounded, limit, len, count, callers
<1> QED  BY <1>4, <1>5, <1>6 DEF OvershootInv, Bounded

\* The object that grows has one counted caller less.
LEMMA AddBound ==
    ASSUME StorageInv, OvershootInv, NEW c \in Callers, SubscribeAdd(c)
    PROVE  OvershootInv'
<1> DEFINE email == call[c].email
           s == call[c].subscription
           o == [Email |-> email, Subscriptions |-> <<s>>, SubscriptionLimit |-> 0]
<1>1. /\ call[c].pc = "add"
      /\ Goto(c, Idle)
      /\ Idle.pc = "idle"
      /\ AddSubscription(email, s)
  BY DEF SubscribeAdd, Idle
<1>2. email \in Emails /\ s \in Subscriptions
  BY <1>1 DEF StorageInv, TypeOK, Idle, Inserting, Checking, Adding
<1>3. call'[c] = Idle /\ \A d \in Callers \ {c} : call'[d] = call[d]
  BY <1>1, HeldAfter DEF StorageInv
<1> PICK a : a = GetSubscriber(email)
  OBVIOUS
<1>4. CASE Known(email) /\ Subscribed(a, s) # {}
  <2>1. UNCHANGED storage
    BY <1>1, <1>4 DEF AddSubscription, storage
  <2> QED  BY <1>1, <2>1, CallBound
<1>5. CASE Known(email) /\ Subscribed(a, s) = {}
  <2>1. /\ heap' = [heap EXCEPT ![a].Subscriptions = Append(heap[a].Subscriptions, s)]
        /\ UNCHANGED subscribers
    BY <1>1, <1>5 DEF AddSubscription
  <2>2. a \in Listed /\ heap[a].Email = email
    BY <1>5, Found DEF StorageInv
  <2> HIDE DEF s
  <2>3. /\ Append(heap[a].Subscriptions, s) \in Seq(Subscriptions)
        /\ Len(Append(heap[a].Subscriptions, s)) = Len(heap[a].Subscriptions) + 1
        /\ \A i, j \in DOMAIN Append(heap[a].Subscriptions, s) :
               Equals(Append(heap[a].Subscriptions, s)[i],
                      Append(heap[a].Subscriptions, s)[j]) => i = j
    BY <1>2, <1>5, <2>2, AppendedSubscriptions
  <2>4. /\ Listed' = Listed
        /\ Len(heap'[a].Subscriptions) = Len(heap[a].Subscriptions) + 1
        /\ \A x \in DOMAIN heap :
               /\ heap'[x].Email = heap[x].Email
               /\ heap'[x].SubscriptionLimit = heap[x].SubscriptionLimit
               /\ x # a => heap'[x] = heap[x]
    BY <2>1, <2>2, <2>3, ChangeSubscriptionsStep
  <2>5. ASSUME NEW x \in Listed, x # a PROVE Bounded(x)'
    <3>1. x \in DOMAIN heap /\ Len(heap[x].Subscriptions) \in Nat
      BY ListedObject DEF StorageInv
    <3>2. Unchecked(x)' \subseteq Unchecked(x)
      BY <1>1, <1>3, <2>4, <3>1 DEF Unchecked
    <3>3. heap'[x] = heap[x]
      BY <2>4, <2>5, <3>1
    <3> QED  BY <3>1, <3>2, <3>3, BoundKept, OvershootPointwise DEF StorageInv
  <2>6. Bounded(a)'
    <3>1. /\ a \in DOMAIN heap
          /\ Len(heap[a].Subscriptions) \in Nat
          /\ heap[a].SubscriptionLimit \in Int
      BY <2>2, ListedObject DEF StorageInv
    <3>2. /\ c \in Unchecked(a)
          /\ Unchecked(a)' \subseteq Unchecked(a) \ {c}
          /\ Unchecked(a) \in SUBSET Callers
      BY <1>1, <1>3, <2>2, <2>4, <3>1 DEF Unchecked
    <3>3. /\ Cardinality(Unchecked(a)) \in Nat
          /\ Cardinality(Unchecked(a) \ {c}) = Cardinality(Unchecked(a)) - 1
          /\ Cardinality(Callers) \in Nat
      BY <3>2, CallersCount
    <3>4. /\ Cardinality(Unchecked(a)') \in Nat
          /\ Cardinality(Unchecked(a)') <= Cardinality(Unchecked(a) \ {c})
      <4>1. Unchecked(a) \ {c} \in SUBSET Callers
        BY <3>2
      <4> QED  BY <3>2, <4>1, CallersCount
    <3>5. Bounded(a)
      BY <2>2, OvershootPointwise
    <3> DEFINE limit == heap[a].SubscriptionLimit
               len   == Len(heap[a].Subscriptions)
               count == Cardinality(Unchecked(a))
               countAfter == Cardinality(Unchecked(a)')
               callers == Cardinality(Callers)
    <3>6. limit > 0 => len + count <= limit + callers - 1
      BY <3>5 DEF Bounded
    <3>7. /\ limit \in Int /\ len \in Nat /\ count \in Nat /\ countAfter \in Nat
          /\ callers \in Nat /\ countAfter <= count - 1
      BY <3>1, <3>3, <3>4
    <3>8. /\ Len(heap'[a].Subscriptions) = len + 1
          /\ heap'[a].SubscriptionLimit = limit
      BY <2>4, <3>1
    <3> HIDE DEF limit, len, count, countAfter, callers
    <3>9. limit > 0 => (len + 1) + countAfter <= limit + callers - 1
      BY <3>6, <3>7
    <3> QED  BY <3>8, <3>9 DEF Bounded, countAfter, callers
  <2> QED  BY <2>4, <2>5, <2>6 DEF OvershootInv, Bounded
<1>6. CASE ~ Known(email)
  <2>1. AppendSubscriber(o)
    BY <1>1, <1>6 DEF AddSubscription
  <2>2. /\ o \in Subscriber
        /\ o.Email = email
        /\ o.SubscriptionLimit = 0
        /\ \A i, j \in DOMAIN o.Subscriptions :
               Equals(o.Subscriptions[i], o.Subscriptions[j]) => i = j
    BY <1>2 DEF Subscriber
  <2> HIDE DEF o
  <2>3. \A x \in Listed : heap[x].Email # o.Email
    BY <1>6, <2>2, NotFound
  <2>4. PICK new \in Addrs \ DOMAIN heap :
          /\ Listed' = Listed \cup {new}
          /\ heap'[new] = o
          /\ \A x \in DOMAIN heap : heap'[x] = heap[x]
    BY <2>1, <2>2, <2>3, AppendSubscriberStep
  <2>5. ASSUME NEW x \in Listed PROVE Bounded(x)'
    <3>1. x \in DOMAIN heap /\ Len(heap[x].Subscriptions) \in Nat
      BY ListedObject DEF StorageInv
    <3>2. Unchecked(x)' \subseteq Unchecked(x)
      BY <1>1, <1>3, <2>4, <3>1 DEF Unchecked
    <3> QED  BY <2>4, <3>1, <3>2, BoundKept, OvershootPointwise DEF StorageInv
  <2>6. Bounded(new)'
    BY <2>2, <2>4 DEF Bounded
  <2> QED  BY <2>4, <2>5, <2>6 DEF OvershootInv, Bounded
<1> QED  BY <1>4, <1>5, <1>6

\* Unsubscribe does: the list gets shorter.
LEMMA UnsubscribeBound ==
    ASSUME StorageInv, OvershootInv,
           NEW c \in Callers, NEW email \in Emails, NEW s \in Subscriptions,
           Unsubscribe(c, email, s)
    PROVE  OvershootInv'
<1> DEFINE a == GetSubscriber(email)
           t == SwapRemove(heap[a].Subscriptions, First(Subscribed(a, s)))
<1>1. /\ Known(email)
      /\ Subscribed(a, s) # {}
      /\ heap' = [heap EXCEPT ![a].Subscriptions = t]
      /\ UNCHANGED subscribers
      /\ UNCHANGED call
  BY DEF Unsubscribe, RemoveSubscription
<1>2. a \in Listed
  BY <1>1, Found DEF StorageInv
<1>3. /\ t \in Seq(Subscriptions)
      /\ Len(t) = Len(heap[a].Subscriptions) - 1
      /\ \A i, j \in DOMAIN t : Equals(t[i], t[j]) => i = j
  BY <1>1, <1>2, RemovedSubscriptions
<1> HIDE DEF a, t
<1>4. /\ Listed' = Listed
      /\ heap'[a].Subscriptions = t
      /\ \A x \in DOMAIN heap :
             /\ heap'[x].Email = heap[x].Email
             /\ heap'[x].SubscriptionLimit = heap[x].SubscriptionLimit
             /\ x # a => heap'[x] = heap[x]
  BY <1>1, <1>2, <1>3, ChangeSubscriptionsStep
<1>5. ASSUME NEW x \in Listed PROVE Bounded(x)'
  <2>1. x \in DOMAIN heap /\ Len(heap[x].Subscriptions) \in Nat
    BY ListedObject DEF StorageInv
  <2>2. Unchecked(x)' \subseteq Unchecked(x)
    BY <1>1, <1>4, <2>1 DEF Unchecked
  <2>3. /\ Len(heap'[x].Subscriptions) \in Nat
        /\ Len(heap'[x].Subscriptions) <= Len(heap[x].Subscriptions)
    <3>1. Len(t) \in Nat
      BY <1>3
    <3>2. CASE x = a
      BY <1>3, <1>4, <2>1, <3>1, <3>2
    <3>3. CASE x # a
      BY <1>4, <2>1, <3>3
    <3> QED  BY <3>2, <3>3
  <2> QED  BY <1>4, <2>1, <2>2, <2>3, BoundKept, OvershootPointwise DEF StorageInv
<1> QED  BY <1>4, <1>5 DEF OvershootInv, Bounded

\* DeleteSubscriber does: the objects still listed are as they were.
LEMMA DeleteBound ==
    ASSUME StorageInv, OvershootInv, NEW c \in Callers, NEW email \in Emails,
           DeleteSubscriber(c, email)
    PROVE  OvershootInv'
<1>1. RemoveSubscriber(email, Held(Callers)) /\ UNCHANGED call
  BY DEF DeleteSubscriber
<1>2. /\ StorageTypeOK'
      /\ Listed' \subseteq Listed
      /\ \A x \in DOMAIN heap' : heap'[x] = heap[x]
  BY <1>1, RemoveSubscriberStep
<1>3. ASSUME NEW x \in Listed' PROVE Bounded(x)'
  <2>1. /\ x \in Listed
        /\ heap'[x] = heap[x]
        /\ Len(heap[x].Subscriptions) \in Nat
    BY <1>2, ListedObject DEF StorageInv, StorageTypeOK, Listed, Elements
  <2>2. Unchecked(x)' \subseteq Unchecked(x)
    BY <1>1, <2>1 DEF Unchecked
  <2> QED  BY <2>1, <2>2, BoundKept, OvershootPointwise DEF StorageInv
<1> QED  BY <1>3 DEF OvershootInv, Bounded

\* No object is listed at first.
LEMMA InitBound == Init => OvershootInv
BY DEF Init, StorageInit, OvershootInv, Listed, Elements

\* Every step keeps the bound.
LEMMA NextBound == StorageInv /\ OvershootInv /\ [Next]_vars => OvershootInv'
<1> SUFFICES ASSUME StorageInv, OvershootInv, [Next]_vars PROVE OvershootInv'
  OBVIOUS
<1>1. CASE UNCHANGED vars
  BY <1>1 DEF vars, OvershootInv, Unchecked, Listed, Elements
<1>2. CASE Next
  BY <1>2, CountBound, InsertBound, GetBound, CheckBound, AddBound,
     UnsubscribeBound, DeleteBound DEF Next
<1> QED  BY <1>1, <1>2

\* The bound with the callers under way counted in, for any number of callers.
THEOREM OvershootInductive == Spec => []OvershootInv
<1>1. Init => StorageInv /\ OvershootInv
  BY InitInv, InitBound
<1>2. StorageInv /\ OvershootInv /\ [Next]_vars => (StorageInv /\ OvershootInv)'
  BY NextInv, NextBound
<1> QED  BY <1>1, <1>2, PTL DEF Spec

\* However many callers there are, they push a subscriber over its limit by less
\* than their number (service/subscription.go:108-112).
THEOREM OvershootBound == Spec => []LimitOvershootBounded
<1>1. StorageInv /\ OvershootInv => LimitOvershootBounded
  <2> SUFFICES ASSUME StorageInv, OvershootInv, NEW a \in Listed,
                      heap[a].SubscriptionLimit > 0
               PROVE  Len(heap[a].Subscriptions) <=
                          heap[a].SubscriptionLimit + Cardinality(Callers) - 1
    BY DEF LimitOvershootBounded
  <2>1. /\ Len(heap[a].Subscriptions) \in Nat
        /\ heap[a].SubscriptionLimit \in Int
    BY ListedObject DEF StorageInv
  <2>2. Cardinality(Unchecked(a)) \in Nat /\ Cardinality(Callers) \in Nat
    <3>1. Unchecked(a) \in SUBSET Callers
      BY DEF Unchecked
    <3> QED  BY <3>1, CallersCount
  <2> DEFINE limit == heap[a].SubscriptionLimit
             len   == Len(heap[a].Subscriptions)
             count == Cardinality(Unchecked(a))
             callers == Cardinality(Callers)
  <2>3. limit > 0 /\ len + count <= limit + callers - 1
    BY DEF OvershootInv
  <2>4. limit \in Int /\ len \in Nat /\ count \in Nat /\ callers \in Nat
    BY <2>1, <2>2
  <2> HIDE DEF limit, len, count, callers
  <2>5. len <= limit + callers - 1
    BY <2>3, <2>4
  <2> QED  BY <2>5 DEF limit, len, callers
<1> QED  BY <1>1, StorageCorrect, OvershootInductive, PTL
----------------------------------------------------------------------------
(* The service implements the directory: what an operation of the storage   *)
(* does to the objects, seen as what it does to the map from e-mails to     *)
(* limits and sets of subscriptions.                                        *)

\* The mapping, as a function of the heap and of the addresses listed.
DirectoryOf(h, listed) ==
    [email \in {h[a].Email : a \in listed} |->
        [limit |-> h[CHOOSE a \in listed : h[a].Email = email].SubscriptionLimit,
         subscriptions |->
             Elements(h[CHOOSE a \in listed : h[a].Email = email].Subscriptions)]]

\* What the directory says of a subscriber object.
EntryOf(o) == Dir!Entry(o.SubscriptionLimit, Elements(o.Subscriptions))

\* The directory, now and after a step.
LEMMA DirectoryNow == Directory = DirectoryOf(heap, Listed)
BY DEF Directory, Addressed, DirectoryOf
LEMMA DirectoryNext == Directory' = DirectoryOf(heap', Listed')
BY DEF Directory, Addressed, DirectoryOf

\* Functions with the same domain and the same values are one function.
IsAFcn(f) == f = [x \in DOMAIN f |-> f[x]]
LEMMA SameFunction ==
    ASSUME NEW f, NEW g, IsAFcn(f), IsAFcn(g), DOMAIN f = DOMAIN g,
           \A x \in DOMAIN f : f[x] = g[x]
    PROVE  f = g
BY DEF IsAFcn

\* When e-mails are unique, the directory has the entry of every listed object,
\* and no other.
LEMMA EntriesOfObjects ==
    ASSUME NEW h, NEW listed, \A a, b \in listed : h[a].Email = h[b].Email => a = b
    PROVE  /\ DOMAIN DirectoryOf(h, listed) = {h[a].Email : a \in listed}
           /\ \A a \in listed : DirectoryOf(h, listed)[h[a].Email] = EntryOf(h[a])
           /\ IsAFcn(DirectoryOf(h, listed))
<1>1. /\ DOMAIN DirectoryOf(h, listed) = {h[a].Email : a \in listed}
      /\ IsAFcn(DirectoryOf(h, listed))
  BY DEF DirectoryOf, IsAFcn
<1>2. ASSUME NEW a \in listed PROVE DirectoryOf(h, listed)[h[a].Email] = EntryOf(h[a])
  <2>1. (CHOOSE b \in listed : h[b].Email = h[a].Email) = a
    OBVIOUS
  <2>2. h[a].Email \in {h[b].Email : b \in listed}
    OBVIOUS
  <2> QED  BY <2>1, <2>2 DEF DirectoryOf, EntryOf, Dir!Entry
<1> QED  BY <1>1, <1>2

\* The directory of the storage.
LEMMA DirectoryIs ==
    ASSUME UniqueEmails
    PROVE  /\ DOMAIN Directory = {heap[a].Email : a \in Listed}
           /\ \A a \in Listed : Directory[heap[a].Email] = EntryOf(heap[a])
           /\ IsAFcn(Directory)
<1>1. \A a, b \in Listed : heap[a].Email = heap[b].Email => a = b
  BY OneObject
<1>2. /\ DOMAIN DirectoryOf(heap, Listed) = {heap[a].Email : a \in Listed}
      /\ \A a \in Listed : DirectoryOf(heap, Listed)[heap[a].Email] = EntryOf(heap[a])
      /\ IsAFcn(DirectoryOf(heap, Listed))
  BY <1>1, EntriesOfObjects
<1> QED  BY <1>2, DirectoryNow

\* The directory after a step.
LEMMA DirectoryIsNext ==
    ASSUME UniqueEmails'
    PROVE  /\ DOMAIN Directory' = {heap'[a].Email : a \in Listed'}
           /\ \A a \in Listed' : Directory'[heap'[a].Email] = EntryOf(heap'[a])
           /\ IsAFcn(Directory')
<1>1. \A a, b \in Listed' : heap'[a].Email = heap'[b].Email => a = b
  BY DEF UniqueEmails, Listed, Elements
<1>2. /\ DOMAIN DirectoryOf(heap', Listed') = {heap'[a].Email : a \in Listed'}
      /\ \A a \in Listed' : DirectoryOf(heap', Listed')[heap'[a].Email] = EntryOf(heap'[a])
      /\ IsAFcn(DirectoryOf(heap', Listed'))
  BY <1>1, EntriesOfObjects
<1> QED  BY <1>2, DirectoryNext

\* An e-mail is known when the directory has it, with the entry of the object found.
LEMMA KnownInDirectory ==
    ASSUME StorageInv, NEW email
    PROVE  /\ Known(email) <=> email \in DOMAIN Directory
           /\ Known(email) => Directory[email] = EntryOf(heap[GetSubscriber(email)])
<1>1. CASE Known(email)
  <2>1. GetSubscriber(email) \in Listed /\ heap[GetSubscriber(email)].Email = email
    BY <1>1, Found DEF StorageInv
  <2> QED  BY <1>1, <2>1, DirectoryIs DEF StorageInv
<1>2. CASE ~ Known(email)
  <2>1. \A a \in Listed : heap[a].Email # email
    BY <1>2, NotFound
  <2> QED  BY <1>2, <2>1, DirectoryIs DEF StorageInv
<1> QED  BY <1>1, <1>2

\* A step that changes no listed object does not change the directory.
LEMMA DirectoryUnchanged ==
    ASSUME UniqueEmails, Listed' = Listed, \A a \in Listed : heap'[a] = heap[a]
    PROVE  UNCHANGED Directory
<1>1. \A a, b \in Listed : heap'[a].Email = heap'[b].Email => a = b
  BY OneObject
<1>2. /\ DOMAIN DirectoryOf(heap', Listed) = {heap'[a].Email : a \in Listed}
      /\ \A a \in Listed : DirectoryOf(heap', Listed)[heap'[a].Email] = EntryOf(heap'[a])
      /\ IsAFcn(DirectoryOf(heap', Listed))
  BY <1>1, EntriesOfObjects
<1>3. Directory' = DirectoryOf(heap', Listed)
  BY DirectoryNext
<1>4. DOMAIN Directory' = DOMAIN Directory
  BY <1>2, <1>3, DirectoryIs
<1>5. \A e \in DOMAIN Directory : Directory'[e] = Directory[e]
  BY <1>2, <1>3, DirectoryIs
<1> QED  BY <1>2, <1>3, <1>4, <1>5, DirectoryIs, SameFunction

\* A new object with a new e-mail is a new entry.
LEMMA AppendSubscriberMapped ==
    ASSUME StorageInv, NEW o \in Subscriber, ~ Known(o.Email),
           \A i, j \in DOMAIN o.Subscriptions :
               Equals(o.Subscriptions[i], o.Subscriptions[j]) => i = j,
           AppendSubscriber(o)
    PROVE  o.Email \notin DOMAIN Directory /\ Dir!Set(o.Email, EntryOf(o))
<1>1. \A a \in Listed : heap[a].Email # o.Email
  BY NotFound
<1>2. /\ UniqueEmails'
      /\ \E a \in Addrs \ DOMAIN heap :
             /\ Listed' = Listed \cup {a}
             /\ heap'[a] = o
             /\ \A x \in DOMAIN heap : heap'[x] = heap[x]
  BY <1>1, AppendSubscriberStep
<1>3. PICK a \in Addrs \ DOMAIN heap :
             /\ Listed' = Listed \cup {a}
             /\ heap'[a] = o
             /\ \A x \in DOMAIN heap : heap'[x] = heap[x]
  BY <1>2
<1>4. \A x \in Listed : heap'[x] = heap[x]
  BY <1>3 DEF StorageInv, TypeOK
<1>5. /\ DOMAIN Directory = {heap[x].Email : x \in Listed}
      /\ \A x \in Listed : Directory[heap[x].Email] = EntryOf(heap[x])
  BY DirectoryIs DEF StorageInv
<1>6. /\ DOMAIN Directory' = {heap'[x].Email : x \in Listed'}
      /\ \A x \in Listed' : Directory'[heap'[x].Email] = EntryOf(heap'[x])
      /\ IsAFcn(Directory')
  BY <1>2, DirectoryIsNext
<1>7. o.Email \notin DOMAIN Directory
  BY <1>1, <1>5
<1>8. DOMAIN Directory' = DOMAIN Directory \cup {o.Email}
  BY <1>3, <1>4, <1>5, <1>6
<1>9. \A e \in DOMAIN Directory' :
          Directory'[e] = IF e = o.Email THEN EntryOf(o) ELSE Directory[e]
  BY <1>1, <1>3, <1>4, <1>5, <1>6
<1> QED  BY <1>6, <1>7, <1>8, <1>9 DEF Dir!Set, IsAFcn

\* One listed object gets other subscriptions: its entry does.
LEMMA ChangeSubscriptionsMapped ==
    ASSUME StorageInv, NEW a \in Listed, NEW s \in Seq(Subscriptions),
           \A i, j \in DOMAIN s : Equals(s[i], s[j]) => i = j,
           heap' = [heap EXCEPT ![a].Subscriptions = s],
           UNCHANGED subscribers
    PROVE  Dir!Set(heap[a].Email, Dir!Entry(heap[a].SubscriptionLimit, Elements(s)))
<1>1. /\ UniqueEmails'
      /\ Listed' = Listed
      /\ heap'[a].Subscriptions = s
      /\ \A x \in DOMAIN heap :
             /\ heap'[x].Email = heap[x].Email
             /\ heap'[x].SubscriptionLimit = heap[x].SubscriptionLimit
             /\ x # a => heap'[x] = heap[x]
  BY ChangeSubscriptionsStep
<1>2. Listed \subseteq DOMAIN heap
  BY DEF StorageInv, TypeOK
<1>3. /\ DOMAIN Directory = {heap[x].Email : x \in Listed}
      /\ \A x \in Listed : Directory[heap[x].Email] = EntryOf(heap[x])
  BY DirectoryIs DEF StorageInv
<1>4. /\ DOMAIN Directory' = {heap'[x].Email : x \in Listed'}
      /\ \A x \in Listed' : Directory'[heap'[x].Email] = EntryOf(heap'[x])
      /\ IsAFcn(Directory')
  BY <1>1, DirectoryIsNext
<1>5. DOMAIN Directory' = DOMAIN Directory \cup {heap[a].Email}
  BY <1>1, <1>2, <1>3, <1>4
<1>6. EntryOf(heap'[a]) = Dir!Entry(heap[a].SubscriptionLimit, Elements(s))
  BY <1>1, <1>2 DEF EntryOf
<1>7. ASSUME NEW x \in Listed
      PROVE  Directory'[heap[x].Email] =
                 IF heap[x].Email = heap[a].Email
                 THEN Dir!Entry(heap[a].SubscriptionLimit, Elements(s))
                 ELSE Directory[heap[x].Email]
  <2>1. CASE x = a
    BY <1>1, <1>2, <1>4, <1>6, <2>1
  <2>2. CASE x # a
    <3>1. heap[x].Email # heap[a].Email
      BY <2>2, OneObject DEF StorageInv
    <3> QED  BY <1>1, <1>2, <1>3, <1>4, <2>2, <3>1
  <2> QED  BY <2>1, <2>2
<1>8. \A e \in DOMAIN Directory' :
          Directory'[e] = IF e = heap[a].Email
                          THEN Dir!Entry(heap[a].SubscriptionLimit, Elements(s))
                          ELSE Directory[e]
  BY <1>3, <1>5, <1>7
<1> QED  BY <1>4, <1>5, <1>8 DEF Dir!Set, IsAFcn

\* An object that leaves the list leaves the directory.
LEMMA RemoveSubscriberMapped ==
    ASSUME StorageInv, NEW email, NEW held, RemoveSubscriber(email, held)
    PROVE  Dir!RemoveSubscriber(email)
<1> DEFINE a == GetSubscriber(email)
<1>1. /\ UniqueEmails'
      /\ a \in Listed
      /\ Listed' = Listed \ {a}
      /\ DOMAIN heap' = DOMAIN heap \ ({a} \ held)
      /\ \A x \in DOMAIN heap' : heap'[x] = heap[x]
  BY RemoveSubscriberStep
<1>2. heap[a].Email = email /\ Known(email)
  BY Found DEF StorageInv, RemoveSubscriber
<1> HIDE DEF a
<1>3. \A x \in Listed' : x \in Listed /\ heap'[x] = heap[x] /\ heap[x].Email # email
  <2> SUFFICES ASSUME NEW x \in Listed'
               PROVE  x \in Listed /\ heap'[x] = heap[x] /\ heap[x].Email # email
    OBVIOUS
  <2>1. x \in Listed /\ x # a /\ x \in DOMAIN heap
    BY <1>1 DEF StorageInv, TypeOK
  <2>2. heap[x].Email # email
    BY <1>1, <1>2, <2>1, OneObject DEF StorageInv
  <2> QED  BY <1>1, <2>1, <2>2
<1>4. /\ DOMAIN Directory = {heap[x].Email : x \in Listed}
      /\ \A x \in Listed : Directory[heap[x].Email] = EntryOf(heap[x])
  BY DirectoryIs DEF StorageInv
<1>5. /\ DOMAIN Directory' = {heap'[x].Email : x \in Listed'}
      /\ \A x \in Listed' : Directory'[heap'[x].Email] = EntryOf(heap'[x])
      /\ IsAFcn(Directory')
  BY <1>1, DirectoryIsNext
<1>6. DOMAIN Directory' = DOMAIN Directory \ {email}
  <2>1. \A x \in Listed : x = a \/ x \in Listed'
    BY <1>1
  <2> QED  BY <1>2, <1>3, <1>4, <1>5, <2>1
<1>7. \A e \in DOMAIN Directory' : Directory'[e] = Directory[e]
  BY <1>3, <1>4, <1>5
<1>8. email \in DOMAIN Directory
  BY <1>1, <1>2, <1>4
<1> QED  BY <1>5, <1>6, <1>7, <1>8 DEF Dir!RemoveSubscriber, IsAFcn

----------------------------------------------------------------------------
(* Every step of the service is the one asked for.                          *)

\* The limit of a subscriber that is about to be inserted: the one asked for, or the
\* default in the place of 0.
InsertedLimits ==
    \A c \in Callers :
        call[c].pc = "insert" => call[c].limit \in (Limits \ {0}) \cup {SubscriptionLimit}

\* The limits are those of the requests.
LEMMA InsertedLimitsKept ==
    StorageInv /\ InsertedLimits /\ [Next]_vars => InsertedLimits'
<1> SUFFICES ASSUME StorageInv, InsertedLimits, [Next]_vars, NEW c \in Callers,
                    call'[c].pc = "insert"
             PROVE  call'[c].limit \in (Limits \ {0}) \cup {SubscriptionLimit}
  BY DEF InsertedLimits
<1>1. CASE call'[c] = call[c]
  BY <1>1 DEF InsertedLimits
<1>2. CASE \E email \in Emails, limit \in Limits : AddSubscriberCount(c, email, limit)
  BY <1>2 DEF AddSubscriberCount, Goto, StorageInv, TypeOK
<1>3. ASSUME NEW d \in Callers, NEW state, Goto(d, state), state.pc # "insert"
      PROVE  call'[c] = call[c]
  BY <1>3 DEF Goto, StorageInv, TypeOK
<1>4. Idle.pc # "insert"
  BY DEF Idle
<1>5. CASE \E d \in Callers : AddSubscriberInsert(d) \/ SubscribeAdd(d)
  BY <1>1, <1>3, <1>4, <1>5 DEF AddSubscriberInsert, SubscribeAdd
<1>6. CASE \E d \in Callers, email \in Emails, s \in Subscriptions : SubscribeGet(d, email, s)
  BY <1>1, <1>3, <1>6 DEF SubscribeGet
<1>7. CASE \E d \in Callers : SubscribeCheck(d)
  <2>1. PICK d \in Callers : SubscribeCheck(d)
    BY <1>7
  <2>2. \E state : Goto(d, state) /\ state.pc # "insert"
    BY <1>4, <2>1 DEF SubscribeCheck
  <2> QED  BY <1>1, <1>3, <2>2
<1>8. CASE \E d \in Callers \ {c}, email \in Emails, limit \in Limits :
              AddSubscriberCount(d, email, limit)
  BY <1>1, <1>8 DEF AddSubscriberCount, Goto, StorageInv, TypeOK
<1>9. CASE UNCHANGED vars
  BY <1>1, <1>9 DEF vars
<1>10. CASE \E d \in Callers :
              \/ \E email \in Emails, s \in Subscriptions : Unsubscribe(d, email, s)
              \/ \E email \in Emails : DeleteSubscriber(d, email)
  BY <1>1, <1>10 DEF Unsubscribe, DeleteSubscriber
<1> QED  BY <1>2, <1>5, <1>6, <1>7, <1>8, <1>9, <1>10 DEF Next

\* The second half of AddSubscriber adds the subscriber asked for, or does nothing.
LEMMA InsertMapped ==
    ASSUME StorageInv, InsertedLimits, NEW c \in Callers, AddSubscriberInsert(c)
    PROVE  Dir!AddSubscriber(call[c].email) \/ UNCHANGED Directory
<1> DEFINE email == call[c].email
           o == [Email             |-> email,
                 Subscriptions     |-> <<>>,
                 SubscriptionLimit |-> call[c].limit]
<1>1. call[c].pc = "insert" /\ AddSubscriber(email, call[c].limit)
  BY DEF AddSubscriberInsert
<1>2. call[c] \in Inserting
  BY <1>1 DEF StorageInv, TypeOK, Idle, Inserting, Checking, Adding
<1>3. CASE Known(email) /\ UNCHANGED storage
  BY <1>3, DirectoryUnchanged DEF storage, Listed, Elements, StorageInv
<1>4. CASE ~ Known(email) /\ AppendSubscriber(o)
  <2>1. /\ o \in Subscriber
        /\ o.Email = email
        /\ \A i, j \in DOMAIN o.Subscriptions :
               Equals(o.Subscriptions[i], o.Subscriptions[j]) => i = j
        /\ EntryOf(o) = Dir!Entry(call[c].limit, {})
    BY <1>2 DEF Subscriber, Inserting, EntryOf, Elements
  <2>2. email \notin DOMAIN Directory /\ Dir!Set(email, Dir!Entry(call[c].limit, {}))
    <3> HIDE DEF o, email
    <3> QED  BY <1>4, <2>1, AppendSubscriberMapped
  <2>3. call[c].limit \in (Limits \ {0}) \cup {SubscriptionLimit}
    BY <1>1 DEF InsertedLimits
  <2> QED  BY <2>2, <2>3 DEF Dir!AddSubscriber
<1> QED  BY <1>1, <1>3, <1>4 DEF AddSubscriber

\* The last step of Subscribe adds the subscription asked for, unless an equal one is there.
LEMMA AddMapped ==
    ASSUME StorageInv, NEW c \in Callers, SubscribeAdd(c)
    PROVE  \/ Dir!AddSubscription(call[c].email, call[c].subscription)
           \/ UNCHANGED Directory
<1> DEFINE email == call[c].email
           s == call[c].subscription
           a == GetSubscriber(email)
           o == [Email |-> email, Subscriptions |-> <<s>>, SubscriptionLimit |-> 0]
<1>1. call[c].pc = "add" /\ AddSubscription(email, s)
  BY DEF SubscribeAdd
<1>2. email \in Emails /\ s \in Subscriptions
  BY <1>1 DEF StorageInv, TypeOK, Idle, Inserting, Checking, Adding
<1>3. CASE Known(email) /\ Subscribed(a, s) # {}
  <2>1. UNCHANGED <<heap, subscribers>>
    BY <1>1, <1>3 DEF AddSubscription
  <2> QED  BY <2>1, DirectoryUnchanged DEF Listed, Elements, StorageInv
<1>4. CASE Known(email) /\ Subscribed(a, s) = {}
  <2>1. /\ heap' = [heap EXCEPT ![a].Subscriptions = Append(heap[a].Subscriptions, s)]
        /\ UNCHANGED subscribers
    BY <1>1, <1>4 DEF AddSubscription
  <2>2. a \in Listed /\ heap[a].Email = email
    BY <1>4, Found DEF StorageInv
  <2>3. email \in DOMAIN Directory /\ Directory[email] = EntryOf(heap[a])
    BY <1>4, KnownInDirectory
  <2> HIDE DEF email, s, a
  <2>4. heap[a].Subscriptions \in Seq(Subscriptions)
    BY <2>2 DEF StorageInv, TypeOK, StorageTypeOK, Listed, Elements, Subscriber
  <2>5. /\ Append(heap[a].Subscriptions, s) \in Seq(Subscriptions)
        /\ \A i, j \in DOMAIN Append(heap[a].Subscriptions, s) :
               Equals(Append(heap[a].Subscriptions, s)[i],
                      Append(heap[a].Subscriptions, s)[j]) => i = j
    BY <1>2, <1>4, <2>2, AppendedSubscriptions
  <2>6. Elements(Append(heap[a].Subscriptions, s)) = Elements(heap[a].Subscriptions) \cup {s}
    BY <1>2, <2>4, AppendElements
  <2>7. Dir!Set(email, Dir!Entry(heap[a].SubscriptionLimit,
                                 Elements(heap[a].Subscriptions) \cup {s}))
    BY <2>1, <2>2, <2>5, <2>6, ChangeSubscriptionsMapped
  <2>8. /\ Directory[email].limit = heap[a].SubscriptionLimit
        /\ Directory[email].subscriptions = Elements(heap[a].Subscriptions)
    BY <2>3 DEF EntryOf, Dir!Entry
  <2>9. Dir!Equal(Elements(heap[a].Subscriptions), s) = {}
    BY <1>4 DEF Dir!Equal, Elements, Subscribed
  <2>10. Dir!AddSubscription(email, s)
    BY <2>3, <2>7, <2>8, <2>9 DEF Dir!AddSubscription
  <2> QED  BY <2>10 DEF email, s
<1>5. CASE ~ Known(email)
  <2>1. AppendSubscriber(o)
    BY <1>1, <1>5 DEF AddSubscription
  <2>2. /\ o \in Subscriber
        /\ o.Email = email
        /\ \A i, j \in DOMAIN o.Subscriptions :
               Equals(o.Subscriptions[i], o.Subscriptions[j]) => i = j
        /\ EntryOf(o) = Dir!Entry(0, {s})
    BY <1>2 DEF Subscriber, EntryOf, Elements
  <2>3. email \notin DOMAIN Directory /\ Dir!Set(email, Dir!Entry(0, {s}))
    <3> HIDE DEF o, email, s
    <3> QED  BY <1>5, <2>1, <2>2, AppendSubscriberMapped
  <2> QED  BY <2>3 DEF Dir!AddSubscription
<1> QED  BY <1>3, <1>4, <1>5

\* Unsubscribe removes the subscription asked for and no other, although the last
\* one takes its place.
LEMMA UnsubscribeMapped ==
    ASSUME StorageInv, NEW c, NEW email, NEW s, Unsubscribe(c, email, s)
    PROVE  Dir!RemoveSubscription(email, s)
<1> DEFINE a == GetSubscriber(email)
           old == heap[a].Subscriptions
           i == First(Subscribed(a, s))
<1>1. /\ Known(email)
      /\ Subscribed(a, s) # {}
      /\ heap' = [heap EXCEPT ![a].Subscriptions = SwapRemove(old, i)]
      /\ UNCHANGED subscribers
  BY DEF Unsubscribe, RemoveSubscription
<1>2. a \in Listed /\ heap[a].Email = email
  BY <1>1, Found DEF StorageInv
<1>3. email \in DOMAIN Directory /\ Directory[email] = EntryOf(heap[a])
  BY <1>1, KnownInDirectory
<1>4. /\ SwapRemove(old, i) \in Seq(Subscriptions)
      /\ \A j, k \in DOMAIN SwapRemove(old, i) :
             Equals(SwapRemove(old, i)[j], SwapRemove(old, i)[k]) => j = k
  BY <1>1, <1>2, RemovedSubscriptions
<1>5. /\ old \in Seq(Subscriptions)
      /\ \A j, k \in DOMAIN old : Equals(old[j], old[k]) => j = k
  BY <1>2 DEF StorageInv, TypeOK, StorageTypeOK, Listed, Elements, Subscriber,
              UniqueSubscriptions
<1>6. PICK n \in Subscribed(a, s) : TRUE
  BY <1>1
<1>7. /\ n \in DOMAIN old /\ Equals(old[n], s)
      /\ \A j \in DOMAIN old : Equals(old[j], s) => j = n
  BY <1>5, <1>6 DEF Subscribed, Equals
<1>8. i = n
  <2>1. Subscribed(a, s) = {n}
    BY <1>6, <1>7 DEF Subscribed
  <2> QED  BY <1>5, <1>7, <2>1, FirstOfSingleton
<1> HIDE DEF a, old, i
<1>9. Dir!Equal(Elements(old), s) = {old[n]}
  BY <1>7 DEF Dir!Equal, Elements
<1>10. Elements(SwapRemove(old, i)) = Elements(old) \ Dir!Equal(Elements(old), s)
  <2>1. \A j, k \in DOMAIN old : old[j] = old[k] => j = k
    BY <1>5 DEF Equals
  <2> QED  BY <1>5, <1>7, <1>8, <1>9, <2>1, SwapRemoveElements
<1>11. Dir!Set(email, Dir!Entry(heap[a].SubscriptionLimit,
                                Elements(old) \ Dir!Equal(Elements(old), s)))
  BY <1>1, <1>2, <1>4, <1>10, ChangeSubscriptionsMapped
<1>12. /\ Directory[email].limit = heap[a].SubscriptionLimit
       /\ Directory[email].subscriptions = Elements(old)
  BY <1>3 DEF EntryOf, Dir!Entry, old
<1> QED  BY <1>3, <1>9, <1>11, <1>12 DEF Dir!RemoveSubscription

\* A call that only looks at the storage does nothing.
LEMMA LooksMapped ==
    ASSUME StorageInv, NEW c \in Callers,
           \/ \E email \in Emails, limit \in Limits : AddSubscriberCount(c, email, limit)
           \/ \E email \in Emails, s \in Subscriptions : SubscribeGet(c, email, s)
           \/ SubscribeCheck(c)
           \/ UNCHANGED vars
    PROVE  UNCHANGED Directory
<1>1. subscribers' = subscribers /\ Listed' = Listed
  BY DEF AddSubscriberCount, SubscribeGet, SubscribeCheck, storage, vars, Listed, Elements
<1>2. \A a \in Listed : heap'[a] = heap[a]
  BY DEF AddSubscriberCount, SubscribeGet, SubscribeCheck, storage, vars
<1> QED  BY <1>1, <1>2, DirectoryUnchanged DEF StorageInv

\* A step does to the directory what its call asks for, or nothing.
LEMMA StepMapped ==
    ASSUME StorageInv, InsertedLimits, NEW c \in Callers PROVE AsRequested(c)
<1>1. \A email \in Emails : DeleteSubscriber(c, email) => Dir!RemoveSubscriber(email)
  BY RemoveSubscriberMapped DEF DeleteSubscriber
<1>2. \A email \in Emails, s \in Subscriptions :
          Unsubscribe(c, email, s) => Dir!RemoveSubscription(email, s)
  BY UnsubscribeMapped
<1> QED  BY <1>1, <1>2, InsertMapped, AddMapped DEF AsRequested

\* Every step is a step of the directory, or none.
LEMMA NextMapped ==
    StorageInv /\ InsertedLimits /\ [Next]_vars => [Dir!Next]_Directory
<1> SUFFICES ASSUME StorageInv, InsertedLimits, [Next]_vars
             PROVE  Dir!Next \/ UNCHANGED Directory
  OBVIOUS
<1>1. \A c \in Callers :
          /\ call[c].pc = "insert" => call[c].email \in Emails
          /\ call[c].pc = "add" => call[c].email \in Emails /\ call[c].subscription \in Subscriptions
  BY DEF StorageInv, TypeOK, Idle, Inserting, Checking, Adding
<1>2. ASSUME NEW c \in Callers, AddSubscriberInsert(c) PROVE Dir!Next \/ UNCHANGED Directory
  BY <1>1, <1>2, InsertMapped DEF AddSubscriberInsert, Dir!Next
<1>3. ASSUME NEW c \in Callers, SubscribeAdd(c) PROVE Dir!Next \/ UNCHANGED Directory
  BY <1>1, <1>3, AddMapped DEF SubscribeAdd, Dir!Next
<1>4. ASSUME NEW c \in Callers, NEW email \in Emails, NEW s \in Subscriptions,
             Unsubscribe(c, email, s)
      PROVE  Dir!Next
  BY <1>4, UnsubscribeMapped DEF Dir!Next
<1>5. ASSUME NEW c \in Callers, NEW email \in Emails, DeleteSubscriber(c, email)
      PROVE  Dir!Next
  BY <1>5, RemoveSubscriberMapped DEF DeleteSubscriber, Dir!Next
<1>6. CASE UNCHANGED vars
  BY <1>6, DirectoryUnchanged DEF vars, Listed, Elements, StorageInv
<1>7. CASE Next
  BY <1>2, <1>3, <1>4, <1>5, <1>7, LooksMapped DEF Next
<1> QED  BY <1>6, <1>7

\* An empty storage is an empty directory.
LEMMA InitMapped == Init => Dir!Init /\ InsertedLimits
<1> SUFFICES ASSUME Init PROVE Dir!Init /\ InsertedLimits
  OBVIOUS
<1>1. Listed = {}
  BY DEF Init, StorageInit, Listed, Elements
<1>2. Directory = [e \in {} |-> Dir!Entry(0, {})]
  BY <1>1 DEF Directory
<1> QED  BY <1>2 DEF Dir!Init, InsertedLimits, Init, Idle

\* The service over the in-memory storage implements the directory, for any number of
\* callers: objects, pointers, orphans and positions are not to be seen from outside.
THEOREM DirectoryImplemented == Spec => ImplementsDirectory
<1>1. StorageInv /\ InsertedLimits /\ [Next]_vars => InsertedLimits' /\ StorageInv'
  BY NextInv, InsertedLimitsKept
<1> QED  BY <1>1, InitInv, InitMapped, NextMapped, PTL DEF Spec, ImplementsDirectory, Dir!Spec

\* Every operation does to the directory what its caller asked for, or is refused and
\* does nothing.
THEOREM RequestsDone == Spec => OperationsAsRequested
<1>1. StorageInv /\ InsertedLimits /\ [Next]_vars => InsertedLimits' /\ StorageInv'
  BY NextInv, InsertedLimitsKept
<1>2. StorageInv /\ InsertedLimits => [\A c \in Callers : AsRequested(c)]_vars
  BY StepMapped
<1> QED  BY <1>1, <1>2, InitInv, InitMapped, PTL DEF Spec, OperationsAsRequested
=============================================================================
