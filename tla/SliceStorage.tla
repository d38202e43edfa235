---------------------------- MODULE SliceStorage ----------------------------
(***************************************************************************)
(* The slices of the in-memory storage (storage/memory/storage.go) while    *)
(* GenerateScrapeList goes through them.                                    *)
(*                                                                         *)
(* A Go slice is an array, of which it covers a number of elements.         *)
(* GetAllSubscribers returns the slice of the storage, and GetSubscribers    *)
(* (service/subscription.go) copies from each subscriber the slice of its    *)
(* subscriptions: the arrays are shared.  Afterwards nobody holds the mutex, *)
(* and additions and removals write to the same arrays.                     *)
(*                                                                         *)
(* A slice or an element is read or written in one step: that Go may tear a  *)
(* racing read of a slice is not modelled.                                  *)
(***************************************************************************)
EXTENDS ScrapeList, FiniteSets

CONSTANTS
    Emails,     \* e-mail addresses of possible subscribers
    Lists,      \* the subscriptions a subscriber may have at the beginning
    MaxChanges, \* bound on the changes during the call
    Nil         \* an element of an array that was never written

\* Each is a slice of an array, of subscriptions of which no two are equal.
ASSUME ListsAssumption ==
    \A list \in Lists :
        /\ list \in [arrays : Seq(Seq(Subscriptions \cup {Nil})), len : Nat]
        /\ Len(list.arrays) = 1
        /\ list.len <= Len(list.arrays[1])
        /\ \A n \in 1..list.len :
              /\ list.arrays[1][n] \in Subscriptions
              /\ \A m \in 1..list.len : Equals(list.arrays[1][m], list.arrays[1][n]) => m = n

ASSUME ChangesAssumption == MaxChanges \in Nat

\* A subscriber is a pair of an e-mail and a number, as one may be removed and added
\* again; the slice db.subscribers belongs to DB.
Subscribers == Emails \X (1..(MaxChanges + 1))
DB == <<>>

VARIABLES
    slices,     \* owner -> its arrays, the latest last, and the length of its slice
    all,        \* the slice GetAllSubscribers returned
    copies,     \* the slices of subscriptions GetSubscribers has copied
    changes,    \* the number of changes during the call
    always,     \* who was subscribed to what throughout the call (history)
    ever,       \* who was subscribed to what at some time of the call (history)
    recycled    \* an element the call may still look at was reused (history)

liveVars == <<slices, all, copies, changes, always, ever, recycled, vars>>

Last(s) == s[Len(s)]
Array(owner) == Last(slices[owner].arrays)

\* What a slice covers of an array.
Contents(owner) == SubSeq(Array(owner), 1, slices[owner].len)

\* The slice an owner has now, copied.
Copy(owner) == [owner |-> owner, nr |-> Len(slices[owner].arrays), len |-> slices[owner].len]

\* Mutant: the whole array is gone through.
SeenWhole(slice) ==
    SelectSeq(slices[slice.owner].arrays[slice.nr], LAMBDA x : x # Nil)

\* The elements seen through a copied slice.
Seen(slice) == SubSeq(slices[slice.owner].arrays[slice.nr], 1, slice.len)

Stored(email) == {s \in {Contents(DB)[n] : n \in 1..slices[DB].len} : s[1] = email}
Held(email) == UNION {{Contents(s)[n] : n \in 1..slices[s].len} : s \in Stored(email)}
Subscribed == UNION {{email} \X Held(email) : email \in Emails}

Literal(elements) == [arrays |-> <<elements>>, len |-> Len(elements)]

\* Behind the elements of db.subscribers there is room, as after earlier removals; for
\* more than MaxChanges elements there is no use.
LiveInit ==
    /\ Init
    /\ \E n \in 0..Cardinality(Emails) : \E emails \in [1..n -> Emails] :
          /\ \A h, k \in 1..n : emails[h] = emails[k] => h = k
          /\ \E lists \in [Emails -> Lists] :
             \E room \in 0..MaxChanges :
                slices = [owner \in {DB} \cup {<<emails[h], 1>> : h \in 1..n} |->
                             IF owner = DB
                             THEN [arrays |-> <<[h \in 1..(n + room) |->
                                                   IF h <= n THEN <<emails[h], 1>> ELSE Nil]>>,
                                   len    |-> n]
                             ELSE lists[owner[1]]]
    /\ all = Copy(DB)
    /\ copies = <<>>
    /\ changes = 0
    /\ always = Subscribed
    /\ ever = Subscribed
    /\ recycled = FALSE

----------------------------------------------------------------------------
(* GetSubscribers, and GenerateScrapeList.                                  *)

CopySubscriber ==
    /\ Len(copies) < all.len
    /\ LET s == Seen(all)[Len(copies) + 1]
       IN  /\ copies' = Append(copies, Copy(s))
           /\ subscribers' = Append(subscribers, Contents(s))
    /\ UNCHANGED <<slices, all, changes, always, ever, recycled, got, loops>>

ReturnSubscribers == Len(copies) = all.len /\ GotSubscribers

Loop ==
    /\ ReturnSubscribers \/ NextSubscriber \/ Collect \/ Skip
    /\ UNCHANGED <<slices, all, copies, changes, always, ever, recycled>>

----------------------------------------------------------------------------
(* The operations of the storage.                                           *)

\* The capacity append gives a full array of pointers that grows.
Grown(capacity) == IF capacity = 0 THEN 1 ELSE 2 * capacity

\* Mutant: an array that is full is not copied to the new one.
AppendedUncopied(owner, x) ==
    LET s == slices[owner]
    IN  IF s.len < Len(Array(owner))
        THEN [arrays |-> [s.arrays EXCEPT ![Len(s.arrays)][s.len + 1] = x], len |-> s.len + 1]
        ELSE [arrays |-> Append(s.arrays, [n \in 1..Grown(s.len) |-> x]), len |-> s.len + 1]

\* append: to the element behind the end, or to a new array if there is none.
Appended(owner, x) ==
    LET s == slices[owner]
    IN  IF s.len < Len(Array(owner))
        THEN [arrays |-> [s.arrays EXCEPT ![Len(s.arrays)][s.len + 1] = x], len |-> s.len + 1]
        ELSE [arrays |-> Append(s.arrays, [n \in 1..Grown(s.len) |->
                                              IF n <= s.len THEN Array(owner)[n]
                                              ELSE IF n = s.len + 1 THEN x ELSE Nil]),
              len |-> s.len + 1]

\* Mutant: the elements behind the removed one move up.
RemovedShifting(owner, n) ==
    LET s == slices[owner]
    IN  [arrays |-> [s.arrays EXCEPT ![Len(s.arrays)] =
                        [m \in DOMAIN @ |-> IF m \in n..(s.len - 1) THEN @[m + 1] ELSE @[m]]],
         len |-> s.len - 1]

\* Element n is overwritten with the last, and the slice shortened.
Removed(owner, n) ==
    LET s == slices[owner]
    IN  [arrays |-> [s.arrays EXCEPT ![Len(s.arrays)][n] = Array(owner)[s.len]],
         len |-> s.len - 1]

\* An addition to this owner overwrites an element a slice of the call covers.
Recycles(owner) ==
    \E slice \in {all} \cup {copies[n] : n \in DOMAIN copies} :
        /\ slice.owner = owner
        /\ slice.nr = Len(slices[owner].arrays)
        /\ slice.len > slices[owner].len

Change(new, owner) ==
    /\ ~ Returned
    /\ changes < MaxChanges
    /\ changes' = changes + 1
    /\ UNCHANGED <<all, copies, got, loops>>
    /\ slices' = new
    /\ subscribers' = [n \in DOMAIN copies |-> Seen(copies[n])']
    /\ always' = always \cap Subscribed'
    /\ ever' = ever \cup Subscribed'
    /\ recycled' = (recycled \/ (slices[owner].len < new[owner].len /\ Recycles(owner)))

Replace(owner, slice) == Change([slices EXCEPT ![owner] = slice], owner)

\* A new subscriber at the end of db.subscribers.
Create(email, list) ==
    /\ Stored(email) = {}
    /\ \E nr \in 1..(MaxChanges + 1) :
          /\ <<email, nr>> \notin DOMAIN slices
          /\ \A earlier \in 1..(nr - 1) : <<email, earlier>> \in DOMAIN slices
          /\ Change([owner \in DOMAIN slices \cup {<<email, nr>>} |->
                        IF owner = DB THEN Appended(DB, <<email, nr>>)
                        ELSE IF owner = <<email, nr>> THEN Literal(list)
                        ELSE slices[owner]], DB)

AddSubscriber(email) == Create(email, <<>>)

AddSubscription(email, subscription) ==
    \/ Create(email, <<subscription>>)
    \/ /\ \A s \in Held(email) : ~ Equals(s, subscription)
       /\ \E s \in Stored(email) : Replace(s, Appended(s, subscription))

\* Mutant: the element behind the new end is cleared.
RemoveClearing(email, subscription) ==
    \E s \in Stored(email) : \E n \in 1..slices[s].len :
        /\ Equals(Contents(s)[n], subscription)
        /\ LET r == Removed(s, n)
           IN  Replace(s, [r EXCEPT !.arrays[Len(r.arrays)][slices[s].len] = Nil])

RemoveSubscription(email, subscription) ==
    \E s \in Stored(email) : \E n \in 1..slices[s].len :
        /\ Equals(Contents(s)[n], subscription)
        /\ Replace(s, Removed(s, n))

RemoveSubscriber(email) ==
    \E n \in 1..slices[DB].len :
        /\ Contents(DB)[n] \in Stored(email)
        /\ Replace(DB, Removed(DB, n))

LiveNext ==
    \/ CopySubscriber
    \/ Loop
    \/ \E email \in Emails :
          \/ AddSubscriber(email)
          \/ RemoveSubscriber(email)
          \/ \E s \in Subscriptions : AddSubscription(email, s) \/ RemoveSubscription(email, s)

LiveSpec == LiveInit /\ [][LiveNext]_liveVars
----------------------------------------------------------------------------
\* What the storage does to its arrays is what ScrapeList assumes of it: no slice of
\* the call changes its length, and none comes to cover an element never written.
ImplementsScrapeList == Spec

\* A round misses nothing that stays: who is subscribed throughout the call has the
\* site, as far as the joined texts tell sites apart, scraped, although removals move
\* elements while the loops go over them, unless a removal and then an addition happened
\* to a slice the call looks at.
KeptAreScraped ==
    Returned /\ ~ recycled => \A p \in always : DedupKey(p[2]) \in siteSet

\* Nothing is scraped that nobody was subscribed to during the call.
ListedWereStored ==
    \A n \in DOMAIN subscriptions : \E p \in ever : p[2] = subscriptions[n]

\* The subscribers as MemoryStorage has them: sequences, without arrays.
Sequences == [s \in {Contents(DB)[n] : n \in 1..slices[DB].len} |->
                 [Email |-> s[1], Subscriptions |-> Contents(s), SubscriptionLimit |-> 0]]

Memory == INSTANCE MemoryStorage
            WITH Addrs <- Subscribers, heap <- Sequences, subscribers <- Contents(DB)

\* What happens to the arrays is what MemoryStorage says happens to the sequences: no
\* two slices of the storage share an array, and none changes behind its owner's back.
ImplementsMemoryStorage ==
    [][\E email \in Emails :
          \/ Memory!AddSubscriber(email, 0)
          \/ Memory!RemoveSubscriber(email, {})
          \/ \E s \in Subscriptions :
                Memory!AddSubscription(email, s) \/ Memory!RemoveSubscription(email, s)
      ]_<<Sequences, Contents(DB)>>
=============================================================================
