------------------------- MODULE SiteArchive_proof -------------------------
(***************************************************************************)
(* Proofs about SiteArchive, for any updaters, contents and number of       *)
(* scrapes, and both backends.                                              *)
(***************************************************************************)
EXTENDS SiteArchive, TLAPS

\* Where a call of Update is, and its local variables.
CallState ==
         [pc : {"idle"}]
    \cup [pc : {"get", "add", "save"}, new : Site]
    \cup [pc : {"compare", "diff", "touch"}, new : Site, copy : Site]
    \cup [pc : {"update"}, new : Site, write : Site, field : 1..Len(Fields)]
    \cup [pc : {"saving"}, new : Site, checked : 0..MaxScrapes]

\* The types of what TypeOK leaves open; PostgreSQL needs no mutex.
CallsTyped ==
    /\ call \in [Updaters -> CallState]
    /\ holder \subseteq Updaters
    /\ backend = "postgres" => holder = {}

\* The result of a scrape, as newParseFunc makes it.
IsResult(new) ==
    /\ new.LastUpdated = 0 /\ new.Diff = NoDiff
    /\ new.LastChecked \in 1..clock
    /\ new.Checksum = new.Content

\* What a call has in hand is the result of a scrape, a coherent copy, or a coherent
\* site to write; and of the fields it has to assign the first ones are assigned, since
\* it took the mutex.
CallCoherent(u) ==
    LET c == call[u]
    IN  /\ c.pc # "idle" => IsResult(c.new)
        /\ c.pc \notin {"idle", "get", "add"} => site # NoSite
        /\ c.pc \in {"compare", "diff", "touch"} => Coherent(c.copy)
        /\ c.pc \in {"save", "saving"} => backend = "memory"
        /\ c.pc = "saving" => holder = {u}
        /\ c.pc = "update" =>
              /\ Coherent(c.write)
              /\ c.write.LastChecked = c.new.LastChecked
              /\ c.write.LastUpdated = c.new.LastChecked
              /\ c.write.Content = c.new.Content
              /\ c.field > 1 => holder = {u} /\ backend = "memory"
              /\ c.field > 3 => site.Diff = c.write.Diff
              /\ c.field > 4 => site.Content = c.write.Content

\* Whoever is about to assign the fields of a changed site.
Assigning(u) == u \in holder /\ call[u].pc = "update"

\* Only in the hands of one who assigns its fields is the site not coherent.
SiteInv ==
    site # NoSite /\ (\A u \in Updaters : ~ Assigning(u)) => Coherent(site)

CoherenceInv == TypeOK /\ CallsTyped /\ SiteInv /\ \A u \in Updaters : CallCoherent(u)

\* The only call there is has the latest scrape in hand, a copy of the site as it is, and,
\* when it goes on to acknowledge, has written the time and found or written the text.
OnlyCall(u) ==
    LET c == call[u]
    IN  c.pc # "idle" =>
            /\ c.new.LastChecked = clock
            /\ acked # NoSite => acked.LastChecked < clock
            /\ c.pc = "add" => site = NoSite
            /\ c.pc \in {"compare", "diff", "touch"} => c.copy = site
            /\ c.pc \in {"touch", "save", "saving"} => site.Content.text = c.new.Content.text
            /\ c.pc \in {"save", "saving"} => site.LastChecked = clock
            /\ c.pc = "saving" => c.checked = clock
            /\ c.pc = "update" /\ c.field > 1 => site.LastChecked = clock

\* What is acknowledged is kept, and the times of the site are in order.
Kept ==
    /\ site # NoSite => site.LastUpdated <= site.LastChecked /\ site.LastChecked <= clock
    /\ acked # NoSite =>
          /\ site # NoSite
          /\ acked.LastChecked <= site.LastChecked
          /\ site.LastChecked = acked.LastChecked => site.Content.text = acked.Content.text

Serially ==
    /\ \A u, v \in Updaters : call[u].pc # "idle" /\ call[v].pc # "idle" => u = v
    /\ Kept
    /\ \A u \in Updaters : OnlyCall(u)

SerialInv == ~ overlapped => Serially

Inv == CoherenceInv /\ SerialInv

----------------------------------------------------------------------------
(* What every step does to the calls.                                       *)

\* The local variables of a call, by where it is.
LEMMA CallTypes ==
    ASSUME CallsTyped, NEW u \in Updaters
    PROVE  LET c == call[u]
           IN  /\ c.pc = "idle" => c = Idle
               /\ c.pc # "idle" => c.new \in Site /\ c # Idle
               /\ c.pc \in {"get", "add", "save"} =>
                      c \in [pc : {"get", "add", "save"}, new : Site]
               /\ c.pc \in {"compare", "diff", "touch"} =>
                      c \in [pc : {"compare", "diff", "touch"}, new : Site, copy : Site]
               /\ c.pc = "update" =>
                      c \in [pc : {"update"}, new : Site, write : Site, field : 1..5]
               /\ c.pc = "saving" => c \in [pc : {"saving"}, new : Site, checked : 0..MaxScrapes]
<1>1. call[u] \in CallState
  BY DEF CallsTyped
<1>2. Len(Fields) = 5
  BY DEF Fields
<1> QED  BY <1>1, <1>2 DEF CallState, Idle

\* A step of u, as the other calls see it.
Moves(u, c) ==
    /\ call' = [call EXCEPT ![u] = c]
    /\ c \in CallState
    /\ backend' = backend
    /\ clock <= clock'
    /\ site # NoSite => site' # NoSite

\* Nobody's mutex is taken away, and nobody writes what another has written under it.
Respects(u) ==
    \A v \in Updaters \ {u} :
        v \in holder => holder' = {v} /\ site'.Diff = site.Diff /\ site'.Content = site.Content

\* Only the call of u changes.
LEMMA OneMoves ==
    ASSUME CallsTyped, NEW u \in Updaters, NEW c, Moves(u, c)
    PROVE  /\ call' \in [Updaters -> CallState]
           /\ call'[u] = c
           /\ \A v \in Updaters \ {u} : call'[v] = call[v]
BY DEF CallsTyped, Moves

\* A step that respects the others leaves their calls coherent.
LEMMA OthersCoherent ==
    ASSUME CoherenceInv, clock' \in Nat, NEW u \in Updaters, NEW c, Moves(u, c), Respects(u),
           NEW v \in Updaters \ {u}
    PROVE  CallCoherent(v)'
<1>1. call'[v] = call[v]
  BY OneMoves DEF CoherenceInv
<1>2. CallCoherent(v) /\ clock \in Nat
  BY ArchiveAssumption DEF CoherenceInv, TypeOK
<1>3. 1..clock \subseteq 1..clock'
  BY <1>2 DEF Moves
<1>4. call[v].pc # "idle" => IsResult(call[v].new)'
  BY <1>1, <1>2, <1>3 DEF CallCoherent, IsResult
<1>5. holder = {v} => holder' = {v} /\ site'.Diff = site.Diff /\ site'.Content = site.Content
  BY DEF Respects
<1>6. call[v].pc = "update" => call[v].field \in 1..5
  BY CallTypes DEF CoherenceInv
<1>7. call[v].pc = "update" => (Coherent(call[v].write))'
  BY <1>1, <1>2 DEF CallCoherent, Coherent
<1>8. call[v].pc \in {"compare", "diff", "touch"} => (Coherent(call[v].copy))'
  BY <1>1, <1>2 DEF CallCoherent, Coherent
<1> QED  BY <1>1, <1>2, <1>4, <1>5, <1>6, <1>7, <1>8 DEF CallCoherent, Moves

\* What a step of u has to show.
LEMMA StepCoherent ==
    ASSUME CoherenceInv, NEW u \in Updaters, NEW c, Moves(u, c), Respects(u),
           TypeOK', holder' \subseteq Updaters, backend = "postgres" => holder' = {},
           CallCoherent(u)', SiteInv'
    PROVE  CoherenceInv'
<1>1. CallsTyped'
  BY OneMoves DEF CoherenceInv, CallsTyped, Moves
<1>2. clock' \in Nat
  BY ArchiveAssumption DEF TypeOK
<1>3. \A v \in Updaters : CallCoherent(v)'
  BY <1>2, OthersCoherent
<1> QED  BY <1>1, <1>3 DEF CoherenceInv

\* What a step of the only call has to show.
LEMMA StepSerial ==
    ASSUME Inv, NEW u \in Updaters, NEW c, Moves(u, c), call[u].pc # "idle",
           overlapped' = overlapped,
           Serially => Kept' /\ OnlyCall(u)'
    PROVE  SerialInv'
<1> SUFFICES ASSUME ~ overlapped PROVE Serially'
  BY DEF SerialInv
<1>1. Serially
  BY DEF Inv, SerialInv
<1>2. \A v \in Updaters \ {u} : call'[v] = call[v] /\ call[v].pc = "idle"
  BY <1>1, OneMoves DEF Serially, Inv, CoherenceInv
<1>3. \A v \in Updaters : OnlyCall(v)'
  BY <1>1, <1>2 DEF OnlyCall
<1> QED  BY <1>1, <1>2, <1>3 DEF Serially

\* A step of u that leaves the site alone, and the mutex, which u does not hold.
LEMMA LocalStep ==
    ASSUME CoherenceInv, NEW u \in Updaters, NEW c, Moves(u, c), u \notin holder,
           UNCHANGED <<site, holder, clock, seen, acked, reader, overlapped>>,
           CallCoherent(u)'
    PROVE  CoherenceInv'
<1>1. call'[u] = c /\ \A v \in Updaters \ {u} : call'[v] = call[v]
  BY OneMoves DEF CoherenceInv
<1>2. Respects(u)
  BY DEF Respects, CoherenceInv, TypeOK
<1>3. holder \subseteq Updaters /\ (backend = "postgres" => holder = {})
  BY DEF CoherenceInv, CallsTyped
<1>4. TypeOK'
  BY <1>1, <1>3 DEF CoherenceInv, TypeOK, Moves
<1>5. SiteInv'
  <2>1. \A v \in Updaters : Assigning(v)' <=> Assigning(v)
    BY <1>1 DEF Assigning
  <2> QED  BY <2>1 DEF CoherenceInv, SiteInv, Coherent
<1> QED  BY <1>2, <1>3, <1>4, <1>5, StepCoherent

\* Where nobody holds the mutex, the site is coherent.
LEMMA CoherentWhenFree ==
    ASSUME CoherenceInv, site # NoSite, holder = {} \/ backend = "postgres"
    PROVE  Coherent(site) /\ site \in Site
BY DEF CoherenceInv, SiteInv, Assigning, TypeOK, CallsTyped

\* Only who assigns fields or saves holds the mutex.
LEMMA NotHolding ==
    ASSUME CoherenceInv, NEW u \in Updaters, call[u].pc \notin {"update", "saving"}
    PROVE  u \notin holder
BY DEF CoherenceInv, TypeOK

\* A call that is over has nothing to be coherent.
LEMMA IdleCoherent ==
    ASSUME NEW u \in Updaters, call'[u] = Idle
    PROVE  CallCoherent(u)' /\ OnlyCall(u)'
BY DEF Idle, CallCoherent, OnlyCall

\* Idle is where a call may be.
LEMMA IdleTyped == Idle \in CallState
BY DEF Idle, CallState

----------------------------------------------------------------------------
(* The actions.                                                             *)

\* Two contents with different texts have a diff.
LEMMA DiffOfTexts ==
    ASSUME NEW old, NEW new
    PROVE  /\ DiffText(old, new) = NoDiff <=> old.text = new.text
           /\ DiffText(old, new) # NoDiff => DiffText(old, new) = <<old, new>>
BY DEF DiffText, NoDiff

\* A scrape begins the only call, or calls overlap.
LEMMA ScrapeInv ==
    ASSUME Inv, NEW u \in Updaters, NEW content \in Contents, Scrape(u, content)
    PROVE  Inv'
<1> DEFINE new == ScrapeResult(clock + 1, content)
           c == [pc |-> "get", new |-> new]
<1>1. clock \in 0..MaxScrapes /\ clock' = clock + 1 /\ clock' \in 1..MaxScrapes
      /\ MaxScrapes \in Nat
  BY ArchiveAssumption DEF Inv, CoherenceInv, TypeOK, Scrape
<1>2. /\ new \in Site
      /\ new.LastUpdated = 0 /\ new.Diff = NoDiff /\ new.Checksum = new.Content
      /\ new.LastChecked = clock'
  BY <1>1 DEF ScrapeResult, Site
<1>3. Moves(u, c)
  BY <1>1, <1>2 DEF Moves, CallState, Scrape, Goto
<1>4. call[u].pc = "idle" /\ call'[u] = c /\ \A v \in Updaters \ {u} : call'[v] = call[v]
  BY <1>3, OneMoves DEF Scrape, Idle, Inv, CoherenceInv
<1>5. CoherenceInv'
  <2>1. u \notin holder
    BY <1>4, NotHolding DEF Inv
  <2>2. TypeOK'
    BY <1>1, <1>4, <2>1 DEF Inv, CoherenceInv, TypeOK, CallsTyped, Scrape
  <2>3. CallCoherent(u)'
    <3>1. call'[u].pc = "get" /\ call'[u].new = new
      BY <1>4
    <3> QED  BY <1>1, <1>2, <3>1 DEF CallCoherent, IsResult
  <2>4. Respects(u)
    BY DEF Respects, Inv, CoherenceInv, TypeOK, Scrape
  <2>5. SiteInv'
    <3>1. \A v \in Updaters : Assigning(v)' <=> Assigning(v)
      BY <1>4, <2>1 DEF Assigning, Scrape
    <3> QED  BY <3>1 DEF Inv, CoherenceInv, SiteInv, Coherent, Scrape
  <2> QED  BY <1>3, <2>2, <2>3, <2>4, <2>5, StepCoherent DEF Inv, CoherenceInv, CallsTyped, Scrape
<1>6. SerialInv'
  <2> SUFFICES ASSUME ~ overlapped' PROVE Serially'
    BY DEF SerialInv
  <2>1. ~ overlapped /\ \A v \in Updaters : call[v] = Idle
    BY DEF Scrape
  <2>2. Kept
    BY <2>1 DEF Inv, SerialInv, Serially
  <2>3. site # NoSite => site.LastUpdated <= site.LastChecked /\ site.LastChecked <= clock
                         /\ site \in Site
    BY <2>2 DEF Kept, Inv, CoherenceInv, TypeOK
  <2>4. acked # NoSite => acked.LastChecked < clock' /\ acked \in Site
    <3>1. acked \in Site \cup {NoSite}
      BY DEF Inv, CoherenceInv, TypeOK
    <3> QED  BY <1>1, <2>2, <2>3, <3>1 DEF Kept, Site
  <2>5. Kept'
    BY <1>1, <2>2, <2>3 DEF Kept, Scrape, Site
  <2>6. OnlyCall(u)'
    BY <1>1, <1>4, <2>4 DEF OnlyCall, ScrapeResult, Scrape
  <2>7. \A v \in Updaters \ {u} : call'[v].pc = "idle"
    BY <1>4, <2>1 DEF Idle
  <2>8. \A v \in Updaters : OnlyCall(v)'
    BY <2>6, <2>7 DEF OnlyCall
  <2> QED  BY <2>5, <2>7, <2>8 DEF Serially
<1> QED  BY <1>5, <1>6 DEF Inv

\* The copy is one of a coherent site; the only call has the site as it is.
LEMMA GetSiteInv == ASSUME Inv, NEW u \in Updaters, GetSite(u) PROVE Inv'
<1> DEFINE new == call[u].new
           c == IF site = NoSite THEN [pc |-> "add", new |-> new]
                ELSE [pc |-> "compare", new |-> new, copy |-> site]
<1>1. call[u].pc = "get" /\ new \in Site /\ holder = {}
  BY CallTypes DEF Inv, CoherenceInv, GetSite
<1>2. UNCHANGED <<backend, site, holder, clock, seen, acked, reader, overlapped>>
      /\ clock \in Nat
  BY ArchiveAssumption DEF GetSite, Inv, CoherenceInv, TypeOK
<1>3. site # NoSite => Coherent(site) /\ site \in Site
  BY <1>1, CoherentWhenFree DEF Inv
<1>4. Moves(u, c)
  BY <1>1, <1>2, <1>3 DEF Moves, CallState, GetSite, Goto
<1>5. call'[u] = c
  BY <1>4, OneMoves DEF Inv, CoherenceInv
<1>6. IsResult(new)'
  BY <1>1, <1>2, <1>5 DEF Inv, CoherenceInv, CallCoherent, IsResult
<1>7. CallCoherent(u)'
  BY <1>2, <1>3, <1>5, <1>6 DEF CallCoherent, Coherent, IsResult
<1>8. CoherenceInv'
  BY <1>1, <1>2, <1>4, <1>7, LocalStep DEF Inv
<1>9. Serially => Kept' /\ OnlyCall(u)'
  BY <1>1, <1>2, <1>5 DEF Serially, Kept, OnlyCall
<1> QED  BY <1>1, <1>2, <1>4, <1>8, <1>9, StepSerial DEF Inv

\* A call that ends with the whole site written, while nobody holds the mutex.
LEMMA EndWritten ==
    ASSUME CoherenceInv, NEW u \in Updaters, Moves(u, Idle), holder = {},
           UNCHANGED <<holder, clock, seen, reader, overlapped>>,
           site' \in Site, Coherent(site)', acked' \in Site \cup {NoSite}
    PROVE  CoherenceInv'
<1>1. call'[u] = Idle
  BY OneMoves DEF CoherenceInv
<1>2. Respects(u) /\ SiteInv'
  BY DEF Respects, SiteInv
<1>3. TypeOK'
  BY DEF CoherenceInv, TypeOK, Moves
<1>4. CallCoherent(u)'
  BY <1>1, IdleCoherent
<1> QED  BY <1>2, <1>3, <1>4, StepCoherent

\* What is acknowledged is the site that was in hand, or what was acknowledged before.
LEMMA ReturnTyped ==
    ASSUME CoherenceInv, NEW u \in Updaters, Return(u), call[u].pc # "idle"
    PROVE  acked' \in Site \cup {NoSite}
<1>1. call[u].new \in Site
  BY CallTypes DEF CoherenceInv
<1> QED  BY <1>1 DEF Return, CoherenceInv, TypeOK

\* The only call acknowledges what the site has now.
LEMMA ReturnKept ==
    ASSUME Serially, NEW u \in Updaters, Return(u), call[u].pc # "idle", clock' = clock,
           site' # NoSite, site'.LastUpdated <= site'.LastChecked, clock \in Nat,
           site'.LastChecked = clock, site'.Content.text = call[u].new.Content.text
    PROVE  Kept'
<1>1. call[u].new.LastChecked = clock /\ (acked # NoSite => acked.LastChecked < clock)
  BY DEF Serially, OnlyCall
<1>2. acked' = call[u].new
  BY <1>1 DEF Return
<1> QED  BY <1>1, <1>2 DEF Kept

\* The only call ends with the time of its scrape in the site, and is not acknowledged.
LEMMA FailKept ==
    ASSUME Serially, NEW u \in Updaters, call[u].pc # "idle", clock' = clock, acked' = acked,
           site' # NoSite, site'.LastUpdated <= site'.LastChecked, clock \in Nat,
           site'.LastChecked = clock, acked \in Site \cup {NoSite}
    PROVE  Kept'
<1>1. acked # NoSite => acked.LastChecked < clock /\ acked.LastChecked \in Int
  BY DEF Serially, OnlyCall, Site
<1> QED  BY <1>1 DEF Kept

\* What storage.Add stores of a result is coherent.
LEMMA AddedCoherent ==
    ASSUME NEW new \in Site, IsResult(new)
    PROVE  LET s == AsAdded(new)
           IN  /\ s \in Site /\ Coherent(s)
               /\ s.LastUpdated <= s.LastChecked
               /\ s.LastChecked = new.LastChecked /\ s.Content = new.Content
<1>1. new.LastChecked \in Nat /\ new.LastChecked \in 0..MaxScrapes /\ NoDiff \in {NoDiff}
  BY ArchiveAssumption DEF Site
<1>2. CASE backend = "memory"
  <2> DEFINE s == [new EXCEPT !.LastUpdated = new.LastChecked, !.Diff = NoDiff]
  <2>1. /\ s \in Site
        /\ s.LastUpdated = new.LastChecked /\ s.LastChecked = new.LastChecked
        /\ s.Diff = NoDiff /\ s.Content = new.Content /\ s.Checksum = new.Checksum
    BY <1>1 DEF Site
  <2>2. AsAdded(new) = s
    BY <1>2 DEF AsAdded
  <2> HIDE DEF s
  <2> QED  BY <1>1, <2>1, <2>2 DEF Coherent, IsResult
<1>3. CASE backend # "memory"
  BY <1>1, <1>3 DEF AsAdded, IsResult, Coherent
<1> QED  BY <1>2, <1>3

\* A site is added while there is none; otherwise the call just ends.
LEMMA AddSiteInv == ASSUME Inv, NEW u \in Updaters, AddSite(u) PROVE Inv'
<1> DEFINE new == call[u].new
<1>1. call[u].pc = "add" /\ new \in Site /\ IsResult(new) /\ holder = {} /\ clock \in Nat
  BY CallTypes, ArchiveAssumption DEF Inv, CoherenceInv, AddSite, CallCoherent, TypeOK
<1>2. UNCHANGED <<backend, holder, clock, seen, reader, overlapped>>
  BY DEF AddSite
<1>3. CASE site = NoSite /\ site' = AsAdded(new) /\ Return(u)
  <2>1. /\ site' \in Site /\ Coherent(site)' /\ site'.LastUpdated <= site'.LastChecked
        /\ site'.LastChecked = new.LastChecked /\ site'.Content = new.Content
    BY <1>1, <1>3, AddedCoherent DEF Coherent
  <2>2. site' # NoSite
    BY <2>1, NoSiteAssumption
  <2>3. Moves(u, Idle)
    BY <1>2, <1>3, <1>1, IdleTyped DEF Moves, Return, Goto
  <2>4. CoherenceInv'
    BY <1>1, <1>2, <1>3, <2>1, <2>3, EndWritten, ReturnTyped DEF Inv
  <2>5. call'[u] = Idle
    BY <2>3, OneMoves DEF Inv, CoherenceInv
  <2>6. Serially => Kept' /\ OnlyCall(u)'
    <3>1. Serially => new.LastChecked = clock
      BY <1>1 DEF Serially, OnlyCall
    <3> QED  BY <1>1, <1>2, <1>3, <2>1, <2>2, <2>5, <3>1, ReturnKept, IdleCoherent
  <2> QED  BY <1>1, <1>2, <2>3, <2>4, <2>6, StepSerial DEF Inv
<1>4. CASE site # NoSite /\ Goto(u, Idle) /\ UNCHANGED <<site, acked>>
  <2>1. Moves(u, Idle)
    BY <1>1, <1>2, <1>4, IdleTyped DEF Moves, Goto
  <2>2. call'[u] = Idle
    BY <2>1, OneMoves DEF Inv, CoherenceInv
  <2>3. CoherenceInv'
    BY <1>1, <1>2, <1>4, <2>1, <2>2, IdleCoherent, LocalStep DEF Inv
  <2>4. Serially => Kept' /\ OnlyCall(u)'
    BY <1>2, <1>4, <2>2, IdleCoherent DEF Serially, Kept
  <2> QED  BY <1>1, <1>2, <2>1, <2>3, <2>4, StepSerial DEF Inv
<1> QED  BY <1>3, <1>4 DEF AddSite

\* What a comparison looks at is coherent, or about to be written by somebody else.
LEMMA ArchivedOnly ==
    ASSUME Inv, NEW u \in Updaters, call[u].pc \in {"compare", "diff", "touch"}
    PROVE  /\ Archived(u) \in Site
           /\ Serially => Archived(u) = site
<1>1. call[u].copy \in Site
  BY CallTypes DEF Inv, CoherenceInv
<1>2. site \in Site
  BY DEF Inv, CoherenceInv, CallCoherent, TypeOK
<1> QED  BY <1>1, <1>2 DEF Archived, Serially, OnlyCall

\* Equal checksums are equal contents, for the only call.
LEMMA CompareChecksumsInv == ASSUME Inv, NEW u \in Updaters, CompareChecksums(u) PROVE Inv'
<1> DEFINE pc == IF Archived(u).Checksum # call[u].new.Checksum THEN "diff" ELSE "touch"
           c  == [call[u] EXCEPT !.pc = pc]
<1>1. /\ call[u].pc = "compare" /\ u \notin holder /\ clock \in Nat
      /\ call[u] \in [pc : {"compare", "diff", "touch"}, new : Site, copy : Site]
  BY CallTypes, NotHolding, ArchiveAssumption DEF Inv, CoherenceInv, CompareChecksums, TypeOK
<1>2. UNCHANGED <<backend, site, holder, clock, seen, acked, reader, overlapped>>
  BY DEF CompareChecksums
<1>3. /\ c \in [pc : {"diff", "touch"}, new : Site, copy : Site]
      /\ c.pc = pc /\ c.new = call[u].new /\ c.copy = call[u].copy
  BY <1>1
<1>4. Moves(u, c)
  BY <1>1, <1>2, <1>3 DEF Moves, CallState, CompareChecksums, Goto
<1> HIDE DEF c
<1>5. call'[u] = c
  BY <1>4, OneMoves DEF Inv, CoherenceInv
<1>6. CallCoherent(u)'
  BY <1>1, <1>2, <1>3, <1>5 DEF Inv, CoherenceInv, CallCoherent, Coherent, IsResult
<1>7. CoherenceInv'
  BY <1>1, <1>2, <1>4, <1>6, LocalStep DEF Inv
<1>8. Serially => Kept' /\ OnlyCall(u)'
  <2> SUFFICES ASSUME Serially PROVE Kept' /\ OnlyCall(u)'
    OBVIOUS
  <2>1. Kept' /\ holder = {}
    <3>1. \A v \in Updaters : v \notin holder
      BY <1>1, NotHolding DEF Serially, Inv
    <3> QED  BY <1>2, <3>1 DEF Serially, Kept, Inv, CoherenceInv, CallsTyped
  <2>2. site # NoSite /\ Coherent(site) /\ Archived(u) = site
    BY <1>1, <2>1, ArchivedOnly, CoherentWhenFree DEF Inv, CoherenceInv, CallCoherent
  <2>3. pc = "touch" => site.Content = call[u].new.Content
    BY <1>1, <2>2 DEF Coherent, Inv, CoherenceInv, CallCoherent, IsResult
  <2>4. OnlyCall(u)'
    BY <1>1, <1>2, <1>3, <1>5, <2>3 DEF Serially, OnlyCall
  <2> QED  BY <2>1, <2>4
<1> QED  BY <1>1, <1>2, <1>4, <1>7, <1>8, StepSerial DEF Inv

\* What storage.Update is given has the parts of the result, and a diff that ends there.
LEMMA UpdatedCoherent ==
    ASSUME NEW new \in Site, IsResult(new), NEW old \in Contents,
           DiffText(old, new.Content) # NoDiff
    PROVE  LET s == Updated(new, DiffText(old, new.Content))
           IN  /\ s \in Site /\ Coherent(s)
               /\ s.LastChecked = new.LastChecked /\ s.LastUpdated = new.LastChecked
               /\ s.Content = new.Content
<1> DEFINE diff == <<old, new.Content>>
           s    == [new EXCEPT !.Diff = diff, !.LastUpdated = new.LastChecked]
<1>1. DiffText(old, new.Content) = diff
  BY DiffOfTexts
<1>2. diff \in Contents \X Contents /\ diff[2] = new.Content
  BY DEF Site
<1> HIDE DEF diff
<1>3. /\ s \in Site
      /\ s.LastUpdated = new.LastChecked /\ s.LastChecked = new.LastChecked
      /\ s.Diff = diff /\ s.Content = new.Content /\ s.Checksum = new.Checksum
  BY <1>2 DEF Site
<1> HIDE DEF s
<1>4. Coherent(s)
  BY <1>2, <1>3 DEF Coherent, IsResult
<1> QED  BY <1>1, <1>3, <1>4 DEF Updated, s

\* A diff is one to the result; without a diff the texts are the same, for the only call.
LEMMA CompareContentsInv == ASSUME Inv, NEW u \in Updaters, CompareContents(u) PROVE Inv'
<1> DEFINE new  == call[u].new
           diff == DiffText(Archived(u).Content, new.Content)
<1>1. /\ call[u].pc = "diff" /\ u \notin holder /\ clock \in Nat
      /\ call[u] \in [pc : {"compare", "diff", "touch"}, new : Site, copy : Site]
      /\ IsResult(new) /\ site # NoSite
  BY CallTypes, NotHolding, ArchiveAssumption
     DEF Inv, CoherenceInv, CompareContents, TypeOK, CallCoherent
<1>2. UNCHANGED <<backend, site, holder, clock, seen, acked, reader, overlapped>>
  BY DEF CompareContents
<1>3. Archived(u).Content \in Contents /\ (Serially => Archived(u) = site)
  BY <1>1, ArchivedOnly DEF Site
<1>4. Serially => Kept'
  BY <1>2 DEF Serially, Kept
<1>5. CASE diff = NoDiff
  <2> DEFINE c == [call[u] EXCEPT !.pc = "touch"]
  <2>1. /\ c \in [pc : {"touch"}, new : Site, copy : Site]
        /\ c.pc = "touch" /\ c.new = new /\ c.copy = call[u].copy
    BY <1>1
  <2>2. Moves(u, c)
    BY <1>1, <1>2, <1>5, <2>1 DEF Moves, CallState, CompareContents, Goto
  <2> HIDE DEF c
  <2>3. call'[u] = c
    BY <2>2, OneMoves DEF Inv, CoherenceInv
  <2>4. CallCoherent(u)'
    BY <1>1, <1>2, <2>1, <2>3 DEF Inv, CoherenceInv, CallCoherent, Coherent, IsResult
  <2>5. CoherenceInv'
    BY <1>1, <1>2, <2>2, <2>4, LocalStep DEF Inv
  <2>6. Serially => OnlyCall(u)'
    <3>1. Serially => site.Content.text = new.Content.text
      BY <1>3, <1>5, DiffOfTexts
    <3> QED  BY <1>1, <1>2, <2>1, <2>3, <3>1 DEF Serially, OnlyCall
  <2> QED  BY <1>1, <1>2, <1>4, <2>2, <2>5, <2>6, StepSerial DEF Inv
<1>6. CASE diff # NoDiff
  <2> DEFINE s == Updated(new, diff)
             c == [pc |-> "update", new |-> new, write |-> s, field |-> 1]
  <2>1. /\ s \in Site /\ Coherent(s)
        /\ s.LastChecked = new.LastChecked /\ s.LastUpdated = new.LastChecked
        /\ s.Content = new.Content
    BY <1>1, <1>3, <1>6, UpdatedCoherent
  <2>2. Goto(u, c)
    BY <1>1, <1>6 DEF CompareContents
  <2> HIDE DEF s
  <2>3. /\ c \in [pc : {"update"}, new : Site, write : Site, field : 1..Len(Fields)]
        /\ c.pc = "update" /\ c.new = new /\ c.write = s /\ c.field = 1
    BY <1>1, <2>1 DEF Fields
  <2>4. Moves(u, c)
    BY <1>1, <1>2, <2>2, <2>3 DEF Moves, CallState, Goto
  <2> HIDE DEF c
  <2>5. call'[u] = c
    BY <2>4, OneMoves DEF Inv, CoherenceInv
  <2>6. CallCoherent(u)'
    <3>1. Coherent(call'[u].write) /\ IsResult(call[u].new)'
      BY <1>1, <1>2, <2>1, <2>3, <2>5 DEF IsResult, Coherent
    <3> QED  BY <1>1, <1>2, <2>1, <2>3, <2>5, <3>1 DEF CallCoherent, Coherent
  <2>7. CoherenceInv'
    BY <1>1, <1>2, <2>4, <2>6, LocalStep DEF Inv
  <2>8. Serially => OnlyCall(u)'
    BY <1>1, <1>2, <2>3, <2>5 DEF Serially, OnlyCall
  <2> QED  BY <1>1, <1>2, <1>4, <2>4, <2>7, <2>8, StepSerial DEF Inv
<1> QED  BY <1>5, <1>6

\* LastChecked is the one field that others assign without the mutex; whatever it is
\* assigned, the rest of the site stays as it is.
LEMMA Retouched ==
    ASSUME NEW s \in Site, NEW time \in 0..MaxScrapes
    PROVE  LET t == [s EXCEPT !.LastChecked = time]
           IN  /\ t \in Site /\ t # NoSite
               /\ t.LastChecked = time /\ t.LastUpdated = s.LastUpdated
               /\ t.Content = s.Content /\ t.Diff = s.Diff
               /\ Coherent(s) => Coherent(t)
<1> DEFINE t == [s EXCEPT !.LastChecked = time]
<1>1. /\ t \in Site
      /\ t.LastChecked = time /\ t.LastUpdated = s.LastUpdated
      /\ t.Content = s.Content /\ t.Diff = s.Diff /\ t.Checksum = s.Checksum
  BY DEF Site
<1> HIDE DEF t
<1>2. Coherent(s) => Coherent(t)
  BY <1>1 DEF Coherent
<1> QED  BY <1>1, <1>2, NoSiteAssumption DEF t

\* In memory LastChecked is assigned behind the back of who holds the mutex; in
\* PostgreSQL the copy is written, with the new time.
LEMMA TouchInv == ASSUME Inv, NEW u \in Updaters, Touch(u) PROVE Inv'
<1> DEFINE new == call[u].new
           old == Archived(u)
<1>1. /\ call[u].pc = "touch" /\ u \notin holder /\ clock \in Nat
      /\ call[u].new \in Site /\ call[u].copy \in Site /\ Coherent(call[u].copy)
      /\ IsResult(new) /\ site # NoSite /\ site \in Site
  BY CallTypes, NotHolding, ArchiveAssumption
     DEF Inv, CoherenceInv, Touch, TypeOK, CallCoherent
<1>2. UNCHANGED <<backend, holder, clock, seen, reader, overlapped>>
  BY DEF Touch
<1>3. old \in Site /\ (Serially => old = site) /\ new.LastChecked \in 0..MaxScrapes
  BY <1>1, ArchivedOnly DEF Site
<1>4. /\ site' \in Site /\ site' # NoSite
      /\ site'.LastChecked = new.LastChecked /\ site'.LastUpdated = old.LastUpdated
      /\ site'.Content = old.Content /\ site'.Diff = old.Diff
      /\ Coherent(old) => Coherent(site')
  BY <1>3, Retouched DEF Touch
<1> HIDE DEF old
<1>5. Serially => /\ new.LastChecked = clock /\ site'.LastUpdated <= site'.LastChecked
                  /\ site'.Content.text = new.Content.text
  <2> SUFFICES ASSUME Serially
               PROVE  /\ new.LastChecked = clock /\ site'.LastUpdated <= site'.LastChecked
                      /\ site'.Content.text = new.Content.text
    OBVIOUS
  <2>1. new.LastChecked = clock /\ site.Content.text = new.Content.text
    BY <1>1 DEF Serially, OnlyCall
  <2>2. site.LastUpdated <= site.LastChecked /\ site.LastChecked <= clock
        /\ site.LastUpdated \in Int /\ site.LastChecked \in Int
    BY <1>1 DEF Serially, Kept, Site
  <2> QED  BY <1>1, <1>3, <1>4, <2>1, <2>2
<1>6. CASE backend = "memory"
  <2> DEFINE c == [pc |-> "save", new |-> new]
  <2>1. old = site /\ Goto(u, c) /\ acked' = acked
    BY <1>6 DEF Touch, Archived, old
  <2>2. c \in CallState /\ c.pc = "save" /\ c.new = new
    BY <1>1 DEF CallState
  <2>3. Moves(u, c)
    BY <1>1, <1>2, <1>4, <2>1, <2>2 DEF Moves, Goto
  <2> HIDE DEF c
  <2>4. call'[u] = c /\ \A v \in Updaters \ {u} : call'[v] = call[v]
    BY <2>3, OneMoves DEF Inv, CoherenceInv
  <2>5. Respects(u)
    BY <1>2, <1>4, <2>1 DEF Respects, Inv, CoherenceInv, TypeOK
  <2>6. TypeOK'
    BY <1>1, <1>2, <1>4, <2>1, <2>4 DEF Inv, CoherenceInv, TypeOK, CallsTyped
  <2>7. CallCoherent(u)'
    BY <1>1, <1>2, <1>4, <1>6, <2>2, <2>4 DEF CallCoherent, IsResult
  <2>8. SiteInv'
    <3>1. \A v \in Updaters : Assigning(v)' <=> Assigning(v)
      BY <1>1, <1>2, <2>4 DEF Assigning
    <3> QED  BY <1>1, <1>4, <2>1, <3>1 DEF Inv, CoherenceInv, SiteInv, Coherent
  <2>9. CoherenceInv'
    BY <1>2, <1>6, <2>3, <2>5, <2>6, <2>7, <2>8, StepCoherent DEF Inv, CoherenceInv, CallsTyped
  <2>10. Serially => Kept' /\ OnlyCall(u)'
    <3> SUFFICES ASSUME Serially PROVE Kept' /\ OnlyCall(u)'
      OBVIOUS
    <3>1. Kept'
      BY <1>1, <1>2, <1>4, <1>5, <2>1, FailKept DEF Inv, CoherenceInv, TypeOK
    <3>2. OnlyCall(u)'
      BY <1>1, <1>2, <1>4, <1>5, <2>1, <2>2, <2>4 DEF Serially, OnlyCall
    <3> QED  BY <3>1, <3>2
  <2> QED  BY <1>1, <1>2, <2>3, <2>9, <2>10, StepSerial DEF Inv
<1>7. CASE backend # "memory"
  <2>1. Return(u) /\ old = call[u].copy /\ holder = {}
    BY <1>7, ArchiveAssumption DEF Touch, Archived, old, Inv, CoherenceInv, CallsTyped, TypeOK
  <2>2. Moves(u, Idle)
    BY <1>1, <1>2, <1>4, <2>1, IdleTyped DEF Moves, Return, Goto
  <2>3. call'[u] = Idle
    BY <2>2, OneMoves DEF Inv, CoherenceInv
  <2>4. CoherenceInv'
    <3>1. Coherent(site)'
      BY <1>1, <1>4, <2>1 DEF Coherent
    <3> QED  BY <1>1, <1>2, <1>4, <2>1, <2>2, <3>1, EndWritten, ReturnTyped DEF Inv
  <2>5. Serially => Kept' /\ OnlyCall(u)'
    BY <1>1, <1>2, <1>4, <1>5, <2>1, <2>3, ReturnKept, IdleCoherent
  <2> QED  BY <1>1, <1>2, <2>2, <2>4, <2>5, StepSerial DEF Inv
<1> QED  BY <1>6, <1>7

\* The save of the object to itself begins: the mutex is taken.
LEMMA SaveReadInv == ASSUME Inv, NEW u \in Updaters, SaveRead(u) PROVE Inv'
<1> DEFINE new == call[u].new
           c   == [pc |-> "saving", new |-> new, checked |-> site.LastChecked]
<1>1. /\ call[u].pc = "save" /\ holder = {} /\ clock \in Nat /\ new \in Site
      /\ IsResult(new) /\ site # NoSite /\ site \in Site /\ backend = "memory"
  BY CallTypes, ArchiveAssumption DEF Inv, CoherenceInv, SaveRead, TypeOK, CallCoherent
<1>2. UNCHANGED <<backend, site, clock, seen, acked, reader, overlapped>> /\ holder' = {u}
  BY DEF SaveRead
<1>3. c \in CallState /\ c.pc = "saving" /\ c.new = new /\ c.checked = site.LastChecked
  BY <1>1 DEF CallState, Site
<1>4. Moves(u, c)
  BY <1>1, <1>2, <1>3 DEF Moves, SaveRead, Goto
<1> HIDE DEF c
<1>5. call'[u] = c /\ \A v \in Updaters \ {u} : call'[v] = call[v]
  BY <1>4, OneMoves DEF Inv, CoherenceInv
<1>6. CoherenceInv'
  <2>1. TypeOK'
    BY <1>2, <1>3, <1>5 DEF Inv, CoherenceInv, TypeOK
  <2>2. CallCoherent(u)'
    BY <1>1, <1>2, <1>3, <1>5 DEF CallCoherent, IsResult
  <2>3. SiteInv'
    <3>1. Coherent(site)
      BY <1>1, CoherentWhenFree DEF Inv
    <3> QED  BY <1>2, <3>1 DEF SiteInv, Coherent
  <2>4. Respects(u)
    BY <1>1 DEF Respects
  <2> QED  BY <1>1, <1>2, <1>4, <2>1, <2>2, <2>3, <2>4, StepCoherent DEF Inv
<1>7. Serially => Kept' /\ OnlyCall(u)'
  BY <1>1, <1>2, <1>3, <1>5 DEF Serially, Kept, OnlyCall
<1> QED  BY <1>1, <1>2, <1>4, <1>6, <1>7, StepSerial DEF Inv

\* The save ends: what others have assigned to LastChecked meanwhile is lost, no more.
LEMMA SaveWriteInv == ASSUME Inv, NEW u \in Updaters, SaveWrite(u) PROVE Inv'
<1> DEFINE new  == call[u].new
           time == call[u].checked
<1>1. /\ call[u].pc = "saving" /\ holder = {u} /\ clock \in Nat /\ new \in Site
      /\ time \in 0..MaxScrapes /\ site # NoSite /\ site \in Site
  BY CallTypes, ArchiveAssumption DEF Inv, CoherenceInv, SaveWrite, TypeOK, CallCoherent
<1>2. UNCHANGED <<backend, clock, seen, reader, overlapped>> /\ holder' = {} /\ Return(u)
  BY DEF SaveWrite
<1>3. /\ site' \in Site /\ site' # NoSite
      /\ site'.LastChecked = time /\ site'.LastUpdated = site.LastUpdated
      /\ site'.Content = site.Content /\ site'.Diff = site.Diff
      /\ Coherent(site) => Coherent(site')
  BY <1>1, Retouched DEF SaveWrite
<1>4. Moves(u, Idle)
  BY <1>2, <1>3, <1>1, IdleTyped DEF Moves, Return, Goto
<1>5. call'[u] = Idle
  BY <1>4, OneMoves DEF Inv, CoherenceInv
<1>6. CoherenceInv'
  <2>1. TypeOK'
    BY <1>1, <1>2, <1>3, ReturnTyped DEF Inv, CoherenceInv, TypeOK
  <2>2. Coherent(site)
    BY <1>1 DEF Inv, CoherenceInv, SiteInv, Assigning
  <2>3. SiteInv'
    BY <1>3, <2>2 DEF SiteInv, Coherent
  <2>4. Respects(u)
    BY <1>1 DEF Respects
  <2> QED  BY <1>2, <1>4, <1>5, <2>1, <2>3, <2>4, IdleCoherent, StepCoherent DEF Inv
<1>7. Serially => Kept' /\ OnlyCall(u)'
  <2> SUFFICES ASSUME Serially PROVE Kept' /\ OnlyCall(u)'
    OBVIOUS
  <2>1. /\ time = clock /\ site.Content.text = new.Content.text
        /\ site.LastUpdated <= site.LastChecked /\ site.LastChecked <= clock
        /\ site.LastUpdated \in Int /\ site.LastChecked \in Int
    BY <1>1 DEF Serially, Kept, OnlyCall, Site
  <2> QED  BY <1>1, <1>2, <1>3, <1>5, <2>1, ReturnKept, IdleCoherent
<1> QED  BY <1>1, <1>2, <1>4, <1>6, <1>7, StepSerial DEF Inv

\* One field is assigned.
LEMMA FieldAssigned ==
    ASSUME NEW old \in Site, NEW new \in Site, NEW k \in 1..5
    PROVE  LET s == [old EXCEPT ![Fields[k]] = new[Fields[k]]]
           IN  /\ s \in Site
               /\ s.LastChecked = IF k = 1 THEN new.LastChecked ELSE old.LastChecked
               /\ s.LastUpdated = IF k = 2 THEN new.LastUpdated ELSE old.LastUpdated
               /\ s.Diff        = IF k = 3 THEN new.Diff ELSE old.Diff
               /\ s.Content     = IF k = 4 THEN new.Content ELSE old.Content
               /\ s.Checksum    = IF k = 5 THEN new.Checksum ELSE old.Checksum
<1>1. CASE k = 1
  BY <1>1 DEF Fields, Site
<1>2. CASE k = 2
  BY <1>2 DEF Fields, Site
<1>3. CASE k = 3
  BY <1>3 DEF Fields, Site
<1>4. CASE k = 4
  BY <1>4 DEF Fields, Site
<1>5. CASE k = 5
  BY <1>5 DEF Fields, Site
<1> QED  BY <1>1, <1>2, <1>3, <1>4, <1>5

\* The fields that are assigned so far are those to write; with the last one the site
\* is coherent again, and the mutex is released.
LEMMA UpdateFieldInv == ASSUME Inv, NEW u \in Updaters, UpdateField(u) PROVE Inv'
<1> DEFINE new   == call[u].new
           write == call[u].write
           k     == call[u].field
<1>1. /\ call[u].pc = "update" /\ holder \subseteq {u} /\ backend = "memory" /\ clock \in Nat
      /\ call[u] \in [pc : {"update"}, new : Site, write : Site, field : 1..5]
      /\ new \in Site /\ write \in Site /\ k \in 1..5
      /\ site # NoSite /\ site \in Site
      /\ CallCoherent(u)
  BY CallTypes, ArchiveAssumption DEF Inv, CoherenceInv, UpdateField, TypeOK, CallCoherent
<1>2. UNCHANGED <<backend, clock, seen, reader, overlapped>> /\ Len(Fields) = 5
  BY DEF UpdateField, Fields
<1>3. /\ site' \in Site
      /\ site'.LastChecked = IF k = 1 THEN write.LastChecked ELSE site.LastChecked
      /\ site'.LastUpdated = IF k = 2 THEN write.LastUpdated ELSE site.LastUpdated
      /\ site'.Diff        = IF k = 3 THEN write.Diff ELSE site.Diff
      /\ site'.Content     = IF k = 4 THEN write.Content ELSE site.Content
      /\ site'.Checksum    = IF k = 5 THEN write.Checksum ELSE site.Checksum
  <2>1. site' = [site EXCEPT ![Fields[k]] = write[Fields[k]]]
    BY DEF UpdateField
  <2>2. site \in Site /\ write \in Site /\ k \in 1..5
    BY <1>1
  <2> HIDE DEF k, write
  <2> QED  BY <2>1, <2>2, FieldAssigned, ZenonT(40)
<1>4. /\ Coherent(write) /\ IsResult(new)
      /\ write.LastChecked = new.LastChecked /\ write.LastUpdated = new.LastChecked
      /\ write.Content = new.Content
      /\ k > 3 => site.Diff = write.Diff
      /\ k > 4 => site.Content = write.Content
  BY <1>1 DEF CallCoherent
<1>5. Respects(u) /\ site' # NoSite
  BY <1>1, <1>3, NoSiteAssumption DEF Respects
<1>6. Serially => /\ site'.LastChecked = clock /\ site'.LastUpdated <= site'.LastChecked
                  /\ new.LastChecked = clock
  <2> SUFFICES ASSUME Serially
               PROVE  /\ site'.LastChecked = clock /\ site'.LastUpdated <= site'.LastChecked
                      /\ new.LastChecked = clock
    OBVIOUS
  <2>1. new.LastChecked = clock /\ (k > 1 => site.LastChecked = clock)
    BY <1>1 DEF Serially, OnlyCall
  <2>2. site.LastUpdated <= site.LastChecked /\ site.LastChecked <= clock
        /\ site.LastUpdated \in Int /\ site.LastChecked \in Int
    BY <1>1 DEF Serially, Kept, Site
  <2> QED  BY <1>1, <1>3, <1>4, <2>1, <2>2
<1>7. CASE k < 5
  <2> DEFINE c == [call[u] EXCEPT !.field = k + 1]
  <2>1. /\ c \in [pc : {"update"}, new : Site, write : Site, field : 1..5]
        /\ c.pc = "update" /\ c.new = new /\ c.write = write /\ c.field = k + 1
    BY <1>1, <1>7
  <2>2. Goto(u, c) /\ holder' = {u} /\ acked' = acked
    BY <1>2, <1>7 DEF UpdateField
  <2>3. c \in CallState
    BY <1>2, <2>1 DEF CallState
  <2> HIDE DEF c
  <2>4. Moves(u, c)
    BY <1>1, <1>2, <1>5, <2>2, <2>3 DEF Moves, Goto
  <2>5. call'[u] = c
    BY <2>4, OneMoves DEF Inv, CoherenceInv
  <2>6. CallCoherent(u)'
    <3>1. Coherent(call'[u].write) /\ IsResult(call[u].new)'
      BY <1>2, <1>4, <2>1, <2>5 DEF IsResult, Coherent
    <3>2. call'[u].field > 3 => site'.Diff = call'[u].write.Diff
      BY <1>1, <1>3, <1>4, <2>1, <2>5
    <3>3. call'[u].field > 4 => site'.Content = call'[u].write.Content
      BY <1>1, <1>3, <1>4, <1>7, <2>1, <2>5
    <3> QED  BY <1>1, <1>2, <1>4, <1>5, <2>1, <2>2, <2>5, <3>1, <3>2, <3>3
             DEF CallCoherent, Coherent
  <2>7. CoherenceInv'
    <3>1. TypeOK'
      BY <1>2, <1>3, <2>1, <2>2, <2>5 DEF Inv, CoherenceInv, TypeOK
    <3>2. SiteInv'
      BY <2>1, <2>2, <2>5 DEF SiteInv, Assigning
    <3> QED  BY <1>1, <1>5, <2>2, <2>4, <2>6, <3>1, <3>2, StepCoherent DEF Inv
  <2>8. Serially => Kept' /\ OnlyCall(u)'
    <3> SUFFICES ASSUME Serially PROVE Kept' /\ OnlyCall(u)'
      OBVIOUS
    <3>1. Kept'
      BY <1>1, <1>2, <1>5, <1>6, <2>2, FailKept DEF Inv, CoherenceInv, TypeOK
    <3>2. OnlyCall(u)'
      BY <1>1, <1>2, <1>6, <2>1, <2>2, <2>5 DEF Serially, OnlyCall
    <3> QED  BY <3>1, <3>2
  <2> QED  BY <1>1, <1>2, <2>4, <2>7, <2>8, StepSerial DEF Inv
<1>8. CASE k = 5
  <2>1. Return(u) /\ holder' = {}
    BY <1>2, <1>8 DEF UpdateField
  <2>2. Moves(u, Idle)
    BY <1>1, <1>2, <1>5, <2>1, IdleTyped DEF Moves, Return, Goto
  <2>3. call'[u] = Idle
    BY <2>2, OneMoves DEF Inv, CoherenceInv
  <2>4. CoherenceInv'
    <3>1. TypeOK'
      BY <1>1, <1>2, <1>3, <2>1, ReturnTyped DEF Inv, CoherenceInv, TypeOK
    <3>2. SiteInv'
      BY <1>3, <1>4, <1>8 DEF SiteInv, Coherent
    <3> QED  BY <1>5, <2>1, <2>2, <2>3, <3>1, <3>2, IdleCoherent, StepCoherent DEF Inv
  <2>5. Serially => Kept' /\ OnlyCall(u)'
    <3>1. site'.Content.text = new.Content.text
      BY <1>3, <1>4, <1>8
    <3> QED  BY <1>1, <1>2, <1>5, <1>6, <2>1, <2>3, <3>1, ReturnKept, IdleCoherent
  <2> QED  BY <1>1, <1>2, <2>2, <2>4, <2>5, StepSerial DEF Inv
<1> QED  BY <1>1, <1>7, <1>8

\* A statement that writes a row, acknowledged or not.
LEMMA RowWritten ==
    ASSUME Inv, NEW u \in Updaters, backend = "postgres", call[u].pc # "idle",
           Goto(u, Idle), UNCHANGED <<backend, holder, clock, seen, reader, overlapped>>,
           site' \in Site, Coherent(site'),
           Return(u) \/ acked' = acked,
           Serially => /\ site'.LastChecked = call[u].new.LastChecked
                       /\ site'.LastUpdated <= site'.LastChecked
                       /\ site'.Content.text = call[u].new.Content.text
    PROVE  Inv'
<1>1. holder = {} /\ clock \in Nat /\ site' # NoSite /\ acked \in Site \cup {NoSite}
  BY ArchiveAssumption, NoSiteAssumption DEF Inv, CoherenceInv, TypeOK, CallsTyped
<1>2. Moves(u, Idle)
  BY <1>1, IdleTyped DEF Moves, Goto
<1>3. call'[u] = Idle
  BY <1>2, OneMoves DEF Inv, CoherenceInv
<1>4. acked' \in Site \cup {NoSite} /\ Coherent(site)'
  BY <1>1, ReturnTyped DEF Inv, Coherent
<1>5. CoherenceInv'
  BY <1>1, <1>2, <1>4, EndWritten DEF Inv
<1>6. Serially => Kept' /\ OnlyCall(u)'
  <2>1. Serially => call[u].new.LastChecked = clock
    BY DEF Serially, OnlyCall
  <2> QED  BY <1>1, <1>3, <2>1, ReturnKept, FailKept, IdleCoherent
<1> QED  BY <1>2, <1>5, <1>6, StepSerial DEF Inv

\* The row to write is a coherent site, with the time and the content of the result.
LEMMA RowToWrite ==
    ASSUME CoherenceInv, NEW u \in Updaters, call[u].pc = "update"
    PROVE  LET s == call[u].write
           IN  /\ s \in Site /\ Coherent(s)
               /\ s.LastChecked = call[u].new.LastChecked /\ s.LastUpdated <= s.LastChecked
               /\ s.Content = call[u].new.Content
<1>1. call[u].write \in Site /\ call[u].write.LastChecked \in Nat
  BY CallTypes, ArchiveAssumption DEF CoherenceInv, Site
<1> QED  BY <1>1 DEF CoherenceInv, CallCoherent

LEMMA UpdateRowInv == ASSUME Inv, NEW u \in Updaters, UpdateRow(u) PROVE Inv'
<1>1. call[u].pc = "update" /\ site' = call[u].write /\ Return(u) /\ Goto(u, Idle)
  BY DEF UpdateRow, Return
<1> QED  BY <1>1, RowToWrite, RowWritten DEF UpdateRow, Inv

\* A statement that failed has written nothing, or what it would have written.
LEMMA StorageFailsInv == ASSUME Inv, NEW u \in Updaters, StorageFails(u) PROVE Inv'
<1> DEFINE new == call[u].new
<1>1. /\ backend = "postgres" /\ Goto(u, Idle)
      /\ UNCHANGED <<backend, holder, clock, seen, acked, reader, overlapped>>
      /\ call[u].pc \in {"get", "add", "update", "touch"} /\ call[u].pc # "idle"
      /\ new \in Site /\ IsResult(new) /\ u \notin holder
  BY CallTypes DEF StorageFails, Inv, CoherenceInv, CallCoherent, CallsTyped
<1>2. CASE UNCHANGED site
  <2>1. Moves(u, Idle)
    BY <1>1, <1>2, IdleTyped, ArchiveAssumption DEF Moves, Goto, Inv, CoherenceInv, TypeOK
  <2>2. call'[u] = Idle
    BY <2>1, OneMoves DEF Inv, CoherenceInv
  <2>3. CoherenceInv'
    BY <1>1, <1>2, <2>1, <2>2, IdleCoherent, LocalStep DEF Inv
  <2>4. Serially => Kept' /\ OnlyCall(u)'
    BY <1>1, <1>2, <2>2, IdleCoherent DEF Serially, Kept
  <2> QED  BY <1>1, <2>1, <2>3, <2>4, StepSerial DEF Inv
<1>3. CASE call[u].pc = "add" /\ site' = AsAdded(new)
  BY <1>1, <1>3, AddedCoherent, RowWritten
<1>4. CASE call[u].pc = "update" /\ site' = call[u].write
  BY <1>1, <1>4, RowToWrite, RowWritten DEF Inv
<1>5. CASE call[u].pc = "touch" /\ site' = [call[u].copy EXCEPT !.LastChecked = new.LastChecked]
  <2>1. call[u].copy \in Site /\ Coherent(call[u].copy) /\ new.LastChecked \in 0..MaxScrapes
    BY <1>1, <1>5, CallTypes DEF Inv, CoherenceInv, CallCoherent, Site
  <2>2. /\ site' \in Site /\ Coherent(site') /\ site'.LastChecked = new.LastChecked
        /\ site'.Content = call[u].copy.Content /\ site'.LastUpdated = call[u].copy.LastUpdated
    BY <1>5, <2>1, Retouched
  <2>3. Serially => site'.LastUpdated <= site'.LastChecked /\ site'.Content.text = new.Content.text
    <3> SUFFICES ASSUME Serially
                 PROVE  site'.LastUpdated <= site'.LastChecked /\ site'.Content.text = new.Content.text
      OBVIOUS
    <3>1. call[u].copy = site /\ new.LastChecked = clock /\ site.Content.text = new.Content.text
      BY <1>5 DEF Serially, OnlyCall
    <3>2. site # NoSite
      BY <1>5 DEF Inv, CoherenceInv, CallCoherent
    <3>3. site.LastUpdated <= site.LastChecked /\ site.LastChecked <= clock
          /\ site.LastUpdated \in Int /\ site.LastChecked \in Int /\ clock \in Int
      BY <2>1, <3>1, <3>2, ArchiveAssumption DEF Serially, Kept, Site, Inv, CoherenceInv, TypeOK
    <3> QED  BY <2>2, <3>1, <3>3
  <2> QED  BY <1>1, <1>5, <2>2, <2>3, RowWritten
<1> QED  BY <1>1, <1>2, <1>3, <1>4, <1>5 DEF StorageFails

\* Reading changes nothing in the archive.
LEMMA ReaderInv ==
    ASSUME Inv, reader'.got \in {site, reader.got},
           UNCHANGED <<backend, site, holder, call, clock, seen, acked, overlapped>>
    PROVE  Inv'
<1>1. TypeOK' /\ CallsTyped'
  BY DEF Inv, CoherenceInv, TypeOK, CallsTyped
<1>2. SiteInv' /\ \A u \in Updaters : CallCoherent(u)'
  BY DEF Inv, CoherenceInv, SiteInv, Assigning, CallCoherent, IsResult, Coherent
<1>3. SerialInv'
  BY DEF Inv, SerialInv, Serially, Kept, OnlyCall
<1> QED  BY <1>1, <1>2, <1>3 DEF Inv, CoherenceInv

\* At the beginning nothing is archived and nobody updates.
LEMMA InitInv == Init => Inv
<1> SUFFICES ASSUME Init PROVE Inv
  OBVIOUS
<1>1. \A u \in Updaters : call[u].pc = "idle"
  BY DEF Init, Idle
<1>2. TypeOK
  <2>1. clock \in 0..MaxScrapes /\ reader.got = NoSite
    BY ArchiveAssumption DEF Init
  <2>2. overlapped \in BOOLEAN
    BY DEF Init
  <2> QED  BY <2>1, <2>2 DEF Init, TypeOK
<1>3. CallsTyped
  BY DEF Init, CallsTyped, CallState, Idle
<1>4. SiteInv /\ SerialInv /\ \A u \in Updaters : CallCoherent(u)
  BY <1>1 DEF Init, SiteInv, SerialInv, Serially, Kept, OnlyCall, CallCoherent
<1> QED  BY <1>2, <1>3, <1>4 DEF Inv, CoherenceInv

\* Every step keeps the invariant.
LEMMA NextInv == Inv /\ [Next]_vars => Inv'
<1> SUFFICES ASSUME Inv, [Next]_vars PROVE Inv'
  OBVIOUS
<1>1. CASE UNCHANGED vars
  BY <1>1, ReaderInv DEF vars
<1>2. CASE ReadSite
  BY <1>2, ReaderInv DEF ReadSite
<1>3. CASE EncodeSite
  BY <1>3, ReaderInv DEF EncodeSite
<1> QED
  BY <1>1, <1>2, <1>3, ScrapeInv, GetSiteInv, AddSiteInv, CompareChecksumsInv, CompareContentsInv,
     TouchInv, SaveReadInv, SaveWriteInv, UpdateFieldInv, UpdateRowInv, StorageFailsInv DEF Next

\* The invariant, for any number of exporters, overlapping scrapes, readers and failures.
THEOREM ArchiveCorrect == Spec => []Inv
BY InitInv, NextInv, PTL DEF Spec

\* Types; the mutex of the in-memory storage is held by one call of memDB.Update at most.
THEOREM TypeCorrect == Spec => []TypeOK
<1>1. Inv => TypeOK
  BY DEF Inv, CoherenceInv
<1> QED  BY <1>1, ArchiveCorrect, PTL

\* Whichever calls of siteArchive.Update interleave, outside memDB.Update the archived
\* site has the checksum, the diff and the content of one scrape.
THEOREM Coherence == Spec => []SiteCoherent
<1>1. Inv => SiteCoherent
  BY CoherentWhenFree DEF Inv, SiteCoherent
<1> QED  BY <1>1, ArchiveCorrect, PTL

\* Until calls overlap, the archive keeps the latest scrape that was acknowledged.
THEOREM LatestKept == Spec => []LatestScrapeKeptSerially
<1>1. Inv => LatestScrapeKeptSerially
  <2>1. acked # NoSite /\ Kept => acked.LastChecked <= site.LastChecked
    BY DEF Kept
  <2>2. Inv /\ acked # NoSite /\ Kept => acked.LastChecked \in Int /\ site.LastChecked \in Int
    BY DEF Inv, CoherenceInv, TypeOK, Site, Kept
  <2> QED  BY <2>1, <2>2 DEF LatestScrapeKeptSerially, LatestScrapeKept, Inv, SerialInv, Serially, Kept
<1> QED  BY <1>1, ArchiveCorrect, PTL

\* The only call there is writes the time of the latest scrape, or leaves the site alone.
LEMMA OnlyCallWrites ==
    ASSUME Inv, Serially, site # NoSite, NEW u \in Updaters,
           \/ AddSite(u) \/ Touch(u) \/ SaveWrite(u) \/ UpdateField(u)
           \/ UpdateRow(u) \/ StorageFails(u)
    PROVE  site' = site \/ site'.LastChecked \in {site.LastChecked, clock}
<1> DEFINE c == call[u]
<1>0. OnlyCall(u) /\ CallCoherent(u) /\ site \in Site
  BY DEF Serially, Inv, CoherenceInv, TypeOK
<1>1. CASE AddSite(u)
  BY <1>1 DEF AddSite
<1>2. CASE Touch(u) \/ (StorageFails(u) /\ c.pc = "touch")
  <2>1. c.new.LastChecked = clock /\ c.copy = site /\ c.pc = "touch"
    BY <1>0, <1>2 DEF OnlyCall, Touch
  <2>2. site' = site \/ site' = [site EXCEPT !.LastChecked = clock]
    BY <1>2, <2>1 DEF Touch, StorageFails, Archived
  <2> QED  BY <1>0, <2>2 DEF Site
<1>3. CASE SaveWrite(u)
  <2>1. site' = [site EXCEPT !.LastChecked = clock]
    BY <1>0, <1>3 DEF OnlyCall, SaveWrite
  <2> QED  BY <1>0, <2>1 DEF Site
<1>4. CASE UpdateField(u)
  <2> DEFINE k     == call[u].field
             write == call[u].write
  <2>1. write.LastChecked = clock /\ write \in Site /\ k \in 1..5
    BY <1>0, <1>4, CallTypes DEF OnlyCall, CallCoherent, UpdateField, Inv, CoherenceInv
  <2>2. site' = [site EXCEPT ![Fields[k]] = write[Fields[k]]]
    BY <1>4 DEF UpdateField
  <2> HIDE DEF k, write
  <2>3. site'.LastChecked = IF k = 1 THEN write.LastChecked ELSE site.LastChecked
    BY <1>0, <2>1, <2>2, FieldAssigned
  <2> QED  BY <2>1, <2>3
<1>5. CASE UpdateRow(u) \/ (StorageFails(u) /\ c.pc = "update")
  <2>1. c.pc = "update" /\ c.write.LastChecked = clock
    BY <1>0, <1>5 DEF OnlyCall, CallCoherent, UpdateRow
  <2>2. site' = site \/ site' = c.write
    BY <1>5, <2>1 DEF UpdateRow, StorageFails
  <2> QED  BY <2>1, <2>2
<1>6. CASE StorageFails(u) /\ c.pc \notin {"touch", "update"}
  BY <1>6, <1>0 DEF StorageFails, OnlyCall
<1> QED  BY <1>1, <1>2, <1>3, <1>4, <1>5, <1>6

\* Until calls overlap, the time of the last check does not go back.
THEOREM CheckedForward == Spec => CheckedForwardSerially
<1>1. Inv /\ [Next]_vars =>
          [~ overlapped' /\ site # NoSite => site'.LastChecked >= site.LastChecked]_vars
  <2> SUFFICES ASSUME Inv, Next, ~ overlapped', site # NoSite
               PROVE  site'.LastChecked >= site.LastChecked
    OBVIOUS
  <2>1. Serially
    <3>1. overlapped => overlapped'
      BY DEF Next, Scrape, GetSite, AddSite, CompareChecksums, CompareContents, Touch, SaveRead,
             SaveWrite, UpdateField, UpdateRow, StorageFails, ReadSite, EncodeSite
    <3> QED  BY <3>1 DEF Inv, SerialInv
  <2>2. site.LastChecked \in Int /\ clock \in Int /\ site.LastChecked <= clock
    BY <2>1, ArchiveAssumption DEF Serially, Kept, Inv, CoherenceInv, TypeOK, Site
  <2>3. site' = site \/ site'.LastChecked \in {site.LastChecked, clock}
    BY <2>1, OnlyCallWrites
       DEF Next, Scrape, GetSite, CompareChecksums, CompareContents, SaveRead, ReadSite, EncodeSite
  <2> QED  BY <2>2, <2>3
<1> QED  BY <1>1, ArchiveCorrect, PTL DEF Spec, CheckedForwardSerially
----------------------------------------------------------------------------
(* The times of a site.                                                     *)

\* The times and the diff of a site, and what the scrapes of those times saw.
Dates(s) ==
    /\ s.LastChecked \in 1..clock
    /\ seen[s.LastChecked].text = s.Content.text
    /\ s.LastUpdated > 0 => seen[s.LastUpdated] = s.Content
    /\ s.LastUpdated = 0 => backend = "postgres" /\ s.Diff = NoDiff

\* A call has in hand what the latest scrape saw.
InHand(u) ==
    LET c == call[u]
    IN  /\ c.pc # "idle" => c.new.Content = seen[clock]
        /\ c.pc = "update" /\ c.field > 2 => site.LastUpdated = clock

Dated ==
    /\ site # NoSite /\ (\A u \in Updaters : ~ Assigning(u)) => Dates(site)
    /\ \A u \in Updaters : InHand(u)

DatedInv == ~ overlapped => Dated

\* What the steps of the only call have in common.
LEMMA OnlyCallDated ==
    ASSUME Inv, Serially, Dated, NEW u \in Updaters, call[u].pc # "idle", seen' = seen,
           clock' = clock, backend' = backend, NEW c, call' = [call EXCEPT ![u] = c],
           c.pc # "idle" => c.new = call[u].new,
           (c.pc = "update" /\ c.field > 2 => site.LastUpdated = clock)',
           (\A v \in Updaters : ~ Assigning(v))' /\ site' # NoSite => Dates(site)'
    PROVE  Dated'
<1>1. call'[u] = c /\ \A v \in Updaters \ {u} : call'[v] = call[v] /\ call[v].pc = "idle"
  BY DEF Inv, CoherenceInv, CallsTyped, Serially
<1>2. InHand(u)'
  BY <1>1 DEF Dated, InHand
<1>3. \A v \in Updaters \ {u} : InHand(v)'
  BY <1>1 DEF InHand
<1> QED  BY <1>2, <1>3 DEF Dated

\* The site as the only call finds it: nobody is assigning its fields but perhaps itself.
LEMMA OnlyCallFinds ==
    ASSUME Inv, Serially, Dated, NEW u \in Updaters, call[u].pc # "idle"
    PROVE  /\ call[u].new \in Site /\ IsResult(call[u].new)
           /\ call[u].new.LastChecked = clock /\ call[u].new.Content = seen[clock]
           /\ clock \in 1..MaxScrapes /\ clock \in Nat
           /\ OnlyCall(u) /\ CallCoherent(u)
           /\ site # NoSite => site \in Site
           /\ site # NoSite /\ ~ Assigning(u) => Dates(site)
<1>1. call[u].new \in Site
  BY CallTypes DEF Inv, CoherenceInv
<1>2. OnlyCall(u) /\ CallCoherent(u) /\ InHand(u) /\ clock \in 0..MaxScrapes
  BY DEF Serially, Inv, CoherenceInv, Dated, TypeOK
<1>3. IsResult(call[u].new) /\ call[u].new.LastChecked = clock /\ call[u].new.Content = seen[clock]
  BY <1>2 DEF CallCoherent, OnlyCall, InHand
<1>4. clock \in 1..MaxScrapes /\ clock \in Nat
  BY <1>2, <1>3, ArchiveAssumption DEF IsResult
<1>5. site # NoSite => site \in Site
  BY DEF Inv, CoherenceInv, TypeOK
<1>6. site # NoSite /\ ~ Assigning(u) => Dates(site)
  <2>1. \A v \in Updaters \ {u} : ~ Assigning(v)
    BY DEF Serially, Assigning
  <2> QED  BY <2>1 DEF Dated
<1> QED  BY <1>1, <1>2, <1>3, <1>4, <1>5, <1>6

\* A site that the only call has checked, and found with the text it has.
LEMMA CheckedDates ==
    ASSUME Inv, Serially, Dated, NEW u \in Updaters, call[u].pc # "idle", ~ Assigning(u),
           site # NoSite, site.Content.text = call[u].new.Content.text,
           site' = [site EXCEPT !.LastChecked = clock],
           UNCHANGED <<seen, clock, backend>>
    PROVE  Dates(site)'
<1>1. /\ site \in Site /\ Dates(site) /\ clock \in 1..MaxScrapes /\ clock \in Nat
      /\ clock \in 0..MaxScrapes
      /\ site.Content.text = seen[clock].text
  BY OnlyCallFinds
<1>2. /\ site'.LastChecked = clock /\ site'.LastUpdated = site.LastUpdated
      /\ site'.Content = site.Content /\ site'.Diff = site.Diff
  BY <1>1, Retouched
<1> QED  BY <1>1, <1>2 DEF Dates

\* A site that the only call has written as it was scraped, and dated.
LEMMA WrittenDates ==
    ASSUME Inv, Serially, Dated, NEW u \in Updaters, call[u].pc # "idle",
           site'.LastChecked = clock, site'.LastUpdated = clock,
           site'.Content = call[u].new.Content,
           UNCHANGED <<seen, clock, backend>>
    PROVE  Dates(site)'
<1>1. clock \in 1..MaxScrapes /\ clock \in Nat /\ site'.Content = seen[clock]
  BY OnlyCallFinds
<1> QED  BY <1>1 DEF Dates

\* A site that is added has the time of its scrape, in memory as that of an update, too.
LEMMA AddedDates ==
    ASSUME Inv, Serially, Dated, NEW u \in Updaters, call[u].pc # "idle",
           site' = AsAdded(call[u].new),
           UNCHANGED <<seen, clock, backend>>
    PROVE  Dates(site)'
<1>1. /\ call[u].new \in Site /\ IsResult(call[u].new) /\ clock \in 1..MaxScrapes /\ clock \in Nat
      /\ call[u].new.LastChecked = clock /\ call[u].new.Content = seen[clock]
  BY OnlyCallFinds
<1>2. CASE backend = "memory"
  <2>1. /\ site'.LastUpdated = clock /\ site'.LastChecked = clock
        /\ site'.Content = call[u].new.Content
    BY <1>1, <1>2 DEF AsAdded, Site
  <2> QED  BY <1>1, <2>1, WrittenDates
<1>3. CASE backend # "memory"
  <2>1. backend = "postgres"
    BY <1>3, ArchiveAssumption DEF Inv, CoherenceInv, TypeOK
  <2> QED  BY <1>1, <1>3, <2>1 DEF AsAdded, IsResult, Dates
<1> QED  BY <1>2, <1>3

\* A scrape sees something at a new time; what was seen before stays.
LEMMA ScrapeDated ==
    ASSUME Inv, Dated, ~ overlapped', NEW u \in Updaters, NEW content \in Contents,
           Scrape(u, content)
    PROVE  Dated'
<1>1. /\ clock \in Nat /\ clock' = clock + 1 /\ seen \in Seq(Contents) /\ Len(seen) = clock
      /\ seen' = Append(seen, content) /\ site' = site /\ backend' = backend /\ holder' = holder
      /\ \A v \in Updaters : call[v] = Idle
  <2>1. clock \in 0..MaxScrapes /\ seen \in Seq(Contents) /\ Len(seen) = clock
    BY DEF Inv, CoherenceInv, TypeOK
  <2>2. clock \in Nat
    BY <2>1, ArchiveAssumption
  <2>3. /\ clock' = clock + 1 /\ seen' = Append(seen, content)
        /\ UNCHANGED <<site, backend, holder>>
        /\ overlapped' = (overlapped \/ \E v \in Updaters : call[v] # Idle)
    BY DEF Scrape
  <2>4. \A v \in Updaters : call[v] = Idle
    BY <2>3, Zenon
  <2> QED  BY <2>1, <2>2, <2>3, <2>4
<1>2. seen'[clock'] = content /\ \A n \in 1..clock : seen'[n] = seen[n]
  BY <1>1
<1>3. /\ call'[u].pc = "get" /\ call'[u].new.Content = content
      /\ \A v \in Updaters \ {u} : call'[v] = Idle
  BY <1>1 DEF Scrape, Goto, ScrapeResult, Inv, CoherenceInv, CallsTyped
<1>4. \A v \in Updaters : InHand(v)'
  BY <1>2, <1>3 DEF InHand, Idle
<1>5. ASSUME site # NoSite PROVE Dates(site)'
  <2>1. Dates(site)
    BY <1>1, <1>5 DEF Dated, Assigning, Idle
  <2>2. /\ site.LastUpdated \in Nat /\ site.LastUpdated <= site.LastChecked
        /\ site.LastChecked \in 1..clock /\ site.LastChecked \in 1..clock'
    <3>1. ~ overlapped /\ site \in Site
      BY <1>5 DEF Scrape, Inv, CoherenceInv, TypeOK
    <3>2. site.LastUpdated <= site.LastChecked
      BY <1>5, <3>1 DEF Inv, SerialInv, Serially, Kept
    <3> QED  BY <1>1, <2>1, <3>1, <3>2 DEF Dates, Site
  <2>3. site.LastUpdated > 0 => site.LastUpdated \in 1..clock
    BY <1>1, <2>2
  <2> QED  BY <1>1, <1>2, <2>1, <2>2, <2>3 DEF Dates
<1> QED  BY <1>1, <1>4, <1>5 DEF Dated

\* The steps that read and compare write nothing.
LEMMA LookingDated ==
    ASSUME Inv, Serially, Dated, NEW u \in Updaters,
           GetSite(u) \/ CompareChecksums(u) \/ CompareContents(u) \/ SaveRead(u)
    PROVE  Dated'
<1>1. /\ call[u].pc \in {"get", "compare", "diff", "save"} /\ call[u].pc # "idle" /\ ~ Assigning(u)
      /\ UNCHANGED <<seen, clock, backend, site>>
  BY DEF GetSite, CompareChecksums, CompareContents, SaveRead, Assigning
<1>2. PICK c : /\ call' = [call EXCEPT ![u] = c]
               /\ c.new = call[u].new
               /\ c.pc = "update" => c.field = 1
  <2>1. CASE GetSite(u)
    <3>1. PICK c : c = IF site = NoSite
                       THEN [pc |-> "add", new |-> call[u].new]
                       ELSE [pc |-> "compare", new |-> call[u].new, copy |-> site]
      OBVIOUS
    <3>2. c.new = call[u].new /\ c.pc # "update"
      BY <3>1
    <3> QED  BY <2>1, <3>1, <3>2 DEF GetSite, Goto
  <2>2. CASE CompareChecksums(u)
    <3>1. call[u] \in [pc : {"compare", "diff", "touch"}, new : Site, copy : Site]
      BY <2>2, CallTypes DEF CompareChecksums, Inv, CoherenceInv
    <3>2. \A state \in {"diff", "touch"} :
             LET c == [call[u] EXCEPT !.pc = state] IN c.new = call[u].new /\ c.pc # "update"
      BY <3>1
    <3> QED  BY <2>2, <3>2 DEF CompareChecksums, Goto
  <2>3. CASE CompareContents(u)
    <3>1. call[u] \in [pc : {"compare", "diff", "touch"}, new : Site, copy : Site]
      BY <2>3, CallTypes DEF CompareContents, Inv, CoherenceInv
    <3>2. LET c == [call[u] EXCEPT !.pc = "touch"] IN c.new = call[u].new /\ c.pc # "update"
      BY <3>1
    <3> QED  BY <2>3, <3>2 DEF CompareContents, Goto
  <2>4. CASE SaveRead(u)
    <3>1. PICK c : c = [pc |-> "saving", new |-> call[u].new, checked |-> site.LastChecked]
      OBVIOUS
    <3>2. c.new = call[u].new /\ c.pc # "update"
      BY <3>1
    <3> QED  BY <2>4, <3>1, <3>2 DEF SaveRead, Goto
  <2> QED  BY <2>1, <2>2, <2>3, <2>4
<1>3. site' # NoSite => Dates(site)'
  BY <1>1, OnlyCallFinds DEF Dates
<1>4. ~ (c.pc = "update" /\ c.field > 2)
  BY <1>2
<1> QED  BY <1>1, <1>2, <1>3, <1>4, OnlyCallDated

\* The steps that add a site or mark it checked.
LEMMA CheckingDated ==
    ASSUME Inv, Serially, Dated, NEW u \in Updaters, AddSite(u) \/ Touch(u) \/ SaveWrite(u)
    PROVE  Dated'
<1>1. /\ call[u].pc \in {"add", "touch", "saving"} /\ call[u].pc # "idle" /\ ~ Assigning(u)
      /\ UNCHANGED <<seen, clock, backend>>
  BY DEF AddSite, Touch, SaveWrite, Assigning
<1>2. PICK c : /\ call' = [call EXCEPT ![u] = c]
               /\ c.pc # "idle" => c.new = call[u].new
               /\ c.pc # "update"
  BY DEF AddSite, Touch, SaveWrite, Return, Goto, Idle
<1>3. OnlyCall(u) /\ CallCoherent(u)
  BY <1>1, OnlyCallFinds
<1>4. site' # NoSite => Dates(site)'
  <2>1. CASE AddSite(u)
    <3>1. site = NoSite
      BY <1>3, <2>1 DEF AddSite, OnlyCall
    <3> QED  BY <1>1, <2>1, <3>1, AddedDates DEF AddSite
  <2>2. CASE Touch(u)
    <3>1. /\ call[u].pc = "touch" /\ Archived(u) = site /\ call[u].new.LastChecked = clock
          /\ site.Content.text = call[u].new.Content.text /\ site # NoSite
      BY <1>3, <2>2 DEF Touch, OnlyCall, CallCoherent, Archived
    <3>2. site' = [site EXCEPT !.LastChecked = clock]
      BY <2>2, <3>1 DEF Touch
    <3> QED  BY <1>1, <3>1, <3>2, CheckedDates
  <2>3. CASE SaveWrite(u)
    <3>1. /\ call[u].pc = "saving" /\ call[u].checked = clock
          /\ site.Content.text = call[u].new.Content.text /\ site # NoSite
      BY <1>3, <2>3 DEF SaveWrite, OnlyCall, CallCoherent
    <3>2. site' = [site EXCEPT !.LastChecked = clock]
      BY <2>3, <3>1 DEF SaveWrite
    <3> QED  BY <1>1, <3>1, <3>2, CheckedDates
  <2> QED  BY <2>1, <2>2, <2>3
<1> QED  BY <1>1, <1>2, <1>4, OnlyCallDated

\* The steps that write a changed site: in memory it is dated when the last field is.
LEMMA WritingDated ==
    ASSUME Inv, Serially, Dated, NEW u \in Updaters, UpdateField(u) \/ UpdateRow(u)
    PROVE  Dated'
<1> DEFINE k     == call[u].field
           write == call[u].write
<1>1. /\ call[u].pc = "update" /\ call[u].pc # "idle" /\ UNCHANGED <<seen, clock, backend>>
      /\ call[u] \in [pc : {"update"}, new : Site, write : Site, field : 1..5]
      /\ CallCoherent(u) /\ OnlyCall(u) /\ InHand(u)
  BY CallTypes, OnlyCallFinds DEF UpdateField, UpdateRow, Inv, CoherenceInv, Dated
<1>2. write.LastChecked = clock /\ write.LastUpdated = clock /\ write.Content = call[u].new.Content
  BY <1>1 DEF CallCoherent, OnlyCall
<1>3. CASE UpdateRow(u)
  <2>1. call' = [call EXCEPT ![u] = Idle] /\ Idle.pc = "idle"
    BY <1>3 DEF UpdateRow, Return, Goto, Idle
  <2>2. Dates(site)'
    BY <1>1, <1>2, <1>3, WrittenDates DEF UpdateRow
  <2> QED  BY <1>1, <2>1, <2>2, OnlyCallDated
<1>4. CASE UpdateField(u)
  <2>1. site \in Site /\ write \in Site /\ k \in 1..5 /\ Len(Fields) = 5
    BY <1>1 DEF CallCoherent, Inv, CoherenceInv, TypeOK, Fields
  <2>2. site' = [site EXCEPT ![Fields[k]] = write[Fields[k]]]
    BY <1>4 DEF UpdateField
  <2>3. /\ site'.LastChecked = IF k = 1 THEN write.LastChecked ELSE site.LastChecked
        /\ site'.LastUpdated = IF k = 2 THEN write.LastUpdated ELSE site.LastUpdated
        /\ site'.Content     = IF k = 4 THEN write.Content ELSE site.Content
    <3> HIDE DEF k, write
    <3> QED  BY <2>1, <2>2, FieldAssigned, ZenonT(40)
  <2>4. /\ k > 1 => site.LastChecked = clock
        /\ k > 2 => site.LastUpdated = clock
        /\ k > 4 => site.Content = write.Content
    BY <1>1 DEF CallCoherent, OnlyCall, InHand
  <2>5. k > 1 => site'.LastUpdated = clock
    BY <1>2, <2>1, <2>3, <2>4
  <2>6. CASE k < 5
    <3>1. PICK c : /\ call' = [call EXCEPT ![u] = c] /\ c.new = call[u].new
                   /\ c.pc = "update" /\ c.field = k + 1
      <4>1. call' = [call EXCEPT ![u] = [call[u] EXCEPT !.field = k + 1]]
        BY <1>4, <2>1, <2>6 DEF UpdateField, Goto
      <4>2. LET c == [call[u] EXCEPT !.field = k + 1]
            IN  c.new = call[u].new /\ c.pc = "update" /\ c.field = k + 1
        BY <1>1
      <4> QED  BY <4>1, <4>2
    <3>2. Assigning(u)'
      <4>1. holder' = {u}
        BY <1>4, <2>1, <2>6 DEF UpdateField
      <4>2. call'[u].pc = "update"
        BY <3>1 DEF Inv, CoherenceInv, CallsTyped
      <4> QED  BY <4>1, <4>2 DEF Assigning
    <3>3. c.field > 2 => site'.LastUpdated = clock'
      BY <1>1, <2>1, <2>5, <3>1
    <3> QED  BY <1>1, <3>1, <3>2, <3>3, OnlyCallDated
  <2>7. CASE k = 5
    <3>1. call' = [call EXCEPT ![u] = Idle] /\ Idle.pc = "idle"
      BY <1>4, <2>1, <2>7 DEF UpdateField, Return, Goto, Idle
    <3>2. Dates(site)'
      BY <1>1, <1>2, <2>3, <2>4, <2>7, WrittenDates
    <3> QED  BY <1>1, <3>1, <3>2, OnlyCallDated
  <2> QED  BY <2>1, <2>6, <2>7
<1> QED  BY <1>3, <1>4

\* A statement that failed has written nothing, or what it would have written.
LEMMA FailingDated ==
    ASSUME Inv, Serially, Dated, NEW u \in Updaters, StorageFails(u)
    PROVE  Dated'
<1>1. /\ call[u].pc \in {"get", "add", "update", "touch"} /\ call[u].pc # "idle"
      /\ UNCHANGED <<seen, clock, backend>>
      /\ call' = [call EXCEPT ![u] = Idle] /\ Idle.pc = "idle"
      /\ ~ Assigning(u)
  BY DEF StorageFails, Goto, Idle, Assigning, Inv, CoherenceInv, CallsTyped
<1>2. OnlyCall(u) /\ CallCoherent(u)
  BY <1>1, OnlyCallFinds
<1>3. site' # NoSite => Dates(site)'
  <2>1. CASE UNCHANGED site
    BY <1>1, <2>1, OnlyCallFinds DEF Dates
  <2>2. CASE call[u].pc = "add" /\ site' = AsAdded(call[u].new)
    BY <1>1, <2>2, AddedDates
  <2>3. CASE call[u].pc = "update" /\ site' = call[u].write
    <3>1. /\ site'.LastChecked = clock /\ site'.LastUpdated = clock
          /\ site'.Content = call[u].new.Content
      BY <1>2, <2>3 DEF CallCoherent, OnlyCall
    <3> QED  BY <1>1, <3>1, WrittenDates
  <2>4. CASE call[u].pc = "touch" /\ site' = [call[u].copy EXCEPT !.LastChecked = call[u].new.LastChecked]
    <3>1. /\ call[u].copy = site /\ call[u].new.LastChecked = clock
          /\ site.Content.text = call[u].new.Content.text /\ site # NoSite
      BY <1>2, <2>4 DEF OnlyCall, CallCoherent
    <3> QED  BY <1>1, <2>4, <3>1, CheckedDates
  <2> QED  BY <2>1, <2>2, <2>3, <2>4 DEF StorageFails
<1> QED  BY <1>1, <1>3, OnlyCallDated

LEMMA NextDated == Inv /\ DatedInv /\ [Next]_vars => DatedInv'
<1> SUFFICES ASSUME Inv, DatedInv, [Next]_vars, ~ overlapped' PROVE Dated'
  BY DEF DatedInv
<1>1. ~ overlapped /\ Serially /\ Dated
  <2>1. overlapped => overlapped'
    BY DEF Next, Scrape, GetSite, AddSite, CompareChecksums, CompareContents, Touch, SaveRead,
           SaveWrite, UpdateField, UpdateRow, StorageFails, ReadSite, EncodeSite, vars
  <2> QED  BY <2>1 DEF Inv, SerialInv, DatedInv
<1>2. CASE UNCHANGED vars \/ ReadSite \/ EncodeSite
  <2>1. UNCHANGED <<backend, site, holder, call, clock, seen>>
    BY <1>2 DEF vars, ReadSite, EncodeSite
  <2> QED  BY <1>1, <2>1 DEF Dated, Dates, InHand, Assigning
<1>3. ASSUME NEW u \in Updaters, NEW content \in Contents, Scrape(u, content) PROVE Dated'
  BY <1>1, <1>3, ScrapeDated
<1> QED
  BY <1>1, <1>2, <1>3, LookingDated, CheckingDated, WritingDated, FailingDated DEF Next

\* Until calls overlap: whatever fails, the archived text is what the scrape of the time of
\* the latest check saw, and the archived content what the scrape of the time of the latest
\* update saw; without such a time, which only PostgreSQL has, the site has not changed.
THEOREM TimesOfScrapes == Spec => []TimesOfScrapesSerially
<1>1. Init => DatedInv
  BY DEF Init, DatedInv, Dated, InHand, Idle
<1>2. Inv /\ DatedInv => TimesOfScrapesSerially
  <2> SUFFICES ASSUME Inv, Dated, ~ overlapped, holder = {}, site # NoSite
               PROVE  /\ site.LastUpdated <= site.LastChecked
                      /\ Dates(site)
    BY DEF TimesOfScrapesSerially, DatedInv, Dates
  <2>1. site.LastUpdated <= site.LastChecked
    BY DEF Inv, SerialInv, Serially, Kept
  <2> QED  BY <2>1 DEF Dated, Assigning
<1> QED  BY <1>1, <1>2, ArchiveCorrect, NextDated, PTL DEF Spec
=============================================================================
