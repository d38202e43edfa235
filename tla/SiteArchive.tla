---------------------------- MODULE SiteArchive ----------------------------
(***************************************************************************)
(* The site archive service (service/archive.go) over the in-memory and    *)
(* the PostgreSQL storage of sites, for one subscription: sites of          *)
(* different subscriptions never meet.                                      *)
(*                                                                         *)
(* Exporters call Update with the results of scrapes.  Update reads the    *)
(* archived site, compares, and writes, without anything that keeps other  *)
(* calls out in between; scraping rounds that overlap (see Watcher) and    *)
(* several servers on one database make such calls concurrent.  HTTP        *)
(* requests read the site at the same time.                                 *)
(*                                                                         *)
(* The backends differ in what Get returns.  The in-memory storage returns *)
(* a pointer to the archived object itself: it is compared, read and even  *)
(* written outside the mutex, while Update, which holds the mutex, assigns  *)
(* its fields one after another.  A field is read and written at once.      *)
(* PostgreSQL returns a copy and writes a row at once, and any statement    *)
(* may fail, before it had its effect or after.                             *)
(*                                                                         *)
(* A content is a text and the whitespace in it.  A checksum identifies a   *)
(* content and is represented by it; a diff is the pair of contents.        *)
(***************************************************************************)
EXTENDS Integers, Sequences

CONSTANTS
    Backends,       \* the storage backends: a subset of {"memory", "postgres"}
    Updaters,       \* goroutines that call Update
    Contents,       \* records with fields text and space
    MaxScrapes,     \* bound on the number of scrapes
    NoSite          \* the site is not in the archive

ASSUME ArchiveAssumption ==
    /\ Backends \subseteq {"memory", "postgres"}
    /\ MaxScrapes \in Nat

VARIABLES
    backend,    \* the backend the server was started with
    site,       \* the archived site, or NoSite
    holder,     \* who holds the mutex of the in-memory storage: a set of updaters
    call,       \* updater -> where its call of Update is, and its local variables
    clock,      \* the time of the latest scrape
    seen,       \* the contents that were scraped, one at each time (history)
    acked,      \* the latest scrape result whose Update returned no error, or NoSite
    reader,     \* the HTTP request that reads the site
    overlapped  \* whether two calls of Update have been under way at once (history)

vars == <<backend, site, holder, call, clock, seen, acked, reader, overlapped>>

NoDiff == <<>>

Site == [LastUpdated : 0..MaxScrapes,
         LastChecked : 0..MaxScrapes,
         Content     : Contents,
         Checksum    : Contents,
         Diff        : {NoDiff} \cup (Contents \X Contents)]

ASSUME NoSiteAssumption == NoSite \notin Site

Idle == [pc |-> "idle"]

Init ==
    /\ backend \in Backends
    /\ site = NoSite
    /\ holder = {}
    /\ call = [u \in Updaters |-> Idle]
    /\ clock = 0
    /\ seen = <<>>
    /\ acked = NoSite
    /\ reader = [pc |-> "idle", got |-> NoSite]
    /\ overlapped = FALSE

\* DiffText ignores whitespace.
DiffText(old, new) == IF old.text = new.text THEN NoDiff ELSE <<old, new>>

\* What a scrape at a time yields: newParseFunc leaves LastUpdated and Diff zero.
ScrapeResult(time, content) ==
    [LastUpdated |-> 0,
     LastChecked |-> time,
     Content     |-> content,
     Checksum    |-> content,
     Diff        |-> NoDiff]

Goto(u, state) == call' = [call EXCEPT ![u] = state]

\* Update returns without an error.
Return(u) ==
    /\ Goto(u, Idle)
    /\ acked' = IF acked = NoSite \/ acked.LastChecked < call[u].new.LastChecked
                THEN call[u].new ELSE acked

----------------------------------------------------------------------------
(* Update.                                                                  *)

\* A site is scraped, and the exporter calls Update with the result.
Scrape(u, content) ==
    /\ call[u] = Idle
    /\ clock < MaxScrapes
    /\ clock' = clock + 1
    /\ seen' = Append(seen, content)
    /\ Goto(u, [pc |-> "get", new |-> ScrapeResult(clock + 1, content)])
    /\ overlapped' = (overlapped \/ \E v \in Updaters : call[v] # Idle)
    /\ UNCHANGED <<backend, site, holder, acked, reader>>

\* storage.Get; the copy is what PostgreSQL returns.
GetSite(u) ==
    /\ call[u].pc = "get"
    /\ holder = {}
    /\ Goto(u, IF site = NoSite
               THEN [pc |-> "add", new |-> call[u].new]
               ELSE [pc |-> "compare", new |-> call[u].new, copy |-> site])
    /\ UNCHANGED <<backend, site, holder, clock, seen, acked, reader, overlapped>>

\* archivedSite as it is read: the live object, or the copy of the row.
Archived(u) == IF backend = "memory" THEN site ELSE call[u].copy

\* storage.Add: the in-memory storage sets LastUpdated, PostgreSQL inserts what it gets.
AsAdded(new) ==
    IF backend = "memory" THEN [new EXCEPT !.LastUpdated = new.LastChecked, !.Diff = NoDiff]
    ELSE new

\* A site that was added in the meantime is an error, and the result is dropped.
AddSite(u) ==
    /\ call[u].pc = "add"
    /\ holder = {}
    /\ \/ /\ site = NoSite
          /\ site' = AsAdded(call[u].new)
          /\ Return(u)
       \/ /\ site # NoSite
          /\ Goto(u, Idle)
          /\ UNCHANGED <<site, acked>>
    /\ UNCHANGED <<backend, holder, clock, seen, reader, overlapped>>

\* The checksums are compared; in memory, the contents are read later.
CompareChecksums(u) ==
    /\ call[u].pc = "compare"
    /\ Goto(u, [call[u] EXCEPT !.pc = IF Archived(u).Checksum # call[u].new.Checksum
                                      THEN "diff" ELSE "touch"])
    /\ UNCHANGED <<backend, site, holder, clock, seen, acked, reader, overlapped>>

\* Mutants: the times are assigned the wrong way round, or only one of them.
UpdatedSwapped(new, diff) == [new EXCEPT !.Diff = diff, !.LastChecked = new.LastUpdated]
UpdatedUndated(new, diff) == [new EXCEPT !.Diff = diff]

\* The site to write when there is a diff.
Updated(new, diff) == [new EXCEPT !.Diff = diff, !.LastUpdated = new.LastChecked]

\* No diff in spite of different checksums: the site is treated as not changed.
CompareContents(u) ==
    /\ call[u].pc = "diff"
    /\ LET new  == call[u].new
           diff == DiffText(Archived(u).Content, new.Content)
       IN  Goto(u, IF diff = NoDiff THEN [call[u] EXCEPT !.pc = "touch"]
                   ELSE [pc |-> "update", new |-> new, write |-> Updated(new, diff), field |-> 1])
    /\ UNCHANGED <<backend, site, holder, clock, seen, acked, reader, overlapped>>

\* Mutant: a site that did not change is not marked checked.
TouchNothing(u) ==
    /\ call[u].pc = "touch"
    /\ Return(u)
    /\ UNCHANGED <<backend, site, holder, clock, seen, reader, overlapped>>

\* Content unchanged: LastChecked is assigned to archivedSite.  In memory that is
\* the archive itself, without the mutex, before the object is saved over itself;
\* with PostgreSQL the statement that follows writes the whole copy back.
Touch(u) ==
    /\ call[u].pc = "touch"
    /\ site' = [Archived(u) EXCEPT !.LastChecked = call[u].new.LastChecked]
    /\ IF backend = "memory"
       THEN /\ Goto(u, [pc |-> "save", new |-> call[u].new])
            /\ UNCHANGED acked
       ELSE Return(u)
    /\ UNCHANGED <<backend, holder, clock, seen, reader, overlapped>>

\* storage.Update of the archived object with itself, under the mutex.  Only
\* LastChecked, which others assign without the mutex, can differ between the read
\* and the write of a field.
SaveRead(u) ==
    /\ call[u].pc = "save"
    /\ holder = {}
    /\ holder' = {u}
    /\ Goto(u, [pc |-> "saving", new |-> call[u].new, checked |-> site.LastChecked])
    /\ UNCHANGED <<backend, site, clock, seen, acked, reader, overlapped>>

\* Mutant: the mutex is not released.
SaveHolding(u) ==
    /\ call[u].pc = "saving"
    /\ site' = [site EXCEPT !.LastChecked = call[u].checked]
    /\ Return(u)
    /\ UNCHANGED <<backend, holder, clock, seen, reader, overlapped>>

SaveWrite(u) ==
    /\ call[u].pc = "saving"
    /\ site' = [site EXCEPT !.LastChecked = call[u].checked]
    /\ holder' = {}
    /\ Return(u)
    /\ UNCHANGED <<backend, clock, seen, reader, overlapped>>

\* Mutant: the checksum is forgotten.
FieldsButChecksum == <<"LastChecked", "LastUpdated", "Diff", "Content">>

\* The fields in the order in which storage.Update assigns them.
Fields == <<"LastChecked", "LastUpdated", "Diff", "Content", "Checksum">>

\* storage.Update of a changed site in memory: field after field, under the mutex.
UpdateField(u) ==
    /\ backend = "memory"
    /\ call[u].pc = "update"
    /\ holder \subseteq {u}
    /\ LET k == call[u].field
       IN  /\ site' = [site EXCEPT ![Fields[k]] = call[u].write[Fields[k]]]
           /\ IF k < Len(Fields)
              THEN /\ holder' = {u}
                   /\ Goto(u, [call[u] EXCEPT !.field = k + 1])
                   /\ UNCHANGED acked
              ELSE /\ holder' = {}
                   /\ Return(u)
    /\ UNCHANGED <<backend, clock, seen, reader, overlapped>>

\* storage.Update in PostgreSQL: one statement.
UpdateRow(u) ==
    /\ backend = "postgres"
    /\ call[u].pc = "update"
    /\ site' = call[u].write
    /\ Return(u)
    /\ UNCHANGED <<backend, holder, clock, seen, reader, overlapped>>

\* A statement fails, or the connection does before the answer to a statement that
\* had its effect; Update returns the error, which the exporter only logs.
StorageFails(u) ==
    /\ backend = "postgres"
    /\ \/ /\ call[u].pc \in {"get", "add", "update", "touch"}
          /\ UNCHANGED site
       \/ /\ call[u].pc = "add" /\ site = NoSite
          /\ site' = AsAdded(call[u].new)
       \/ /\ call[u].pc = "update"
          /\ site' = call[u].write
       \/ /\ call[u].pc = "touch"
          /\ site' = [call[u].copy EXCEPT !.LastChecked = call[u].new.LastChecked]
    /\ Goto(u, Idle)
    /\ UNCHANGED <<backend, holder, clock, seen, acked, reader, overlapped>>

----------------------------------------------------------------------------
(* The request that gets the site.                                          *)

ReadSite ==
    /\ reader.pc = "idle"
    /\ holder = {}
    /\ reader' = [pc |-> "encode", got |-> site]
    /\ UNCHANGED <<backend, site, holder, call, clock, seen, acked, overlapped>>

\* The response is encoded: in memory from the live object, if one was found.
EncodeSite ==
    /\ reader.pc = "encode"
    /\ reader' = [pc  |-> "idle",
                  got |-> IF backend = "memory" /\ reader.got # NoSite THEN site
                          ELSE reader.got]
    /\ UNCHANGED <<backend, site, holder, call, clock, seen, acked, overlapped>>

Next ==
    \/ \E u \in Updaters :
          \/ \E content \in Contents : Scrape(u, content)
          \/ GetSite(u) \/ AddSite(u) \/ CompareChecksums(u) \/ CompareContents(u)
          \/ Touch(u) \/ SaveRead(u) \/ SaveWrite(u)
          \/ UpdateField(u) \/ UpdateRow(u) \/ StorageFails(u)
    \/ ReadSite
    \/ EncodeSite

Spec == Init /\ [][Next]_vars

----------------------------------------------------------------------------
(* Properties that hold for concurrent calls.                               *)

\* Types; and the mutex is held by at most one updater, which is inside
\* storage.Update: every return of memDB.Update releases the mutex.
TypeOK ==
    /\ backend \in Backends
    /\ site \in Site \cup {NoSite}
    /\ acked \in Site \cup {NoSite}
    /\ reader.got \in Site \cup {NoSite}
    /\ clock \in 0..MaxScrapes
    /\ seen \in Seq(Contents) /\ Len(seen) = clock
    /\ overlapped \in BOOLEAN
    /\ \A u \in holder : holder = {u} /\ call[u].pc \in {"update", "saving"}

\* The parts of a site that must come from the same scrape.
Coherent(s) ==
    /\ s.Checksum = s.Content
    /\ s.Diff # NoDiff => s.Diff[2] = s.Content

\* While nobody is inside memDB.Update, checksum, diff and content of the archived
\* site belong together, whichever calls of siteArchive.Update interleave: a late
\* write of an unchanged site never mixes its fields with those of a changed one.
SiteCoherent == holder = {} /\ site # NoSite => Coherent(site)

----------------------------------------------------------------------------
(* Properties that hold until calls of Update for the site overlap.         *)

\* siteArchive.Update is "updating the archive with the results of the latest
\* scrape": between calls the archive knows the latest scrape that was
\* acknowledged, and the text it saw, unless a failed call stored a later one.
LatestScrapeKept ==
    (\A u \in Updaters : call[u] = Idle) /\ acked # NoSite =>
        /\ site.LastChecked >= acked.LastChecked
        /\ site.LastChecked = acked.LastChecked => site.Content.text = acked.Content.text

\* With both backends, and however statements fail, calls of siteArchive.Update
\* that come one after the other keep the latest scrape.
LatestScrapeKeptSerially == ~ overlapped => LatestScrapeKept

\* The time of the last check does not go back, whichever branch of
\* siteArchive.Update writes it.
CheckedForwardSerially ==
    [][~ overlapped' /\ site # NoSite => site'.LastChecked >= site.LastChecked]_vars

\* Outside memDB.Update, the times of the archived site are those of scrapes that
\* saw it: the latest check saw its text, and the latest update brought its very
\* content.  No time of an update is known only of a site that PostgreSQL was given by
\* a first scrape and that has not changed since; the in-memory storage always knows one.
TimesOfScrapesSerially ==
    ~ overlapped /\ holder = {} /\ site # NoSite =>
        /\ site.LastUpdated <= site.LastChecked
        /\ seen[site.LastChecked].text = site.Content.text
        /\ site.LastUpdated > 0 => seen[site.LastUpdated] = site.Content
        /\ site.LastUpdated = 0 => backend = "postgres" /\ site.Diff = NoDiff

----------------------------------------------------------------------------
(* A property that the code does not have.                                  *)

\* siteArchive.Get (service/archive.go:73) "is returning metadata, checksum and
\* content of a site": the parts of a response come from one scrape.
ResponseCoherent == reader.pc = "idle" /\ reader.got # NoSite => Coherent(reader.got)
=============================================================================
