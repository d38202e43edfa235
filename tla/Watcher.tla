------------------------------ MODULE Watcher ------------------------------
(***************************************************************************)
(* The watcher (watcher/watcher.go) with the scrapers and exporters it      *)
(* runs (scraper/scraper.go, exporter/exporter.go).                        *)
(*                                                                         *)
(* The goroutine of Start runs one round after another.  RunScrapers starts *)
(* the worker goroutines of a round, sends them batches of subscriptions    *)
(* over a channel, closes it and waits.  A worker runs one scraper per      *)
(* batch; a scraper requests all sites of its batch concurrently, each      *)
(* parse callback sends its result to the scraper's Exports channel, and an *)
(* exporter goroutine moves the results from there to the archive.  A       *)
(* round has a context of its own, which ends when Start's context is      *)
(* cancelled or when the interval is over.                                  *)
(*                                                                         *)
(* The scraping library (geziyor) is not part of the repository.  What it   *)
(* does is taken from how the repository uses it and its tests rely on it:  *)
(* Start runs the exporters, waits until every request's callback returned, *)
(* closes Exports, waits for the exporters, and returns.  The tests read    *)
(* the archive as soon as Start or RunScrapers has returned                 *)
(* (scraper_test.go:47-50, watcher_test.go:145-149); the comment of        *)
(* RunScrapers, watcher.go:109, says that "there still might be exporters   *)
(* processing the results" then.  The model follows the tests.              *)
(*                                                                         *)
(* Time is abstract: the ticker may tick and a round's time may be over at  *)
(* any moment.  A request always ends, if only by the client's timeout.     *)
(***************************************************************************)
EXTENDS Integers, Sequences, FiniteSets, Functions

CONSTANTS
    ScrapeLists,    \* what GenerateScrapeList may return: sequences of sites
    BatchSize,      \* w.batchSize
    MaxThreads,     \* bound on w.threads
    ExportsCap,     \* capacity of a scraper's Exports channel
    MaxWorkers,     \* bound on the workers running at a time
    MaxScraped      \* bound on the subscriptions scraped at a time

ASSUME WatcherAssumption ==
    /\ BatchSize \in Nat \ {0}
    /\ MaxThreads \in Nat \ {0}
    /\ ExportsCap \in Nat \ {0}
    /\ MaxWorkers \in Nat \ {0}
    /\ MaxScraped \in Nat

VARIABLES
    threads,    \* w.threads, an option of the watcher that never changes
    pc,         \* where Start is: "generate", "send", "wait", "select", "returned"
    round,      \* the latest round
    cancelled,  \* the context of Start is cancelled
    ticked,     \* a tick waits in ticker.C
    expired,    \* round -> the interval is over since the round began
    list,       \* round -> the subscriptions to scrape
    next,       \* position of the first subscription not sent yet
    batches,    \* round -> the channel to the workers
    closed,     \* round -> that channel is closed
    result,     \* round -> what RunScrapers returned, or "none"
    worker,     \* <<round, thread>> -> the worker and the scraper it runs
    archived,   \* round -> sites the archive was updated with
    failed      \* round -> sites with an error that was logged and dropped

context == <<cancelled, expired>>
work    == <<threads, round, list>>
channel == <<batches, closed>>
outcome == <<archived, failed>>
vars == <<pc, work, next, context, ticked, channel, result, worker, outcome>>

\* The number of a round is used again when all its workers have returned.
Rounds  == 1..MaxWorkers
Workers == Rounds \X (1..MaxThreads)
Sites   == UNION {Range(l) : l \in ScrapeLists}

\* GenerateScrapeList returns no site twice (see ScrapeList).
ASSUME ListsAssumption == \A l \in ScrapeLists : l \in Seq(Sites) /\ IsInjective(l)

\* fetching: requests under way; parsed: callbacks that want to send a result;
\* exports: the Exports channel, open until closed; exporter: its goroutine.
WorkerState ==
    [pc       : {"absent", "ready", "scraping", "done"},
     fetching : SUBSET Sites,
     parsed   : SUBSET Sites,
     exports  : Seq(Sites),
     open     : BOOLEAN,
     exporter : {"receive", "check", "gone"}]

NotScraping(state) ==
    [pc |-> state, fetching |-> {}, parsed |-> {}, exports |-> <<>>,
     open |-> FALSE, exporter |-> "gone"]

NewScraper(batch) ==
    [pc |-> "scraping", fetching |-> Range(batch), parsed |-> {}, exports |-> <<>>,
     open |-> TRUE, exporter |-> "receive"]

Init ==
    /\ threads \in 1..MaxThreads
    /\ pc = "generate"
    /\ round = 0
    /\ cancelled = FALSE
    /\ ticked = FALSE
    /\ expired = [r \in Rounds |-> FALSE]
    /\ list = [r \in Rounds |-> <<>>]
    /\ next = 1
    /\ batches = [r \in Rounds |-> <<>>]
    /\ closed = [r \in Rounds |-> FALSE]
    /\ result = [r \in Rounds |-> "none"]
    /\ worker = [w \in Workers |-> NotScraping("absent")]
    /\ archived = [r \in Rounds |-> {}]
    /\ failed = [r \in Rounds |-> {}]

\* tctx.Done(): the context of a round.
Done(r) == cancelled \/ expired[r]

----------------------------------------------------------------------------
(* The environment.                                                         *)

Cancel ==
    /\ ~ cancelled
    /\ cancelled' = TRUE
    /\ UNCHANGED <<pc, work, next, expired, ticked, channel, result, worker, outcome>>

\* ticker.C holds one tick; further ticks are dropped.
Tick ==
    /\ ~ ticked
    /\ ticked' = TRUE
    /\ UNCHANGED <<pc, work, next, context, channel, result, worker, outcome>>

\* The timer of a round is stopped when its context is cancelled.
Timeout(r) ==
    /\ worker[<<r, 1>>].pc # "absent"
    /\ ~ Done(r)
    /\ expired' = [expired EXCEPT ![r] = TRUE]
    /\ UNCHANGED <<pc, work, next, cancelled, ticked, channel, result, worker, outcome>>

----------------------------------------------------------------------------
(* The goroutine of Start.                                                  *)

\* A round that has begun, and has workers that have not returned.
Running(r) == \E t \in 1..threads : worker[<<r, t>>].pc \notin {"absent", "done"}

\* For the bound: how much is scraped in the rounds that still have workers.
Scraped == FoldFunction(LAMBDA l, n : n + Len(l), 0,
                        [r \in Rounds |-> IF Running(r) THEN list[r] ELSE <<>>])

\* GenerateScrapeList succeeds; RunScrapers makes the round's context and channel
\* and starts its workers.  Workers of earlier rounds may still be running.
StartRound ==
    /\ pc = "generate"
    /\ \E r \in Rounds :
          /\ ~ Running(r) /\ \A q \in 1..(r - 1) : Running(q)
          /\ r * threads <= MaxWorkers
          /\ round' = r
          /\ expired' = [expired EXCEPT ![r] = FALSE]
          /\ \E l \in ScrapeLists :
                /\ Scraped + Len(l) <= MaxScraped
                /\ list' = [list EXCEPT ![r] = l]
          /\ batches' = [batches EXCEPT ![r] = <<>>]
          /\ closed' = [closed EXCEPT ![r] = FALSE]
          /\ result' = [result EXCEPT ![r] = "none"]
          /\ worker' = [w \in Workers |->
                           IF w[1] = r /\ w[2] <= threads THEN NotScraping("ready") ELSE worker[w]]
          /\ archived' = [archived EXCEPT ![r] = {}]
          /\ failed' = [failed EXCEPT ![r] = {}]
    /\ next' = 1
    /\ pc' = "send"
    /\ UNCHANGED <<threads, cancelled, ticked>>

\* GenerateScrapeList fails, and with it Start.
GenerateFails ==
    /\ pc = "generate"
    /\ pc' = "returned"
    /\ UNCHANGED <<work, next, context, ticked, channel, result, worker, outcome>>

LastOfBatch ==
    IF next + BatchSize - 1 < Len(list[round]) THEN next + BatchSize - 1 ELSE Len(list[round])

\* Mutant: the batch is cut one too late, and the next one begins with its end.
OverlappingBatch == IF LastOfBatch < Len(list[round]) THEN LastOfBatch + 1 ELSE LastOfBatch

BatchEnd == LastOfBatch

SendBatch ==
    /\ pc = "send"
    /\ next <= Len(list[round])
    /\ Len(batches[round]) < threads
    /\ batches' = [batches EXCEPT ![round] = Append(@, SubSeq(list[round], next, BatchEnd))]
    /\ next' = LastOfBatch + 1
    /\ UNCHANGED <<pc, work, context, ticked, closed, result, worker, outcome>>

\* The other branch of the select: return at once, with the channel left open
\* and the workers running.
SendInterrupted ==
    /\ pc = "send"
    /\ next <= Len(list[round])
    /\ Done(round)
    /\ result' = [result EXCEPT ![round] = "error"]
    /\ pc' = "select"
    /\ UNCHANGED <<work, next, context, ticked, channel, worker, outcome>>

CloseBatches ==
    /\ pc = "send"
    /\ next > Len(list[round])
    /\ closed' = [closed EXCEPT ![round] = TRUE]
    /\ pc' = "wait"
    /\ UNCHANGED <<work, next, context, ticked, batches, result, worker, outcome>>

\* Mutant: nobody waits for the workers.
NoWait == TRUE

WorkersFinished == \A t \in 1..threads : worker[<<round, t>>].pc = "done"

\* wg.Wait() returns.
AllFinished ==
    /\ pc = "wait"
    /\ WorkersFinished
    /\ result' = [result EXCEPT ![round] = "nil"]
    /\ pc' = "select"
    /\ UNCHANGED <<work, next, context, ticked, channel, worker, outcome>>

\* The select at the end of Start's loop.
NextTick ==
    /\ pc = "select"
    /\ ticked
    /\ ticked' = FALSE
    /\ pc' = "generate"
    /\ UNCHANGED <<work, next, context, channel, result, worker, outcome>>

ContextDone ==
    /\ pc = "select"
    /\ cancelled
    /\ pc' = "returned"
    /\ UNCHANGED <<work, next, context, ticked, channel, result, worker, outcome>>

StartStep ==
    \/ StartRound \/ SendBatch \/ SendInterrupted
    \/ CloseBatches \/ AllFinished \/ NextTick \/ ContextDone

----------------------------------------------------------------------------
(* The workers, and the scraper a worker runs.                              *)

Become(w, state) ==
    /\ worker' = [worker EXCEPT ![w] = state]
    /\ UNCHANGED <<pc, work, next, context, ticked, closed, result>>

TakeBatch(w) ==
    /\ worker[w].pc = "ready"
    /\ batches[w[1]] # <<>>
    /\ Become(w, NewScraper(Head(batches[w[1]])))
    /\ batches' = [batches EXCEPT ![w[1]] = Tail(@)]
    /\ UNCHANGED outcome

\* Mutant: only the closed channel ends a worker.
WorkerReturnsWhenClosed(w) ==
    /\ worker[w].pc = "ready"
    /\ closed[w[1]] /\ batches[w[1]] = <<>>
    /\ Become(w, NotScraping("done"))
    /\ UNCHANGED <<batches, outcome>>

\* The channel is closed and empty, or the round's context is done.
WorkerReturns(w) ==
    /\ worker[w].pc = "ready"
    /\ \/ closed[w[1]] /\ batches[w[1]] = <<>>
       \/ Done(w[1])
    /\ Become(w, NotScraping("done"))
    /\ UNCHANGED <<batches, outcome>>

WorkerStep(w) == TakeBatch(w) \/ WorkerReturns(w)

\* A response is parsed: its callback is about to send the result.
Parsed(w, s) ==
    /\ s \in worker[w].fetching
    /\ Become(w, [worker[w] EXCEPT !.fetching = @ \ {s}, !.parsed = @ \cup {s}])
    /\ UNCHANGED <<batches, outcome>>

\* No response, an error status, or a filter that does not compile.
NotParsed(w, s) ==
    /\ s \in worker[w].fetching
    /\ Become(w, [worker[w] EXCEPT !.fetching = @ \ {s}])
    /\ failed' = [failed EXCEPT ![w[1]] = @ \cup {s}]
    /\ UNCHANGED <<batches, archived>>

\* Mutant: the channel is unbounded.
SendAtOnce(w, s) ==
    /\ s \in worker[w].parsed
    /\ Become(w, [worker[w] EXCEPT !.parsed = @ \ {s}, !.exports = Append(@, s)])
    /\ UNCHANGED <<batches, outcome>>

\* g.Exports <- sa blocks while the channel is full.
SendResult(w, s) ==
    /\ s \in worker[w].parsed
    /\ Len(worker[w].exports) < ExportsCap
    /\ Become(w, [worker[w] EXCEPT !.parsed = @ \ {s}, !.exports = Append(@, s)])
    /\ UNCHANGED <<batches, outcome>>

RequestStep(w, s) == Parsed(w, s) \/ NotParsed(w, s) \/ SendResult(w, s)

CallbacksReturned(w) == worker[w].fetching \cup worker[w].parsed = {}

CloseExports(w) ==
    /\ worker[w].open
    /\ CallbacksReturned(w)
    /\ Become(w, [worker[w] EXCEPT !.open = FALSE])
    /\ UNCHANGED <<batches, outcome>>

ScraperReturns(w) ==
    /\ worker[w].pc = "scraping"
    /\ ~ worker[w].open
    /\ worker[w].exporter = "gone"
    /\ Become(w, NotScraping("ready"))
    /\ UNCHANGED <<batches, outcome>>

ScraperStep(w) == CloseExports(w) \/ ScraperReturns(w)

----------------------------------------------------------------------------
(* The exporter of a scraper.                                               *)

\* Mutant: the context is looked at before a result is taken, not after.
ExportUnlessDone(w) ==
    /\ worker[w].exporter = "receive"
    /\ \/ /\ Done(w[1])
          /\ Become(w, [worker[w] EXCEPT !.exporter = "gone"])
          /\ UNCHANGED <<batches, outcome>>
       \/ /\ ~ Done(w[1])
          /\ worker[w].exports # <<>>
          /\ Become(w, [worker[w] EXCEPT !.exports = Tail(@), !.exporter = "check"])
          /\ archived' = [archived EXCEPT ![w[1]] = @ \cup {Head(worker[w].exports)}]
          /\ UNCHANGED <<batches, failed>>

\* A result is received and the archive updated with it, or the error logged.
Export(w) ==
    /\ worker[w].exporter = "receive"
    /\ worker[w].exports # <<>>
    /\ Become(w, [worker[w] EXCEPT !.exports = Tail(@), !.exporter = "check"])
    /\ LET s == Head(worker[w].exports)
       IN  \/ /\ archived' = [archived EXCEPT ![w[1]] = @ \cup {s}]
              /\ UNCHANGED failed
           \/ /\ failed' = [failed EXCEPT ![w[1]] = @ \cup {s}]
              /\ UNCHANGED archived
    /\ UNCHANGED batches

\* After each result: leave when the round's context is done.
CheckContext(w) ==
    /\ worker[w].exporter = "check"
    /\ Become(w, [worker[w] EXCEPT !.exporter = IF Done(w[1]) THEN "gone" ELSE "receive"])
    /\ UNCHANGED <<batches, outcome>>

\* Mutant: the exporter does not wait for results still to come.
ExportEndsEarly(w) ==
    /\ worker[w].exporter = "receive"
    /\ worker[w].exports = <<>>
    /\ Become(w, [worker[w] EXCEPT !.exporter = "gone"])
    /\ UNCHANGED <<batches, outcome>>

\* The channel is closed and empty.
ExportEnds(w) ==
    /\ worker[w].exporter = "receive"
    /\ worker[w].exports = <<>>
    /\ ~ worker[w].open
    /\ Become(w, [worker[w] EXCEPT !.exporter = "gone"])
    /\ UNCHANGED <<batches, outcome>>

ExporterStep(w) == Export(w) \/ CheckContext(w) \/ ExportEnds(w)

----------------------------------------------------------------------------
Next ==
    \/ Cancel
    \/ Tick
    \/ \E r \in Rounds : Timeout(r)
    \/ StartStep
    \/ GenerateFails
    \/ \E w \in Workers :
          \/ WorkerStep(w)
          \/ ScraperStep(w)
          \/ ExporterStep(w)
          \/ \E s \in Sites : RequestStep(w, s)

\* Every goroutine that can run does run, every request ends and every timer
\* fires.  Nobody is obliged to cancel, nor GenerateScrapeList to fail.  A select
\* takes one of the ready branches at random: when Start finds its context done
\* again and again, it does not take the tick every time.
Fairness ==
    /\ WF_vars(Tick)
    /\ \A r \in Rounds : WF_vars(Timeout(r))
    /\ WF_vars(StartStep)
    /\ SF_vars(ContextDone)
    /\ \A w \in Workers :
          /\ WF_vars(WorkerStep(w))
          /\ WF_vars(ScraperStep(w))
          /\ WF_vars(ExporterStep(w))
          /\ \A s \in Sites : WF_vars(RequestStep(w, s))

Spec == Init /\ [][Next]_vars /\ Fairness
----------------------------------------------------------------------------
TypeOK ==
    /\ threads \in 1..MaxThreads
    /\ pc \in {"generate", "send", "wait", "select", "returned"}
    /\ round \in 0..MaxWorkers
    /\ cancelled \in BOOLEAN
    /\ ticked \in BOOLEAN
    /\ expired \in [Rounds -> BOOLEAN]
    /\ list \in [Rounds -> ScrapeLists \cup {<<>>}]
    /\ next \in Nat \ {0}
    /\ batches \in [Rounds -> Seq(Seq(Sites))]
    /\ \A r \in Rounds : Len(batches[r]) <= threads
    /\ closed \in [Rounds -> BOOLEAN]
    /\ result \in [Rounds -> {"none", "nil", "error"}]
    /\ worker \in [Workers -> WorkerState]
    /\ \A w \in Workers : Len(worker[w].exports) <= ExportsCap
    /\ archived \in [Rounds -> SUBSET Sites]
    /\ failed \in [Rounds -> SUBSET Sites]

\* The places a subscription of a round can be at.
Unsent(r) ==
    IF r = round /\ pc = "send" THEN {list[r][i] : i \in next..Len(list[r])} ELSE {}
InScraper(w) == worker[w].fetching \cup worker[w].parsed \cup Range(worker[w].exports)

\* A round handles each subscription of its list once: cutting the list into
\* batches, the channel, and workers taking batches concurrently neither repeat
\* a subscription nor hand it to two scrapers.
HandledOnce ==
    \A r \in Rounds :
        LET places == {[at |-> "unsent", nr |-> 0, sites |-> Unsent(r)],
                       [at |-> "handled", nr |-> 0, sites |-> archived[r] \cup failed[r]]}
              \cup {[at |-> "batch", nr |-> i, sites |-> Range(batches[r][i])] :
                       i \in DOMAIN batches[r]}
              \cup {[at |-> "worker", nr |-> t, sites |-> InScraper(<<r, t>>)] :
                       t \in 1..threads}
        IN  \A p, q \in places :
                p.at # q.at \/ p.nr # q.nr => p.sites \cap q.sites = {}

\* When RunScrapers returns nil before its time is over, every subscription of
\* the list was exported to the archive, or its error logged: no batch, request
\* or result is forgotten in a channel.  watcher_test.go:145-149 counts on it; the
\* comment of RunScrapers, watcher.go:109, does not promise it.
NilMeansHandled ==
    \A r \in Rounds :
        result[r] = "nil" /\ ~ Done(r) => archived[r] \cup failed[r] = Range(list[r])

\* An exporter leaves results behind only when the context of its round is done.
NothingAbandoned ==
    \A w \in Workers :
        worker[w].pc = "scraping" /\ worker[w].exporter = "gone" /\ InScraper(w) # {} =>
            Done(w[1])

\* RunScrapers returns, whenever the time of its round is over.  This takes a batch of
\* which the callbacks can return when the exporter has left: at most one more than
\* the Exports channel holds.  With the default batch of four and a channel of one it
\* is false for the reason CancelStops is, see run watcher_hangs.
RoundEnds == pc \in {"send", "wait"} ~> pc \notin {"send", "wait"}

\* No worker of a round is left for ever, although RunScrapers may return
\* without waiting for them.  For small batches only, as RoundEnds.
WorkersEnd == \A r \in Rounds : Running(r) ~> ~ Running(r)

\* watcher.go:184-185, Start "can be stopped by canceling the given context":
\* whatever round it is in, however many rounds it has run and however many ticks
\* there are to come.  For small batches only, as RoundEnds.
CancelStops == cancelled ~> pc = "returned"
=============================================================================
