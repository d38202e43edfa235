---------------------------- MODULE Watcher_proof ----------------------------
(***************************************************************************)
(* Proofs about Watcher, for any scrape lists, batch size, number of        *)
(* workers, and capacity of the Exports channels.                           *)
(***************************************************************************)
EXTENDS Watcher, TLAPS

\* Where the subscriptions of a round are, taken together.
Handled(r) == archived[r] \cup failed[r]
Batched(r) == UNION {Range(batches[r][n]) : n \in DOMAIN batches[r]}
Working(r) == UNION {InScraper(<<r, t>>) : t \in 1..threads}

\* A worker has a scraper only while it is scraping, and a subscription is at one place
\* in it.  A scraper closes Exports when all callbacks have returned, and its exporter
\* leaves before everything is exported only when the round's context is done.
WorkerInv(w) ==
    LET c == worker[w]
    IN  /\ c.pc # "scraping" => c = NotScraping(c.pc)
        /\ ~ c.open => c.fetching = {} /\ c.parsed = {}
        /\ c.fetching \cap c.parsed = {}
        /\ (c.fetching \cup c.parsed) \cap Range(c.exports) = {}
        /\ IsInjective(c.exports)
        /\ c.exporter = "gone" /\ ~ Done(w[1]) => ~ c.open /\ c.exports = <<>>
        /\ w[2] > threads => c.pc = "absent"
        /\ c.pc = "done" /\ ~ Done(w[1]) => closed[w[1]] /\ batches[w[1]] = <<>>

\* How far a round is.
Progress(r) ==
    /\ r = round /\ pc \in {"send", "wait"} => result[r] = "none"
    /\ r = round /\ pc = "send" => ~ closed[r]
    /\ result[r] = "nil" => \A t \in 1..threads : worker[<<r, t>>].pc = "done"

\* The subscriptions of a round are at one place each.
BatchesApart(r) ==
    \A m, n \in DOMAIN batches[r] : m # n => Range(batches[r][m]) \cap Range(batches[r][n]) = {}
ScrapersApart(r) ==
    \A t, u \in 1..threads : t # u => InScraper(<<r, t>>) \cap InScraper(<<r, u>>) = {}
Once(r) ==
    /\ Unsent(r) \cap (Batched(r) \cup Working(r) \cup Handled(r)) = {}
    /\ Batched(r) \cap (Working(r) \cup Handled(r)) = {}
    /\ Working(r) \cap Handled(r) = {}
    /\ BatchesApart(r)
    /\ ScrapersApart(r)

\* They are those of the list; and all of them, until the round's context is done.
Places(r) == Unsent(r) \cup Batched(r) \cup Working(r) \cup Handled(r)
Complete(r) ==
    /\ Places(r) \subseteq Range(list[r])
    /\ ~ Done(r) => Range(list[r]) \subseteq Places(r)

Inv ==
    /\ TypeOK
    /\ pc \in {"send", "wait"} => round \in Rounds
    /\ \A w \in Workers : WorkerInv(w)
    /\ \A r \in Rounds : Progress(r) /\ Once(r) /\ Complete(r)
----------------------------------------------------------------------------
(* Sequences.                                                               *)

\* What a channel holds after a send: one more, different if it was not there.
LEMMA RangeAppend ==
    ASSUME NEW S, NEW seq \in Seq(S), NEW x \in S
    PROVE  /\ Append(seq, x) \in Seq(S)
           /\ Len(Append(seq, x)) = Len(seq) + 1
           /\ Range(Append(seq, x)) = Range(seq) \cup {x}
           /\ IsInjective(seq) /\ x \notin Range(seq) => IsInjective(Append(seq, x))
<1>1. /\ Append(seq, x) \in Seq(S)
      /\ Len(seq) \in Nat /\ Len(Append(seq, x)) = Len(seq) + 1
      /\ DOMAIN seq = 1..Len(seq) /\ DOMAIN Append(seq, x) = 1..(Len(seq) + 1)
      /\ \A n \in 1..Len(seq) : Append(seq, x)[n] = seq[n]
      /\ Append(seq, x)[Len(seq) + 1] = x
  OBVIOUS
<1>2. DOMAIN Append(seq, x) = DOMAIN seq \cup {Len(seq) + 1}
  BY <1>1
<1>3. Range(Append(seq, x)) = Range(seq) \cup {x}
  BY <1>1, <1>2 DEF Range
<1>4. ASSUME IsInjective(seq), x \notin Range(seq) PROVE IsInjective(Append(seq, x))
  BY <1>1, <1>2, <1>4 DEF IsInjective, Range
<1> QED  BY <1>1, <1>3, <1>4

\* What a receive leaves.
LEMMA RangeTail ==
    ASSUME NEW S, NEW seq \in Seq(S), seq # <<>>
    PROVE  /\ Head(seq) \in S /\ Tail(seq) \in Seq(S)
           /\ Len(seq) \in Nat \ {0} /\ Len(Tail(seq)) = Len(seq) - 1
           /\ \A n \in DOMAIN Tail(seq) : n + 1 \in DOMAIN seq /\ Tail(seq)[n] = seq[n + 1]
           /\ 1 \in DOMAIN seq /\ seq[1] = Head(seq)
           /\ Range(seq) = {Head(seq)} \cup Range(Tail(seq))
           /\ IsInjective(seq) => IsInjective(Tail(seq)) /\ Head(seq) \notin Range(Tail(seq))
<1>1. /\ Head(seq) \in S /\ Tail(seq) \in Seq(S)
      /\ Len(seq) \in Nat \ {0} /\ Len(Tail(seq)) = Len(seq) - 1
      /\ DOMAIN seq = 1..Len(seq) /\ DOMAIN Tail(seq) = 1..(Len(seq) - 1)
      /\ \A n \in 1..(Len(seq) - 1) : Tail(seq)[n] = seq[n + 1]
      /\ Head(seq) = seq[1]
  OBVIOUS
<1>2. \A n \in DOMAIN Tail(seq) : n + 1 \in DOMAIN seq /\ Tail(seq)[n] = seq[n + 1]
  BY <1>1
<1>3. \A m \in DOMAIN seq : m = 1 \/ (m - 1 \in DOMAIN Tail(seq) /\ Tail(seq)[m - 1] = seq[m])
  BY <1>1
<1>4. Range(seq) = {Head(seq)} \cup Range(Tail(seq))
  <2>1. Range(seq) \subseteq {Head(seq)} \cup Range(Tail(seq))
    BY <1>1, <1>3 DEF Range
  <2>2. {Head(seq)} \cup Range(Tail(seq)) \subseteq Range(seq)
    BY <1>1, <1>2 DEF Range
  <2> QED  BY <2>1, <2>2
<1>5. ASSUME IsInjective(seq)
      PROVE  IsInjective(Tail(seq)) /\ Head(seq) \notin Range(Tail(seq))
  <2>1. IsInjective(Tail(seq))
    <3> SUFFICES ASSUME NEW m \in DOMAIN Tail(seq), NEW n \in DOMAIN Tail(seq),
                        Tail(seq)[m] = Tail(seq)[n]
                 PROVE  m = n
      BY DEF IsInjective
    <3>1. m + 1 = n + 1
      BY <1>2, <1>5 DEF IsInjective
    <3> QED  BY <3>1, <1>1
  <2>2. \A n \in DOMAIN Tail(seq) : n + 1 # 1
    BY <1>1
  <2>3. Head(seq) \notin Range(Tail(seq))
    BY <1>1, <1>2, <1>5, <2>2 DEF IsInjective, Range
  <2> QED  BY <2>1, <2>3
<1> QED  BY <1>1, <1>2, <1>4, <1>5

\* What a batch holds.
LEMMA RangeSubSeq ==
    ASSUME NEW S, NEW seq \in Seq(S), NEW m \in Nat \ {0}, NEW n \in 1..Len(seq)
    PROVE  /\ SubSeq(seq, m, n) \in Seq(S)
           /\ Range(SubSeq(seq, m, n)) = {seq[k] : k \in m..n}
<1>1. Len(seq) \in Nat /\ DOMAIN seq = 1..Len(seq) /\ m..n \subseteq DOMAIN seq
  OBVIOUS
<1>2. CASE m <= n
  <2>1. /\ SubSeq(seq, m, n) \in Seq(S) /\ Len(SubSeq(seq, m, n)) = n - m + 1
        /\ DOMAIN SubSeq(seq, m, n) = 1..(n - m + 1)
        /\ \A k \in 1..(n - m + 1) : SubSeq(seq, m, n)[k] = seq[m + k - 1]
    BY <1>1, <1>2
  <2>2. \A k \in m..n : k - m + 1 \in 1..(n - m + 1) /\ m + (k - m + 1) - 1 = k
    BY <1>1
  <2>3. \A k \in 1..(n - m + 1) : m + k - 1 \in m..n
    BY <1>1
  <2>4. ASSUME NEW k \in m..n PROVE seq[k] \in Range(SubSeq(seq, m, n))
    <3>1. SubSeq(seq, m, n)[k - m + 1] = seq[k]
      BY <2>1, <2>2
    <3> QED  BY <2>1, <2>2, <3>1 DEF Range
  <2>5. \A x \in Range(SubSeq(seq, m, n)) : x \in {seq[k] : k \in m..n}
    BY <2>1, <2>3 DEF Range
  <2> QED  BY <2>1, <2>4, <2>5
<1>3. CASE m > n
  <2>1. SubSeq(seq, m, n) = <<>>
    BY <1>1, <1>3
  <2>2. m..n = {}
    BY <1>1, <1>3
  <2> QED  BY <2>1, <2>2 DEF Range
<1> QED  BY <1>2, <1>3

----------------------------------------------------------------------------
(* Steps that move no subscription.                                         *)

\* The shape of the state.
LEMMA Shapes ==
    ASSUME Inv
    PROVE  /\ threads \in Nat \ {0} /\ threads <= MaxThreads /\ round \in Nat
           /\ MaxThreads \in Nat /\ MaxWorkers \in Nat
           /\ \A r \in Rounds, t \in 1..threads : <<r, t>> \in Workers
           /\ \A w \in Workers : w = <<w[1], w[2]>> /\ w[1] \in Rounds /\ w[2] \in 1..MaxThreads
<1>1. threads \in 1..MaxThreads /\ round \in 0..MaxWorkers /\ MaxThreads \in Nat
      /\ MaxWorkers \in Nat
  BY WatcherAssumption DEF Inv, TypeOK
<1>2. \A r \in Rounds, t \in 1..threads : <<r, t>> \in Workers
  BY <1>1 DEF Workers
<1>3. \A w \in Workers : w = <<w[1], w[2]>> /\ w[1] \in Rounds /\ w[2] \in 1..MaxThreads
  BY DEF Workers
<1> QED  BY <1>1, <1>2, <1>3

\* What is right of a worker stays so while its round goes on, or ends.
LEMMA WorkerStays ==
    ASSUME NEW w \in Workers, WorkerInv(w), worker'[w] = worker[w], threads' = threads,
           Done(w[1]) => Done(w[1])',
           ~ Done(w[1])' /\ worker[w].pc = "done" /\ closed[w[1]] /\ batches[w[1]] = <<>> =>
               closed'[w[1]] /\ batches'[w[1]] = <<>>
    PROVE  WorkerInv(w)'
BY DEF WorkerInv

\* Steps of Start and of the clocks, which touch no channel and no worker.
LEMMA StillInv ==
    ASSUME Inv, UNCHANGED <<work, batches, worker, outcome>>, TypeOK',
           pc' \in {"send", "wait"} => round \in Rounds,
           \A r \in Rounds : Done(r) => Done(r)',
           \A r \in Rounds : closed[r] => closed'[r],
           \A r \in Rounds : Unsent(r)' = Unsent(r) \/ (Unsent(r)' = {} /\ Done(r)'),
           \A r \in Rounds : Progress(r)'
    PROVE  Inv'
<1>1. /\ threads' = threads /\ round' = round /\ list' = list /\ batches' = batches
      /\ worker' = worker /\ archived' = archived /\ failed' = failed
  BY DEF work, outcome
<1>2. ASSUME NEW w \in Workers PROVE WorkerInv(w)'
  BY <1>1, <1>2, Shapes, WorkerStays DEF Inv
<1>3. ASSUME NEW r \in Rounds PROVE Once(r)' /\ Complete(r)'
  <2>1. /\ Batched(r)' = Batched(r) /\ Working(r)' = Working(r) /\ Handled(r)' = Handled(r)
        /\ \A w : InScraper(w)' = InScraper(w)
    BY <1>1 DEF Batched, Working, Handled, InScraper
  <2>2. Once(r) /\ Complete(r)
    BY DEF Inv
  <2>3. Once(r)'
    BY <1>1, <2>1, <2>2 DEF Once, BatchesApart, ScrapersApart
  <2>4. Complete(r)'
    BY <1>1, <2>1, <2>2 DEF Complete, Places
  <2> QED  BY <2>3, <2>4
<1> QED  BY <1>1, <1>2, <1>3 DEF Inv

\* The clocks, and whoever cancels.
LEMMA EnvironmentInv ==
    ASSUME Inv, Cancel \/ Tick \/ \E r \in Rounds : Timeout(r)
    PROVE  Inv'
<1>1. /\ UNCHANGED <<pc, next, work, batches, closed, result, worker, outcome>>
      /\ cancelled => cancelled'
      /\ \A r \in Rounds : Done(r) => Done(r)'
  BY DEF Cancel, Tick, Timeout, channel, context, Done, Inv, TypeOK
<1>2. threads' = threads /\ round' = round /\ list' = list
      /\ archived' = archived /\ failed' = failed
  BY <1>1 DEF work, outcome
<1>3. TypeOK'
  <2>1. cancelled' \in BOOLEAN /\ ticked' \in BOOLEAN /\ expired' \in [Rounds -> BOOLEAN]
    BY DEF Cancel, Tick, Timeout, context, Inv, TypeOK
  <2> QED  BY <1>1, <1>2, <2>1 DEF Inv, TypeOK
<1>4. \A r \in Rounds : Unsent(r)' = Unsent(r) /\ Progress(r)'
  BY <1>1, <1>2 DEF Unsent, Progress, Handled, Inv
<1> QED  BY <1>1, <1>3, <1>4, StillInv DEF Inv

\* Start, between its rounds and at the end of sending.
LEMMA StartStillInv ==
    ASSUME Inv, GenerateFails \/ SendInterrupted \/ CloseBatches \/ AllFinished
                \/ NextTick \/ ContextDone
    PROVE  Inv'
<1>1. /\ UNCHANGED <<work, batches, worker, outcome, next, cancelled, expired>>
      /\ \A r \in Rounds : Done(r)' = Done(r)
  BY DEF GenerateFails, SendInterrupted, CloseBatches, AllFinished, NextTick, ContextDone,
         channel, context, Done
<1>2. /\ threads' = threads /\ round' = round /\ list' = list
      /\ archived' = archived /\ failed' = failed
  BY <1>1 DEF work, outcome
<1>3. pc \in {"send", "wait"} => round \in Rounds
  BY DEF Inv
<1>4. pc' \in {"send", "wait"} => round \in Rounds
  BY <1>3 DEF GenerateFails, SendInterrupted, CloseBatches, AllFinished, NextTick, ContextDone
<1>5. TypeOK'
  <2>1. /\ pc' \in {"generate", "send", "wait", "select", "returned"}
        /\ ticked' \in BOOLEAN
        /\ closed' \in [Rounds -> BOOLEAN]
        /\ result' \in [Rounds -> {"none", "nil", "error"}]
    BY DEF GenerateFails, SendInterrupted, CloseBatches, AllFinished, NextTick, ContextDone,
           channel, Inv, TypeOK
  <2> QED  BY <1>1, <1>2, <2>1 DEF Inv, TypeOK
<1>6. \A r \in Rounds : closed[r] => closed'[r]
  BY DEF GenerateFails, SendInterrupted, CloseBatches, AllFinished, NextTick, ContextDone,
         channel, Inv, TypeOK
<1>7. ASSUME NEW r \in Rounds
      PROVE  Unsent(r)' = Unsent(r) \/ (Unsent(r)' = {} /\ Done(r)')
  <2>1. CASE SendInterrupted
    BY <1>1, <1>2, <2>1 DEF SendInterrupted, Unsent
  <2>2. CASE CloseBatches
    <3>1. r = round => Unsent(r) = {}
      BY <2>2, Shapes DEF CloseBatches, Unsent, Inv, TypeOK
    <3> QED  BY <1>2, <2>2, <3>1 DEF CloseBatches, Unsent
  <2>3. CASE GenerateFails \/ AllFinished \/ NextTick \/ ContextDone
    BY <1>1, <1>2, <2>3 DEF GenerateFails, AllFinished, NextTick, ContextDone, Unsent
  <2> QED  BY <2>1, <2>2, <2>3
<1>8. ASSUME NEW r \in Rounds PROVE Progress(r)'
  <2>1. Progress(r) /\ Handled(r)' = Handled(r)
    BY <1>2 DEF Inv, Handled
  <2>2. CASE SendInterrupted
    BY <1>1, <1>2, <1>3, <2>1, <2>2, Shapes DEF SendInterrupted, channel, Progress, Inv, TypeOK
  <2>3. CASE CloseBatches
    BY <1>1, <1>2, <1>3, <2>1, <2>3, Shapes DEF CloseBatches, Progress, Inv, TypeOK
  <2>4. CASE AllFinished
    BY <1>1, <1>2, <1>3, <2>1, <2>4, Shapes
       DEF AllFinished, WorkersFinished, channel, Progress, Inv, TypeOK
  <2>5. CASE GenerateFails \/ NextTick \/ ContextDone
    BY <1>1, <1>2, <2>1, <2>5 DEF GenerateFails, NextTick, ContextDone, channel, Progress
  <2> QED  BY <2>2, <2>3, <2>4, <2>5
<1> QED  BY <1>1, <1>4, <1>5, <1>6, <1>7, <1>8, StillInv

----------------------------------------------------------------------------
(* A round begins, and its list is cut into batches.                        *)

\* The list of a round.
LEMMA ListOf ==
    ASSUME Inv, NEW r \in Rounds
    PROVE  /\ list[r] \in Seq(Sites) /\ IsInjective(list[r])
           /\ Len(list[r]) \in Nat /\ DOMAIN list[r] = 1..Len(list[r])
<1>1. list[r] \in ScrapeLists \cup {<<>>}
  BY DEF Inv, TypeOK
<1>2. CASE list[r] = <<>>
  BY <1>2 DEF IsInjective
<1>3. CASE list[r] \in ScrapeLists
  BY <1>3, ListsAssumption
<1> QED  BY <1>1, <1>2, <1>3

\* A worker without a scraper has nothing in hand.
LEMMA NothingScraped ==
    ASSUME NEW state \in {"absent", "ready", "done"}
    PROVE  LET c == NotScraping(state)
           IN  /\ c \in WorkerState /\ c.pc = state /\ ~ c.open /\ c.exporter = "gone"
               /\ c.fetching = {} /\ c.parsed = {} /\ c.exports = <<>> /\ Len(c.exports) = 0
               /\ Range(c.exports) = {} /\ IsInjective(c.exports)
BY DEF NotScraping, WorkerState, Range, IsInjective

\* The new round begins with its whole list unsent.
LEMMA StartRoundInv == ASSUME Inv, StartRound PROVE Inv'
<1>1. /\ threads \in Nat \ {0} /\ MaxWorkers \in Nat /\ MaxThreads \in Nat
      /\ threads \in 1..MaxThreads
  BY Shapes, WatcherAssumption DEF Inv, TypeOK
<1>2. PICK new \in Rounds, l \in ScrapeLists :
         /\ round' = new
         /\ list' = [list EXCEPT ![new] = l]
         /\ expired' = [expired EXCEPT ![new] = FALSE]
         /\ batches' = [batches EXCEPT ![new] = <<>>]
         /\ closed' = [closed EXCEPT ![new] = FALSE]
         /\ result' = [result EXCEPT ![new] = "none"]
         /\ worker' = [w \in Workers |-> IF w[1] = new /\ w[2] <= threads
                                         THEN NotScraping("ready") ELSE worker[w]]
         /\ archived' = [archived EXCEPT ![new] = {}]
         /\ failed' = [failed EXCEPT ![new] = {}]
  BY Zenon DEF StartRound
<1>3. pc = "generate" /\ pc' = "send" /\ next' = 1 /\ UNCHANGED <<threads, cancelled, ticked>>
  BY DEF StartRound
<1>4. /\ batches'[new] = <<>> /\ ~ closed'[new] /\ result'[new] = "none"
      /\ archived'[new] = {} /\ failed'[new] = {}
      /\ \A r \in Rounds \ {new} :
            /\ batches'[r] = batches[r] /\ closed'[r] = closed[r] /\ result'[r] = result[r]
            /\ archived'[r] = archived[r] /\ failed'[r] = failed[r] /\ expired'[r] = expired[r]
            /\ Done(r)' = Done(r)
  BY <1>2, <1>3 DEF Inv, TypeOK, Done
<1>5. /\ list'[new] = l /\ \A r \in Rounds \ {new} : list'[r] = list[r]
      /\ list' \in [Rounds -> ScrapeLists \cup {<<>>}]
  BY <1>2 DEF Inv, TypeOK
<1>6. \A w \in Workers : worker'[w] = IF w[1] = new /\ w[2] <= threads
                                      THEN NotScraping("ready") ELSE worker[w]
  BY <1>2
<1>7. worker' \in [Workers -> WorkerState] /\ \A w \in Workers : Len(worker'[w].exports) <= ExportsCap
  <2>1. \A w \in Workers : worker'[w] \in WorkerState /\ Len(worker'[w].exports) <= ExportsCap
    BY <1>6, NothingScraped, WatcherAssumption, SMTT(30) DEF Inv, TypeOK
  <2> QED  BY <1>2, <2>1
<1>8. TypeOK'
  <2>1. round' \in 0..MaxWorkers /\ next' \in Nat \ {0} /\ pc' = "send"
    BY <1>1, <1>2, <1>3 DEF Rounds
  <2>2. /\ expired' \in [Rounds -> BOOLEAN] /\ closed' \in [Rounds -> BOOLEAN]
        /\ result' \in [Rounds -> {"none", "nil", "error"}]
        /\ archived' \in [Rounds -> SUBSET Sites] /\ failed' \in [Rounds -> SUBSET Sites]
    BY <1>2 DEF Inv, TypeOK
  <2>3. batches' \in [Rounds -> Seq(Seq(Sites))]
    BY <1>2 DEF Inv, TypeOK
  <2>4. \A r \in Rounds : Len(batches'[r]) <= threads'
    <3>1. batches'[new] = <<>> /\ \A r \in Rounds \ {new} : batches'[r] = batches[r]
      BY <1>4
    <3>2. Len(<<>>) = 0 /\ 0 <= threads /\ threads' = threads
      BY <1>1, <1>3
    <3>3. \A r \in Rounds : Len(batches[r]) <= threads
      BY DEF Inv, TypeOK
    <3> HIDE DEF Inv
    <3> QED  BY <3>1, <3>2, <3>3
  <2> QED  BY <1>3, <1>5, <1>7, <2>1, <2>2, <2>3, <2>4 DEF Inv, TypeOK
<1>9. ASSUME NEW w \in Workers PROVE WorkerInv(w)'
  <2>1. WorkerInv(w) /\ w[1] \in Rounds
    BY Shapes DEF Inv
  <2>2. CASE w[1] = new /\ w[2] <= threads
    <3>1. worker'[w] = NotScraping("ready")
      BY <1>6, <2>2
    <3>2. ~ (w[2] > threads')
      BY <1>1, <1>3, <2>2, Shapes
    <3> QED  BY <3>1, <3>2, NothingScraped DEF WorkerInv
  <2>3. CASE w[1] = new /\ w[2] > threads
    <3>1. worker'[w] = worker[w] /\ worker[w] = NotScraping("absent")
      BY <1>1, <1>6, <2>1, <2>3, Shapes DEF WorkerInv
    <3> QED  BY <3>1, NothingScraped DEF WorkerInv
  <2>4. CASE w[1] # new
    <3>1. worker'[w] = worker[w] /\ Done(w[1])' = Done(w[1])
      BY <1>4, <1>6, <2>1, <2>4
    <3> QED  BY <1>3, <1>4, <2>1, <2>4, <3>1, WorkerStays
  <2> QED  BY <1>1, <2>2, <2>3, <2>4, Shapes
<1>10. ASSUME NEW r \in Rounds, r # new
       PROVE  (Progress(r) /\ Once(r) /\ Complete(r))'
  <2>1. Progress(r) /\ Once(r) /\ Complete(r) /\ list'[r] = list[r]
    BY <1>5, <1>10 DEF Inv
  <2>2. \A t \in 1..threads : worker'[<<r, t>>] = worker[<<r, t>>]
    BY <1>6, <1>10, Shapes
  <2>3. \A t \in 1..threads : InScraper(<<r, t>>)' = InScraper(<<r, t>>)
    BY <2>2 DEF InScraper
  <2>4. Working(r)' = Working(r) /\ Batched(r)' = Batched(r) /\ Handled(r)' = Handled(r)
        /\ Done(r)' = Done(r)
    BY <1>3, <1>4, <1>10, <2>3 DEF Working, Batched, Handled
  <2>5. Unsent(r) = {} /\ Unsent(r)' = {}
    BY <1>2, <1>3, <1>10 DEF Unsent
  <2>6. Progress(r)'
    BY <1>2, <1>3, <1>4, <1>10, <2>1, <2>2 DEF Progress
  <2>7. Once(r)'
    BY <1>3, <1>4, <1>10, <2>1, <2>3, <2>4, <2>5 DEF Once, BatchesApart, ScrapersApart
  <2>8. Complete(r)'
    BY <2>1, <2>4, <2>5 DEF Complete, Places
  <2> QED  BY <2>6, <2>7, <2>8
<1>11. (Progress(new) /\ Once(new) /\ Complete(new))'
  <2>1. \A t \in 1..threads : worker'[<<new, t>>] = NotScraping("ready")
    BY <1>1, <1>2, <1>6, Shapes
  <2>2. \A t \in 1..threads : InScraper(<<new, t>>)' = {}
    BY <2>1, NothingScraped DEF InScraper
  <2>3. (Working(new) = {})' /\ (Batched(new) = {})' /\ (Handled(new) = {})'
    <3>1. (Working(new) = {})'
      BY <1>3, <2>2 DEF Working
    <3>2. (Batched(new) = {})'
      BY <1>4 DEF Batched
    <3>3. (Handled(new) = {})'
      BY <1>4 DEF Handled
    <3> QED  BY <3>1, <3>2, <3>3
  <2>4. Unsent(new)' = Range(l)
    <3>1. l \in Seq(Sites) /\ DOMAIN l = 1..Len(l)
      BY ListsAssumption
    <3> QED  BY <1>2, <1>3, <1>5, <3>1 DEF Unsent, Range
  <2>5. Progress(new)'
    BY <1>2, <1>3, <1>4 DEF Progress
  <2>6. Once(new)'
    BY <1>3, <1>4, <2>2, <2>3 DEF Once, BatchesApart, ScrapersApart
  <2>7. Complete(new)'
    BY <1>5, <2>3, <2>4 DEF Complete, Places
  <2> QED  BY <2>5, <2>6, <2>7
<1> QED  BY <1>2, <1>8, <1>9, <1>10, <1>11 DEF Inv

\* The batch that is sent next is not empty, and ends within the list.
LEMMA Batch ==
    ASSUME Inv, SendBatch
    PROVE  /\ round \in Rounds /\ next \in Nat \ {0}
           /\ LastOfBatch \in 1..Len(list[round]) /\ next <= LastOfBatch
           /\ SubSeq(list[round], next, BatchEnd) \in Seq(Sites)
           /\ Range(SubSeq(list[round], next, BatchEnd)) =
                  {list[round][k] : k \in next..LastOfBatch}
<1>1. round \in Rounds /\ next \in Nat \ {0} /\ next <= Len(list[round])
  BY DEF Inv, SendBatch, TypeOK
<1>2. list[round] \in Seq(Sites) /\ Len(list[round]) \in Nat /\ BatchSize \in Nat \ {0}
  BY <1>1, ListOf, WatcherAssumption
<1>3. LastOfBatch \in 1..Len(list[round]) /\ next <= LastOfBatch
  BY <1>1, <1>2 DEF LastOfBatch
<1> QED  BY <1>1, <1>2, <1>3, RangeSubSeq DEF BatchEnd

\* A batch goes from the list to the channel; the list begins behind it.
LEMMA SendBatchInv == ASSUME Inv, SendBatch PROVE Inv'
<1>1. PICK r \in Rounds : r = round
  BY Batch
<1>2. PICK e \in 1..Len(list[r]) : e = LastOfBatch /\ next <= e
  BY <1>1, Batch
<1>3. PICK b \in Seq(Sites) :
         b = SubSeq(list[r], next, BatchEnd) /\ Range(b) = {list[r][k] : k \in next..e}
  BY <1>1, <1>2, Batch
<1>4. /\ pc = "send" /\ Len(batches[r]) < threads /\ next \in Nat \ {0}
      /\ batches' = [batches EXCEPT ![r] = Append(@, b)]
      /\ next' = e + 1
      /\ UNCHANGED <<pc, threads, round, list, cancelled, expired, ticked, closed, result, worker,
                     archived, failed>>
  BY <1>1, <1>2, <1>3, Batch DEF SendBatch, work, context, outcome
<1>5. /\ batches[r] \in Seq(Seq(Sites)) /\ Len(batches[r]) \in Nat
      /\ DOMAIN batches[r] = 1..Len(batches[r])
  BY DEF Inv, TypeOK
<1>6. /\ batches'[r] = Append(batches[r], b)
      /\ \A q \in Rounds \ {r} : batches'[q] = batches[q]
      /\ batches' \in [Rounds -> Seq(Seq(Sites))]
      /\ Len(batches'[r]) = Len(batches[r]) + 1
      /\ DOMAIN batches'[r] = DOMAIN batches[r] \cup {Len(batches[r]) + 1}
      /\ \A n \in DOMAIN batches[r] : batches'[r][n] = batches[r][n]
      /\ batches'[r][Len(batches[r]) + 1] = b
  BY <1>4, <1>5 DEF Inv, TypeOK
<1>7. TypeOK'
  <2>1. \A q \in Rounds : Len(batches'[q]) <= threads'
    BY <1>4, <1>5, <1>6, Shapes DEF Inv, TypeOK
  <2>2. next' \in Nat \ {0}
    BY <1>2, <1>4
  <2> QED  BY <1>4, <1>6, <2>1, <2>2 DEF Inv, TypeOK
<1>8. ASSUME NEW w \in Workers PROVE WorkerInv(w)'
  <2>1. WorkerInv(w) /\ ~ closed[r]
    BY <1>1, <1>4 DEF Inv, Progress
  <2>2. Done(w[1])' = Done(w[1])
    BY <1>4 DEF Done
  <2>3. closed[w[1]] /\ batches[w[1]] = <<>> => closed'[w[1]] /\ batches'[w[1]] = <<>>
    BY <1>4, <1>6, <2>1, Shapes
  <2> QED  BY <1>4, <2>1, <2>2, <2>3, WorkerStays
<1>9. ASSUME NEW q \in Rounds
      PROVE  /\ Progress(q) /\ Once(q) /\ Complete(q)
             /\ Working(q)' = Working(q) /\ Handled(q)' = Handled(q) /\ Done(q)' = Done(q)
             /\ ScrapersApart(q)'
             /\ list'[q] = list[q]
  <2>1. Progress(q) /\ Once(q) /\ Complete(q)
    BY DEF Inv
  <2>2. Working(q)' = Working(q) /\ Handled(q)' = Handled(q) /\ Done(q)' = Done(q)
    BY <1>4 DEF Working, Handled, InScraper, Done
  <2>3. ScrapersApart(q)'
    BY <1>4, <2>1 DEF Once, ScrapersApart, InScraper
  <2> QED  BY <1>4, <2>1, <2>2, <2>3
<1>10. ASSUME NEW q \in Rounds PROVE Progress(q)'
  BY <1>4, <1>6, <1>9 DEF Progress
<1>11. ASSUME NEW q \in Rounds, q # r PROVE Once(q)' /\ Complete(q)'
  <2>1. Batched(q)' = Batched(q) /\ Unsent(q)' = Unsent(q) /\ batches'[q] = batches[q]
    BY <1>1, <1>4, <1>6, <1>11 DEF Batched, Unsent
  <2>2. Once(q)'
    BY <1>9, <2>1 DEF Once, BatchesApart
  <2>3. Complete(q)'
    BY <1>9, <2>1 DEF Complete, Places
  <2> QED  BY <2>2, <2>3
<1>12. Once(r)' /\ Complete(r)'
  <2>1. Batched(r)' = Batched(r) \cup Range(b)
    BY <1>6 DEF Batched
  <2>2. Unsent(r) = Range(b) \cup Unsent(r)' /\ Range(b) \cap Unsent(r)' = {}
    <3>1. /\ Unsent(r)  = {list[r][n] : n \in next..Len(list[r])}
          /\ Unsent(r)' = {list[r][n] : n \in (e + 1)..Len(list[r])}
      BY <1>1, <1>4 DEF Unsent
    <3>2. Len(list[r]) \in Nat /\ DOMAIN list[r] = 1..Len(list[r]) /\ IsInjective(list[r])
      BY ListOf
    <3>3. next..Len(list[r]) = (next..e) \cup ((e + 1)..Len(list[r]))
      BY <1>2, <1>4, <3>2
    <3>4. /\ next..e \subseteq DOMAIN list[r] /\ (e + 1)..Len(list[r]) \subseteq DOMAIN list[r]
          /\ (next..e) \cap ((e + 1)..Len(list[r])) = {}
      BY <1>2, <1>4, <3>2
    <3>5. Range(b) \cap Unsent(r)' = {}
      <4>1. \A m \in next..e, n \in (e + 1)..Len(list[r]) : list[r][m] # list[r][n]
        BY <3>2, <3>4 DEF IsInjective
      <4> QED  BY <1>3, <3>1, <4>1
    <3> QED  BY <1>3, <3>1, <3>3, <3>5
  <2>3. \A n \in DOMAIN batches[r] : Range(batches[r][n]) \subseteq Batched(r)
    BY DEF Batched
  <2>4. Range(b) \cap Batched(r) = {}
    BY <1>9, <2>2 DEF Once
  <2>5. BatchesApart(r)'
    BY <1>6, <1>9, <2>3, <2>4 DEF Once, BatchesApart
  <2>6. Once(r)'
    <3>1. (Unsent(r) \cap (Batched(r) \cup Working(r) \cup Handled(r)) = {})'
      BY <1>9, <2>1, <2>2 DEF Once
    <3>2. (Batched(r) \cap (Working(r) \cup Handled(r)) = {})'
      BY <1>9, <2>1, <2>2 DEF Once
    <3> QED  BY <1>9, <2>5, <3>1, <3>2 DEF Once
  <2>7. Complete(r)'
    BY <1>9, <2>1, <2>2 DEF Complete, Places
  <2> QED  BY <2>6, <2>7
<1> QED  BY <1>4, <1>7, <1>8, <1>10, <1>11, <1>12 DEF Inv

----------------------------------------------------------------------------
(* The workers, their scrapers and exporters.                               *)

\* A worker that was started, and is not done, belongs to a round and to its threads.
LEMMA WorkerOf ==
    ASSUME Inv, NEW w \in Workers, worker[w].pc # "absent"
    PROVE  /\ w[1] \in Rounds /\ w[2] \in 1..threads /\ w = <<w[1], w[2]>>
           /\ worker[w] \in WorkerState /\ WorkerInv(w)
<1>1. WorkerInv(w) /\ w[1] \in Nat /\ w[2] \in 1..MaxThreads /\ w[1] \in Rounds
      /\ w = <<w[1], w[2]>>
  BY Shapes DEF Inv, Rounds
<1>2. w[2] <= threads
  BY <1>1, Shapes DEF WorkerInv
<1> QED  BY <1>1, <1>2, Shapes DEF Inv, TypeOK

\* A step of one worker: what it leaves alone.
LEMMA Becomes ==
    ASSUME Inv, NEW w \in Workers, NEW c, Become(w, c)
    PROVE  /\ UNCHANGED <<pc, threads, round, list, next, cancelled, expired, ticked, closed, result>>
           /\ worker' = [worker EXCEPT ![w] = c]
           /\ worker'[w] = c
           /\ \A v \in Workers \ {w} : worker'[v] = worker[v] /\ InScraper(v)' = InScraper(v)
           /\ InScraper(w)' = c.fetching \cup c.parsed \cup Range(c.exports)
           /\ \A q \in Rounds : Done(q)' = Done(q)
BY DEF Become, work, context, Inv, TypeOK, InScraper, Done

\* What the other workers of a round have in hand.
Rest(r, t) == UNION {InScraper(<<r, u>>) : u \in (1..threads) \ {t}}

LEMMA WorkingSplit ==
    ASSUME NEW r, NEW t \in 1..threads, ScrapersApart(r)
    PROVE  /\ Working(r) = Rest(r, t) \cup InScraper(<<r, t>>)
           /\ Rest(r, t) \cap InScraper(<<r, t>>) = {}
BY DEF ScrapersApart, Working, Rest

\* A step that moves subscriptions between the channel, one worker, and the archive, and
\* loses none until the round's context is done.
LEMMA MovesOnce ==
    ASSUME Inv, NEW w \in Workers, NEW c, Become(w, c), worker[w].pc # "absent",
           LET r == w[1]
               before == Batched(r) \cup InScraper(w) \cup Handled(r)
               after  == Batched(r)' \cup InScraper(w)' \cup Handled(r)'
           IN  /\ BatchesApart(r)'
               /\ after \subseteq before
               /\ ~ Done(r) => before \subseteq after
               /\ Batched(r)' \cap InScraper(w)' = {}
               /\ Batched(r)' \cap Handled(r)' = {}
               /\ InScraper(w)' \cap Handled(r)' = {}
    PROVE  Once(w[1])' /\ Complete(w[1])'
<1>1. PICK r \in Rounds, t \in 1..threads : r = w[1] /\ t = w[2] /\ w = <<r, t>>
  BY WorkerOf
<1>2. Once(r) /\ Complete(r)
  BY DEF Inv
<1>3. /\ UNCHANGED <<pc, threads, round, list, next>>
      /\ \A v \in Workers \ {w} : InScraper(v)' = InScraper(v)
      /\ Done(r)' = Done(r)
  BY Becomes
<1>4. \A u \in (1..threads) \ {t} : <<r, u>> \in Workers \ {w}
  BY <1>1, Shapes
<1>5. Rest(r, t)' = Rest(r, t) /\ Unsent(r)' = Unsent(r)
  BY <1>3, <1>4 DEF Rest, Unsent
<1>6. /\ Working(r) = Rest(r, t) \cup InScraper(w)
      /\ Rest(r, t) \cap InScraper(w) = {}
  BY <1>1, <1>2, WorkingSplit DEF Once
<1>7. Rest(r, t) \cap InScraper(w)' = {}
  BY <1>1, <1>2, <1>6 DEF Once
<1>8. ScrapersApart(r)'
  <2> SUFFICES ASSUME NEW u \in 1..threads, NEW v \in 1..threads, u # v
               PROVE  (InScraper(<<r, u>>) \cap InScraper(<<r, v>>) = {})'
    BY <1>3 DEF ScrapersApart
  <2>1. CASE u # t /\ v # t
    BY <1>2, <1>3, <1>4, <2>1 DEF Once, ScrapersApart
  <2>2. CASE u = t
    <3>1. InScraper(<<r, v>>)' \subseteq Rest(r, t)'
      BY <1>3, <2>2 DEF Rest
    <3> QED  BY <1>1, <1>5, <1>7, <2>2, <3>1
  <2>3. CASE v = t
    <3>1. InScraper(<<r, u>>)' \subseteq Rest(r, t)'
      BY <1>3, <2>3 DEF Rest
    <3> QED  BY <1>1, <1>5, <1>7, <2>3, <3>1
  <2> QED  BY <2>1, <2>2, <2>3
<1>9. Working(r)' = Rest(r, t) \cup InScraper(w)'
  <2>1. (Working(r) = Rest(r, t) \cup InScraper(<<r, t>>))'
    BY <1>1, <1>3, ZenonT(40) DEF Working, Rest
  <2> QED  BY <1>1, <1>5, <2>1
<1>10. Once(r)'
  <2> DEFINE B == Batched(r)  B2 == Batched(r)'
             H == Handled(r)  H2 == Handled(r)'
             I == InScraper(w)  I2 == InScraper(w)'
             R == Rest(r, t)  U == Unsent(r)
  <2>1. /\ U \cap (B \cup R \cup I \cup H) = {} /\ B \cap R = {} /\ R \cap H = {} /\ R \cap I = {}
    BY <1>2, <1>6 DEF Once
  <2>2. /\ B2 \cup I2 \cup H2 \subseteq B \cup I \cup H
        /\ B2 \cap I2 = {} /\ B2 \cap H2 = {} /\ I2 \cap H2 = {}
    BY <1>1
  <2> HIDE DEF B, B2, H, H2, I, I2, R, U
  <2>3. /\ U \cap (B2 \cup (R \cup I2) \cup H2) = {}
        /\ B2 \cap ((R \cup I2) \cup H2) = {}
        /\ (R \cup I2) \cap H2 = {}
    BY <2>1, <2>2
  <2> QED  BY <1>1, <1>5, <1>8, <1>9, <2>3 DEF Once, B2, H2, I2, R, U
<1>11. Complete(r)'
  BY <1>1, <1>2, <1>3, <1>5, <1>6, <1>9 DEF Complete, Places
<1> QED  BY <1>1, <1>10, <1>11

\* What a step of a worker has to show.
LEMMA WorkerStepInv ==
    ASSUME Inv, NEW w \in Workers, NEW c, Become(w, c),
           c \in WorkerState, Len(c.exports) <= ExportsCap, c.pc # "absent",
           worker[w].pc \in {"ready", "scraping"},
           WorkerInv(w)', Once(w[1])', Complete(w[1])',
           batches' \in [Rounds -> Seq(Seq(Sites))],
           Len(batches'[w[1]]) <= threads,
           batches[w[1]] = <<>> => batches'[w[1]] = <<>>,
           archived' \in [Rounds -> SUBSET Sites], failed' \in [Rounds -> SUBSET Sites],
           \A q \in Rounds \ {w[1]} : /\ batches'[q] = batches[q]
                                      /\ archived'[q] = archived[q] /\ failed'[q] = failed[q]
    PROVE  Inv'
<1>1. PICK r \in Rounds, t \in 1..threads : r = w[1] /\ t = w[2] /\ w = <<r, t>>
  BY WorkerOf
<1>2. /\ UNCHANGED <<pc, threads, round, list, next, cancelled, expired, ticked, closed, result>>
      /\ worker'[w] = c
      /\ \A v \in Workers \ {w} : worker'[v] = worker[v] /\ InScraper(v)' = InScraper(v)
      /\ \A q \in Rounds : Done(q)' = Done(q)
  BY Becomes
<1>3. TypeOK'
  <2>1. worker' \in [Workers -> WorkerState]
    <3>1. worker' = [worker EXCEPT ![w] = c]
      BY DEF Become
    <3>2. worker \in [Workers -> WorkerState]
      BY DEF Inv, TypeOK
    <3> QED  BY <3>1, <3>2
  <2>2. \A v \in Workers : Len(worker'[v].exports) <= ExportsCap
    BY <1>2 DEF Inv, TypeOK
  <2>3. \A q \in Rounds : Len(batches'[q]) <= threads'
    BY <1>1, <1>2 DEF Inv, TypeOK
  <2> QED  BY <1>2, <2>1, <2>2, <2>3 DEF Inv, TypeOK
<1>4. ASSUME NEW v \in Workers \ {w} PROVE WorkerInv(v)'
  <2>1. WorkerInv(v) /\ v[1] \in Rounds
    BY Shapes DEF Inv
  <2>2. batches[v[1]] = <<>> => batches'[v[1]] = <<>>
    BY <1>1, <2>1
  <2> QED  BY <1>2, <2>1, <2>2, WorkerStays
<1>5. ASSUME NEW q \in Rounds PROVE Progress(q)'
  <2>1. Progress(q)
    BY DEF Inv
  <2>2. result[r] # "nil"
    <3>1. Progress(r)
      BY DEF Inv
    <3> QED  BY <1>1, <3>1 DEF Progress
  <2>3. \A u \in 1..threads : q # r => worker'[<<q, u>>] = worker[<<q, u>>]
    <3> SUFFICES ASSUME NEW u \in 1..threads, q # r
                 PROVE  worker'[<<q, u>>] = worker[<<q, u>>]
      OBVIOUS
    <3>1. <<q, u>> \in Workers
      BY Shapes
    <3>2. <<q, u>> # w
      BY <1>1
    <3> QED  BY <1>2, <3>1, <3>2
  <2>4. q # r => Handled(q)' = Handled(q) /\ batches'[q] = batches[q]
    BY <1>1 DEF Handled
  <2> QED  BY <1>1, <1>2, <2>1, <2>2, <2>3, <2>4 DEF Progress
<1>6. ASSUME NEW q \in Rounds, q # r PROVE Once(q)' /\ Complete(q)'
  <2>1. Once(q) /\ Complete(q)
    BY DEF Inv
  <2>2. \A u \in 1..threads : <<q, u>> \in Workers \ {w}
    BY <1>1, <1>6, Shapes
  <2>3. Working(q)' = Working(q) /\ Unsent(q)' = Unsent(q)
    <3>1. threads' = threads
      BY <1>2
    <3>2. \A u \in 1..threads : worker'[<<q, u>>] = worker[<<q, u>>]
      BY <1>2, <2>2
    <3>3. Working(q)' = Working(q)
      <4>1. Working(q)' = UNION {InScraper(<<q, u>>)' : u \in 1..threads}
        BY <3>1 DEF Working
      <4>2. {InScraper(<<q, u>>)' : u \in 1..threads} = {InScraper(<<q, u>>) : u \in 1..threads}
        BY <3>2 DEF InScraper
      <4> QED  BY <4>1, <4>2 DEF Working
    <3>4. Unsent(q)' = Unsent(q)
      BY <1>2 DEF Unsent
    <3> QED  BY <3>3, <3>4
  <2>4. Handled(q)' = Handled(q) /\ batches'[q] = batches[q]
    BY <1>1, <1>6 DEF Handled
  <2>5. Batched(q)' = Batched(q)
    BY <2>4 DEF Batched
  <2>6. BatchesApart(q)' /\ ScrapersApart(q)'
    <3>1. \A u \in 1..threads : InScraper(<<q, u>>)' = InScraper(<<q, u>>)
      BY <1>2, <2>2
    <3> QED  BY <1>2, <2>1, <2>4, <3>1 DEF Once, BatchesApart, ScrapersApart
  <2>7. Once(q)'
    BY <2>1, <2>3, <2>4, <2>5, <2>6 DEF Once
  <2>8. Complete(q)'
    BY <1>2, <2>1, <2>3, <2>4, <2>5 DEF Complete, Places
  <2> QED  BY <2>7, <2>8
<1> QED  BY <1>1, <1>2, <1>3, <1>4, <1>5, <1>6 DEF Inv

\* A worker with anything of a scraper is scraping, and what is right of it.
LEMMA Scraping ==
    ASSUME Inv, NEW w \in Workers,
           LET c == worker[w]
           IN  \/ c.pc = "scraping" \/ c.open \/ c.exporter # "gone"
               \/ c.fetching # {} \/ c.parsed # {} \/ c.exports # <<>>
    PROVE  LET c == worker[w]
           IN  /\ c.pc = "scraping" /\ c \in WorkerState
               /\ c.fetching \in SUBSET Sites /\ c.parsed \in SUBSET Sites
               /\ c.exports \in Seq(Sites) /\ c.open \in BOOLEAN
               /\ c.exporter \in {"receive", "check", "gone"}
               /\ Len(c.exports) <= ExportsCap
               /\ ~ c.open => c.fetching = {} /\ c.parsed = {}
               /\ c.fetching \cap c.parsed = {}
               /\ (c.fetching \cup c.parsed) \cap Range(c.exports) = {}
               /\ IsInjective(c.exports)
               /\ c.exporter = "gone" /\ ~ Done(w[1]) => ~ c.open /\ c.exports = <<>>
<1>1. worker[w] \in WorkerState /\ WorkerInv(w) /\ Len(worker[w].exports) <= ExportsCap
  BY DEF Inv, TypeOK
<1>2. worker[w].pc \in {"absent", "ready", "scraping", "done"}
  BY <1>1 DEF WorkerState
<1>3. worker[w].pc = "scraping"
  BY <1>1, <1>2, NothingScraped DEF WorkerInv
<1>4. LET c == worker[w]
      IN  /\ c.fetching \in SUBSET Sites /\ c.parsed \in SUBSET Sites
          /\ c.exports \in Seq(Sites) /\ c.open \in BOOLEAN
          /\ c.exporter \in {"receive", "check", "gone"}
  BY <1>1 DEF WorkerState
<1> QED  BY <1>1, <1>3, <1>4 DEF WorkerInv

\* What a scraper has to keep to.
ScraperInv(c, r) ==
    /\ c.pc = "scraping" /\ c \in WorkerState /\ Len(c.exports) <= ExportsCap
    /\ ~ c.open => c.fetching = {} /\ c.parsed = {}
    /\ c.fetching \cap c.parsed = {}
    /\ (c.fetching \cup c.parsed) \cap Range(c.exports) = {}
    /\ IsInjective(c.exports)
    /\ c.exporter = "gone" /\ ~ Done(r) => ~ c.open /\ c.exports = <<>>

LEMMA ScraperWorker ==
    ASSUME Inv, NEW w \in Workers, NEW c, Become(w, c), worker[w].pc # "absent",
           ScraperInv(c, w[1])
    PROVE  WorkerInv(w)'
<1>1. /\ threads' = threads /\ round' = round /\ worker'[w] = c /\ Done(w[1])' = Done(w[1])
  BY Becomes, WorkerOf
<1>2. /\ ~ (w[2] > threads)
  BY WorkerOf, Shapes DEF Rounds
<1> QED  BY <1>1, <1>2 DEF WorkerInv, ScraperInv

\* A step of a scraper that moves what it has in hand, or nothing.
LEMMA WithinScraper ==
    ASSUME Inv, NEW w \in Workers, NEW c, Become(w, c), worker[w].pc = "scraping",
           ScraperInv(c, w[1]),
           c.fetching \cup c.parsed \cup Range(c.exports) = InScraper(w),
           UNCHANGED <<batches, outcome>>
    PROVE  Inv'
<1>1. WorkerInv(w)'
  BY ScraperWorker
<1>2. batches' = batches /\ archived' = archived /\ failed' = failed
  BY DEF outcome
<1>3. PICK r \in Rounds : r = w[1]
  BY WorkerOf
<1>4. Once(r)
  BY DEF Inv
<1>5. /\ Batched(r)' = Batched(r) /\ Handled(r)' = Handled(r) /\ InScraper(w)' = InScraper(w)
  BY <1>2, Becomes DEF Batched, Handled
<1>6. BatchesApart(r)' /\ InScraper(w) \subseteq Working(r)
  <2>1. BatchesApart(r)'
    BY <1>2, <1>4 DEF Once, BatchesApart
  <2>2. w[2] \in 1..threads /\ w = <<r, w[2]>>
    BY <1>3, WorkerOf
  <2> QED  BY <2>1, <2>2 DEF Working
<1>7. /\ Batched(r) \cap InScraper(w) = {} /\ Batched(r) \cap Handled(r) = {}
      /\ InScraper(w) \cap Handled(r) = {}
  BY <1>4, <1>6 DEF Once
<1>8. Once(w[1])' /\ Complete(w[1])'
  BY <1>3, <1>5, <1>6, <1>7, MovesOnce
<1>9. /\ batches' \in [Rounds -> Seq(Seq(Sites))] /\ Len(batches'[w[1]]) <= threads
      /\ archived' \in [Rounds -> SUBSET Sites] /\ failed' \in [Rounds -> SUBSET Sites]
  BY <1>2, <1>3 DEF Inv, TypeOK
<1> QED  BY <1>1, <1>2, <1>8, <1>9, WorkerStepInv DEF ScraperInv

\* A response is parsed.
LEMMA ParsedInv == ASSUME Inv, NEW w \in Workers, NEW s \in Sites, Parsed(w, s) PROVE Inv'
<1>1. PICK c : /\ c = [worker[w] EXCEPT !.fetching = @ \ {s}, !.parsed = @ \cup {s}]
               /\ Become(w, c) /\ s \in worker[w].fetching /\ UNCHANGED <<batches, outcome>>
  BY DEF Parsed
<1>2. /\ c.pc = worker[w].pc /\ c.fetching = worker[w].fetching \ {s}
      /\ c.parsed = worker[w].parsed \cup {s} /\ c.exports = worker[w].exports
      /\ c.open = worker[w].open /\ c.exporter = worker[w].exporter
      /\ c \in WorkerState
  BY <1>1, Scraping, ZenonT(40) DEF WorkerState
<1>3. worker[w].pc = "scraping" /\ ScraperInv(c, w[1])
  BY <1>1, <1>2, Scraping DEF ScraperInv
<1>4. c.fetching \cup c.parsed \cup Range(c.exports) = InScraper(w)
  BY <1>1, <1>2 DEF InScraper
<1> QED  BY <1>1, <1>3, <1>4, WithinScraper

\* A callback sends its result.
LEMMA SendResultInv == ASSUME Inv, NEW w \in Workers, NEW s \in Sites, SendResult(w, s) PROVE Inv'
<1>1. PICK c : /\ c = [worker[w] EXCEPT !.parsed = @ \ {s}, !.exports = Append(@, s)]
               /\ Become(w, c) /\ s \in worker[w].parsed /\ UNCHANGED <<batches, outcome>>
               /\ Len(worker[w].exports) < ExportsCap
  BY DEF SendResult
<1>2. worker[w].pc = "scraping" /\ worker[w].exports \in Seq(Sites)
      /\ Len(worker[w].exports) \in Nat
  BY <1>1, Scraping
<1>3. PICK x \in Seq(Sites) :
         /\ x = Append(worker[w].exports, s) /\ Len(x) = Len(worker[w].exports) + 1
         /\ Range(x) = Range(worker[w].exports) \cup {s}
         /\ IsInjective(worker[w].exports) /\ s \notin Range(worker[w].exports) => IsInjective(x)
  BY <1>2, RangeAppend
<1>4. /\ c.pc = worker[w].pc /\ c.fetching = worker[w].fetching
      /\ c.parsed = worker[w].parsed \ {s} /\ c.exports = x
      /\ c.open = worker[w].open /\ c.exporter = worker[w].exporter
      /\ c \in WorkerState
  BY <1>1, <1>3, Scraping, ZenonT(40) DEF WorkerState
<1>5. Len(c.exports) <= ExportsCap
  BY <1>1, <1>2, <1>3, <1>4, WatcherAssumption
<1>6. IsInjective(c.exports)
  BY <1>1, <1>3, <1>4, Scraping
<1>7. (c.fetching \cup c.parsed) \cap Range(c.exports) = {}
  BY <1>1, <1>3, <1>4, Scraping
<1>8. c.exporter = "gone" => Done(w[1])
  BY <1>1, <1>4, Scraping
<1>9. ScraperInv(c, w[1])
  BY <1>1, <1>2, <1>4, <1>5, <1>6, <1>7, <1>8, Scraping DEF ScraperInv
<1>10. c.fetching \cup c.parsed \cup Range(c.exports) = InScraper(w)
  BY <1>1, <1>3, <1>4 DEF InScraper
<1> QED  BY <1>1, <1>2, <1>9, <1>10, WithinScraper

\* The library closes Exports, when no callback is left.
LEMMA CloseExportsInv == ASSUME Inv, NEW w \in Workers, CloseExports(w) PROVE Inv'
<1>1. PICK c : /\ c = [worker[w] EXCEPT !.open = FALSE] /\ worker[w].open
               /\ Become(w, c) /\ UNCHANGED <<batches, outcome>>
               /\ worker[w].fetching = {} /\ worker[w].parsed = {}
  BY DEF CloseExports, CallbacksReturned
<1>2. /\ c.pc = worker[w].pc /\ c.fetching = worker[w].fetching
      /\ c.parsed = worker[w].parsed /\ c.exports = worker[w].exports
      /\ c.open = FALSE /\ c.exporter = worker[w].exporter
      /\ c \in WorkerState
  BY <1>1, Scraping, ZenonT(40) DEF WorkerState
<1>3. worker[w].pc = "scraping" /\ ScraperInv(c, w[1])
  BY <1>1, <1>2, Scraping DEF ScraperInv
<1>4. c.fetching \cup c.parsed \cup Range(c.exports) = InScraper(w)
  BY <1>2 DEF InScraper
<1> QED  BY <1>1, <1>3, <1>4, WithinScraper

\* The exporter goes on, or leaves: because the context is done, or Exports closed and
\* empty.
LEMMA ExporterMovesInv ==
    ASSUME Inv, NEW w \in Workers, CheckContext(w) \/ ExportEnds(w)
    PROVE  Inv'
<1>1. PICK e \in {"receive", "gone"} :
         /\ Become(w, [worker[w] EXCEPT !.exporter = e])
         /\ UNCHANGED <<batches, outcome>> /\ worker[w].exporter # "gone"
         /\ e = "gone" => Done(w[1]) \/ (~ worker[w].open /\ worker[w].exports = <<>>)
  <2>1. CASE CheckContext(w)
    <3>1. CASE Done(w[1])
      BY <2>1, <3>1 DEF CheckContext
    <3>2. CASE ~ Done(w[1])
      BY <2>1, <3>2 DEF CheckContext
    <3> QED  BY <3>1, <3>2
  <2>2. CASE ExportEnds(w)
    BY <2>2 DEF ExportEnds
  <2> QED  BY <2>1, <2>2
<1>2. PICK c : c = [worker[w] EXCEPT !.exporter = e]
  OBVIOUS
<1>3. /\ c.pc = worker[w].pc /\ c.fetching = worker[w].fetching
      /\ c.parsed = worker[w].parsed /\ c.exports = worker[w].exports
      /\ c.open = worker[w].open /\ c.exporter = e
      /\ c \in WorkerState
  BY <1>1, <1>2, Scraping DEF WorkerState
<1>4. worker[w].pc = "scraping" /\ ScraperInv(c, w[1])
  BY <1>1, <1>3, Scraping DEF ScraperInv
<1>5. c.fetching \cup c.parsed \cup Range(c.exports) = InScraper(w)
  BY <1>3 DEF InScraper
<1> QED  BY <1>1, <1>2, <1>4, <1>5, WithinScraper

\* A subscription leaves the scraper for the archive, or for the log.
LEMMA SettlesInv ==
    ASSUME Inv, NEW w \in Workers, NEW c, Become(w, c), worker[w].pc = "scraping",
           ScraperInv(c, w[1]),
           NEW s \in InScraper(w),
           c.fetching \cup c.parsed \cup Range(c.exports) = InScraper(w) \ {s},
           batches' = batches,
           \/ archived' = [archived EXCEPT ![w[1]] = @ \cup {s}] /\ failed' = failed
           \/ failed' = [failed EXCEPT ![w[1]] = @ \cup {s}] /\ archived' = archived
    PROVE  Inv'
<1>1. WorkerInv(w)'
  BY ScraperWorker
<1>2. PICK r \in Rounds : r = w[1] /\ w[2] \in 1..threads /\ w = <<r, w[2]>>
  BY WorkerOf
<1>3. s \in Sites
  <2>1. worker[w].exports \in Seq(Sites) /\ DOMAIN worker[w].exports = 1..Len(worker[w].exports)
        /\ worker[w].fetching \subseteq Sites /\ worker[w].parsed \subseteq Sites
    BY Scraping
  <2>2. Range(worker[w].exports) \subseteq Sites
    BY <2>1 DEF Range
  <2> QED  BY <2>1, <2>2 DEF InScraper
<1>4. archived \in [Rounds -> SUBSET Sites] /\ failed \in [Rounds -> SUBSET Sites]
  BY DEF Inv, TypeOK
<1>5. /\ archived' \in [Rounds -> SUBSET Sites] /\ failed' \in [Rounds -> SUBSET Sites]
      /\ \A q \in Rounds \ {w[1]} : archived'[q] = archived[q] /\ failed'[q] = failed[q]
  BY <1>3, <1>4
<1>6. Handled(r)' = Handled(r) \cup {s}
  BY <1>2, <1>4 DEF Handled
<1>7. /\ Batched(r)' = Batched(r) /\ BatchesApart(r)' /\ InScraper(w)' = InScraper(w) \ {s}
  <2>1. BatchesApart(r)
    BY DEF Inv, Once
  <2> QED  BY <2>1, Becomes DEF Batched, BatchesApart
<1>8. /\ Batched(r) \cap InScraper(w) = {} /\ Batched(r) \cap Handled(r) = {}
      /\ InScraper(w) \cap Handled(r) = {}
  <2>1. InScraper(w) \subseteq Working(r)
    BY <1>2 DEF Working
  <2> QED  BY <2>1 DEF Inv, Once
<1>9. Once(w[1])' /\ Complete(w[1])'
  BY <1>2, <1>6, <1>7, <1>8, MovesOnce
<1>10. batches' \in [Rounds -> Seq(Seq(Sites))] /\ Len(batches'[w[1]]) <= threads
  BY <1>2 DEF Inv, TypeOK
<1> QED  BY <1>1, <1>5, <1>9, <1>10, WorkerStepInv DEF ScraperInv

\* A request fails.
LEMMA NotParsedInv == ASSUME Inv, NEW w \in Workers, NEW s \in Sites, NotParsed(w, s) PROVE Inv'
<1>1. PICK c : /\ c = [worker[w] EXCEPT !.fetching = @ \ {s}]
               /\ Become(w, c) /\ s \in worker[w].fetching
               /\ failed' = [failed EXCEPT ![w[1]] = @ \cup {s}]
               /\ batches' = batches /\ archived' = archived
  BY DEF NotParsed
<1>2. /\ c.pc = worker[w].pc /\ c.fetching = worker[w].fetching \ {s}
      /\ c.parsed = worker[w].parsed /\ c.exports = worker[w].exports
      /\ c.open = worker[w].open /\ c.exporter = worker[w].exporter
      /\ c \in WorkerState
  BY <1>1, Scraping DEF WorkerState
<1>3. worker[w].pc = "scraping" /\ ScraperInv(c, w[1])
  BY <1>1, <1>2, Scraping DEF ScraperInv
<1>4. c.fetching \cup c.parsed \cup Range(c.exports) = InScraper(w) \ {s} /\ s \in InScraper(w)
  BY <1>1, <1>2, Scraping DEF InScraper
<1> QED  BY <1>1, <1>3, <1>4, SettlesInv

\* A result is exported.
LEMMA ExportInv == ASSUME Inv, NEW w \in Workers, Export(w) PROVE Inv'
<1>1. worker[w].pc = "scraping" /\ worker[w].exports \in Seq(Sites)
      /\ worker[w].exports # <<>> /\ worker[w].exporter = "receive"
      /\ IsInjective(worker[w].exports) /\ Len(worker[w].exports) <= ExportsCap
  BY Scraping DEF Export
<1>2. PICK s \in Sites, x \in Seq(Sites) :
         /\ s = Head(worker[w].exports) /\ x = Tail(worker[w].exports)
         /\ Len(worker[w].exports) \in Nat \ {0} /\ Len(x) = Len(worker[w].exports) - 1
         /\ Range(worker[w].exports) = {s} \cup Range(x)
         /\ IsInjective(x) /\ s \notin Range(x)
  <2> DEFINE seq == worker[w].exports
  <2>1. seq \in Seq(Sites) /\ seq # <<>> /\ IsInjective(seq)
    BY <1>1
  <2> HIDE DEF seq
  <2>2. /\ Head(seq) \in Sites /\ Tail(seq) \in Seq(Sites)
        /\ Len(seq) \in Nat \ {0} /\ Len(Tail(seq)) = Len(seq) - 1
        /\ Range(seq) = {Head(seq)} \cup Range(Tail(seq))
        /\ IsInjective(Tail(seq)) /\ Head(seq) \notin Range(Tail(seq))
    BY <2>1, RangeTail
  <2> QED  BY <2>2 DEF seq
<1>3. PICK c : c = [worker[w] EXCEPT !.exports = x, !.exporter = "check"]
  OBVIOUS
<1>4. /\ Become(w, c) /\ batches' = batches
      /\ \/ archived' = [archived EXCEPT ![w[1]] = @ \cup {s}] /\ failed' = failed
         \/ failed' = [failed EXCEPT ![w[1]] = @ \cup {s}] /\ archived' = archived
  BY <1>2, <1>3 DEF Export
<1>5. /\ c.pc = worker[w].pc /\ c.fetching = worker[w].fetching
      /\ c.parsed = worker[w].parsed /\ c.exports = x
      /\ c.open = worker[w].open /\ c.exporter = "check"
      /\ c \in WorkerState
  BY <1>1, <1>3, Scraping, ZenonT(40) DEF WorkerState
<1>6. Len(c.exports) <= ExportsCap
  BY <1>1, <1>2, <1>5, WatcherAssumption
<1>7. (c.fetching \cup c.parsed) \cap Range(c.exports) = {}
  BY <1>1, <1>2, <1>5, Scraping
<1>8. ScraperInv(c, w[1])
  BY <1>1, <1>2, <1>5, <1>6, <1>7, Scraping DEF ScraperInv
<1>9. s \in InScraper(w)
  BY <1>2 DEF InScraper
<1>10. s \notin worker[w].fetching \cup worker[w].parsed
  BY <1>1, <1>2, Scraping
<1>11. c.fetching \cup c.parsed \cup Range(c.exports) = InScraper(w) \ {s}
  BY <1>2, <1>5, <1>10 DEF InScraper
<1> QED  BY <1>1, <1>4, <1>8, <1>9, <1>11, SettlesInv

\* A worker gives up its scraper, or ends.  It may leave subscriptions behind when the
\* round's context is done.
LEMMA LeavesInv ==
    ASSUME Inv, NEW w \in Workers, NEW state \in {"ready", "done"},
           worker[w].pc \in {"ready", "scraping"}, Become(w, NotScraping(state)),
           ~ Done(w[1]) => InScraper(w) = {},
           state = "done" /\ ~ Done(w[1]) => closed[w[1]] /\ batches[w[1]] = <<>>,
           UNCHANGED <<batches, outcome>>
    PROVE  Inv'
<1>1. PICK c : /\ c = NotScraping(state) /\ c \in WorkerState /\ c.pc = state /\ ~ c.open
               /\ c.exporter = "gone" /\ c.fetching = {} /\ c.parsed = {} /\ c.exports = <<>>
               /\ Len(c.exports) = 0 /\ Range(c.exports) = {} /\ IsInjective(c.exports)
  BY NothingScraped
<1>2. batches' = batches /\ archived' = archived /\ failed' = failed
  BY DEF outcome
<1>3. PICK r \in Rounds : r = w[1] /\ w[2] \in 1..threads /\ w = <<r, w[2]>>
  BY WorkerOf
<1>4. /\ worker'[w] = c /\ threads' = threads /\ round' = round /\ closed' = closed
      /\ Done(w[1])' = Done(w[1]) /\ InScraper(w)' = {}
  BY <1>1, <1>3, Becomes
<1>5. WorkerInv(w)'
  <2>1. ~ (w[2] > threads)
    BY <1>3, Shapes DEF Rounds
  <2> QED  BY <1>1, <1>2, <1>3, <1>4, <2>1 DEF WorkerInv
<1>6. /\ Batched(r)' = Batched(r) /\ Handled(r)' = Handled(r) /\ BatchesApart(r)'
  <2>1. BatchesApart(r)
    BY DEF Inv, Once
  <2> QED  BY <1>2, <2>1 DEF Batched, Handled, BatchesApart
<1>7. Batched(r) \cap Handled(r) = {}
  BY DEF Inv, Once
<1>8. Once(w[1])' /\ Complete(w[1])'
  BY <1>1, <1>3, <1>4, <1>6, <1>7, MovesOnce
<1>9. /\ batches' \in [Rounds -> Seq(Seq(Sites))] /\ Len(batches'[w[1]]) <= threads
      /\ archived' \in [Rounds -> SUBSET Sites] /\ failed' \in [Rounds -> SUBSET Sites]
  BY <1>2, <1>3 DEF Inv, TypeOK
<1>10. Len(c.exports) <= ExportsCap
  BY <1>1, WatcherAssumption
<1> QED  BY <1>1, <1>2, <1>5, <1>8, <1>9, <1>10, WorkerStepInv

\* The scraper returns: everything was exported, or the context is done.
LEMMA ScraperReturnsInv == ASSUME Inv, NEW w \in Workers, ScraperReturns(w) PROVE Inv'
<1>1. worker[w].pc = "scraping" /\ Become(w, NotScraping("ready")) /\ UNCHANGED <<batches, outcome>>
      /\ ~ worker[w].open /\ worker[w].exporter = "gone"
  BY DEF ScraperReturns
<1>2. ~ Done(w[1]) => InScraper(w) = {}
  BY <1>1, Scraping DEF InScraper, Range
<1> QED  BY <1>1, <1>2, LeavesInv

\* A worker ends: the channel is closed and empty, or the context is done.
LEMMA WorkerReturnsInv == ASSUME Inv, NEW w \in Workers, WorkerReturns(w) PROVE Inv'
<1>1. /\ worker[w].pc = "ready" /\ Become(w, NotScraping("done")) /\ UNCHANGED <<batches, outcome>>
      /\ Done(w[1]) \/ (closed[w[1]] /\ batches[w[1]] = <<>>)
  BY DEF WorkerReturns
<1>2. InScraper(w) = {}
  <2>1. worker[w] = NotScraping("ready")
    BY <1>1 DEF Inv, WorkerInv
  <2> QED  BY <2>1, NothingScraped DEF InScraper
<1> QED  BY <1>1, <1>2, LeavesInv

\* A worker takes the first batch of the channel, and gives it to a scraper.
LEMMA TakeBatchInv == ASSUME Inv, NEW w \in Workers, TakeBatch(w) PROVE Inv'
<1>1. PICK r \in Rounds : r = w[1] /\ w[2] \in 1..threads /\ w = <<r, w[2]>>
  BY WorkerOf DEF TakeBatch
<1>2. PICK chan \in Seq(Seq(Sites)) : chan = batches[r]
  BY DEF Inv, TypeOK
<1>3. PICK b \in Seq(Sites), tail \in Seq(Seq(Sites)) :
         /\ b = Head(chan) /\ tail = Tail(chan) /\ chan # <<>>
         /\ Len(chan) \in Nat \ {0} /\ Len(tail) = Len(chan) - 1
         /\ \A n \in DOMAIN tail : n + 1 \in DOMAIN chan /\ tail[n] = chan[n + 1]
         /\ 1 \in DOMAIN chan /\ chan[1] = b
         /\ DOMAIN tail = 1..Len(tail) /\ Len(tail) \in Nat
         /\ DOMAIN chan = 1..Len(chan)
  <2>1. chan # <<>>
    BY <1>1, <1>2 DEF TakeBatch
  <2>2. /\ Head(chan) \in Seq(Sites) /\ Tail(chan) \in Seq(Seq(Sites))
        /\ Len(chan) \in Nat \ {0} /\ Len(Tail(chan)) = Len(chan) - 1
        /\ \A n \in DOMAIN Tail(chan) : n + 1 \in DOMAIN chan /\ Tail(chan)[n] = chan[n + 1]
        /\ 1 \in DOMAIN chan /\ chan[1] = Head(chan)
    BY <2>1, RangeTail
  <2>3. /\ DOMAIN Tail(chan) = 1..Len(Tail(chan)) /\ Len(Tail(chan)) \in Nat
        /\ DOMAIN chan = 1..Len(chan)
    BY <2>2
  <2> QED  BY <2>1, <2>2, <2>3
<1>4. PICK c : c = NewScraper(b)
  OBVIOUS
<1>5. /\ worker[w].pc = "ready" /\ Become(w, c)
      /\ batches' = [batches EXCEPT ![r] = tail]
      /\ archived' = archived /\ failed' = failed
  BY <1>1, <1>2, <1>3, <1>4 DEF TakeBatch, outcome
<1>6. Range(b) \subseteq Sites
  <2>1. DOMAIN b = 1..Len(b)
    OBVIOUS
  <2> QED  BY <2>1 DEF Range
<1>7. /\ c.pc = "scraping" /\ c.fetching = Range(b) /\ c.parsed = {} /\ c.exports = <<>>
      /\ Len(c.exports) = 0 /\ Range(c.exports) = {} /\ IsInjective(c.exports)
      /\ c.open = TRUE /\ c.exporter = "receive" /\ c \in WorkerState
  BY <1>4, <1>6 DEF NewScraper, WorkerState, Range, IsInjective
<1>8. ScraperInv(c, w[1])
  BY <1>7, WatcherAssumption DEF ScraperInv
<1>9. WorkerInv(w)'
  BY <1>5, <1>8, ScraperWorker
<1>10. /\ batches' \in [Rounds -> Seq(Seq(Sites))] /\ batches'[r] = tail
       /\ Len(batches'[r]) <= threads
       /\ \A q \in Rounds \ {r} : batches'[q] = batches[q]
       /\ batches[r] = <<>> => batches'[r] = <<>>
  BY <1>2, <1>3, <1>5, Shapes DEF Inv, TypeOK
<1>11. InScraper(w) = {} /\ InScraper(w)' = Range(b)
  <2>1. worker[w] = NotScraping("ready")
    BY <1>5 DEF Inv, WorkerInv
  <2>2. InScraper(w) = {}
    BY <2>1, NothingScraped DEF InScraper
  <2>3. InScraper(w)' = c.fetching \cup c.parsed \cup Range(c.exports)
    BY <1>5, Becomes
  <2>4. InScraper(w)' = Range(b)
    BY <1>7, <2>3
  <2> QED  BY <2>2, <2>4
<1>12. /\ Batched(r) = Batched(r)' \cup Range(b) /\ Batched(r)' \cap Range(b) = {}
       /\ BatchesApart(r)'
  <2>1. BatchesApart(r)
    BY DEF Inv, Once
  <2>2. Batched(r) = UNION {Range(chan[n]) : n \in DOMAIN chan}
    BY <1>2 DEF Batched
  <2>3. Batched(r)' = UNION {Range(tail[n]) : n \in DOMAIN tail}
    BY <1>10 DEF Batched
  <2>4. \A n \in DOMAIN chan : n = 1 \/ (n - 1 \in DOMAIN tail /\ tail[n - 1] = chan[n])
    <3>1. \A n \in DOMAIN chan : n # 1 => n - 1 \in DOMAIN tail
      BY <1>3
    <3>2. \A n \in DOMAIN chan : (n - 1) + 1 = n
      BY <1>3
    <3> QED  BY <1>3, <3>1, <3>2
  <2>5. Batched(r) \subseteq Batched(r)' \cup Range(b)
    <3> SUFFICES ASSUME NEW n \in DOMAIN chan, NEW x \in Range(chan[n])
                 PROVE  x \in Batched(r)' \cup Range(b)
      BY <2>2
    <3>1. CASE n = 1
      BY <1>3, <3>1
    <3>2. CASE n - 1 \in DOMAIN tail /\ tail[n - 1] = chan[n]
      BY <2>3, <3>2
    <3> QED  BY <2>4, <3>1, <3>2
  <2>6. Batched(r)' \cup Range(b) \subseteq Batched(r)
    BY <1>3, <2>2, <2>3
  <2>7. Batched(r)' \cap Range(b) = {}
    <3>1. \A n \in DOMAIN tail : n + 1 # 1
      BY <1>3
    <3>2. \A n \in DOMAIN tail : Range(tail[n]) \cap Range(b) = {}
      BY <1>2, <1>3, <2>1, <3>1 DEF BatchesApart
    <3> QED  BY <2>3, <3>2
  <2>8. BatchesApart(r)'
    <3>1. \A m, n \in DOMAIN tail : m # n => m + 1 # n + 1
      BY <1>3
    <3>2. ASSUME NEW m \in DOMAIN tail, NEW n \in DOMAIN tail, m # n
          PROVE  Range(tail[m]) \cap Range(tail[n]) = {}
      <4>1. /\ m + 1 \in DOMAIN chan /\ tail[m] = chan[m + 1]
            /\ n + 1 \in DOMAIN chan /\ tail[n] = chan[n + 1] /\ m + 1 # n + 1
        BY <1>3, <3>1, <3>2
      <4>2. Range(chan[m + 1]) \cap Range(chan[n + 1]) = {}
        BY <1>2, <2>1, <4>1 DEF BatchesApart
      <4> QED  BY <4>1, <4>2
    <3> QED  BY <1>10, <3>2 DEF BatchesApart
  <2> QED  BY <2>5, <2>6, <2>7, <2>8
<1>13. Handled(r)' = Handled(r) /\ Batched(r) \cap Handled(r) = {}
  BY <1>5 DEF Handled, Inv, Once
<1>14. Once(w[1])' /\ Complete(w[1])'
  BY <1>1, <1>5, <1>11, <1>12, <1>13, MovesOnce
<1>15. archived' \in [Rounds -> SUBSET Sites] /\ failed' \in [Rounds -> SUBSET Sites]
  BY <1>5 DEF Inv, TypeOK
<1>16. Len(c.exports) <= ExportsCap
  BY <1>7, WatcherAssumption
<1> QED  BY <1>1, <1>5, <1>7, <1>9, <1>10, <1>14, <1>15, <1>16, WorkerStepInv

----------------------------------------------------------------------------
(* The invariant.                                                           *)

LEMMA InitInv == ASSUME Init PROVE Inv
<1>1. /\ threads \in Nat \ {0} /\ MaxThreads \in Nat /\ MaxWorkers \in Nat /\ round = 0
  BY WatcherAssumption DEF Init, Rounds
<1>2. ASSUME NEW w \in Workers
      PROVE  /\ worker[w] = NotScraping("absent") /\ worker[w] \in WorkerState
             /\ Len(worker[w].exports) = 0
             /\ InScraper(w) = {} /\ WorkerInv(w)
  <2>1. worker[w] = NotScraping("absent")
    BY DEF Init
  <2>2. InScraper(w) = {} /\ worker[w] \in WorkerState /\ Len(worker[w].exports) = 0
    BY <2>1, NothingScraped DEF InScraper
  <2>3. WorkerInv(w)
    BY <2>1, NothingScraped DEF WorkerInv
  <2> QED  BY <2>1, <2>2, <2>3
<1>3. TypeOK
  <2>1. worker \in [Workers -> WorkerState]
    BY <1>2 DEF Init
  <2>2. \A w \in Workers : Len(worker[w].exports) <= ExportsCap
    BY <1>2, WatcherAssumption
  <2>3. /\ batches \in [Rounds -> Seq(Seq(Sites))]
        /\ \A r \in Rounds : Len(batches[r]) <= threads
    BY <1>1 DEF Init
  <2>4. /\ expired \in [Rounds -> BOOLEAN] /\ closed \in [Rounds -> BOOLEAN]
        /\ cancelled \in BOOLEAN /\ ticked \in BOOLEAN
    BY DEF Init
  <2>5. /\ list \in [Rounds -> ScrapeLists \cup {<<>>}]
        /\ result \in [Rounds -> {"none", "nil", "error"}]
        /\ archived \in [Rounds -> SUBSET Sites] /\ failed \in [Rounds -> SUBSET Sites]
    BY DEF Init
  <2>6. threads \in 1..MaxThreads /\ round \in 0..MaxWorkers /\ next \in Nat \ {0}
        /\ pc \in {"generate", "send", "wait", "select", "returned"}
    BY <1>1 DEF Init
  <2> QED  BY <2>1, <2>2, <2>3, <2>4, <2>5, <2>6 DEF TypeOK
<1>4. ASSUME NEW r \in Rounds PROVE Progress(r) /\ Once(r) /\ Complete(r)
  <2>1. /\ list[r] = <<>> /\ batches[r] = <<>> /\ DOMAIN batches[r] = {} /\ Handled(r) = {}
        /\ result[r] = "none" /\ ~ closed[r] /\ pc = "generate"
    BY DEF Init, Handled
  <2>2. \A t \in 1..threads : InScraper(<<r, t>>) = {}
    <3>1. \A t \in 1..threads : <<r, t>> \in Workers
      BY <1>1 DEF Init, Workers
    <3> QED  BY <1>2, <3>1
  <2>3. Unsent(r) = {} /\ Batched(r) = {} /\ Working(r) = {} /\ Range(list[r]) = {}
    BY <2>1, <2>2 DEF Unsent, Batched, Working, Range
  <2>4. Progress(r)
    BY <1>1, <2>1 DEF Progress
  <2>5. Once(r)
    BY <2>1, <2>2, <2>3 DEF Once, BatchesApart, ScrapersApart
  <2>6. Complete(r)
    BY <2>1, <2>3 DEF Complete, Places
  <2> QED  BY <2>4, <2>5, <2>6
<1> QED  BY <1>2, <1>3, <1>4 DEF Init, Inv

LEMMA NextInv == ASSUME Inv, [Next]_vars PROVE Inv'
<1>1. CASE UNCHANGED vars
  <2>1. /\ UNCHANGED <<work, batches, closed, worker, outcome, pc, next, result>>
        /\ UNCHANGED <<threads, round, list, archived, failed, cancelled, expired, ticked>>
    BY <1>1 DEF vars, work, outcome, channel, context
  <2>2. TypeOK'
    BY <2>1 DEF Inv, TypeOK
  <2>3. \A r \in Rounds : Unsent(r)' = Unsent(r) /\ Done(r)' = Done(r) /\ Progress(r)'
    BY <2>1 DEF Unsent, Done, Progress, Handled, Inv
  <2> QED  BY <2>1, <2>2, <2>3, StillInv DEF Inv
<1>2. CASE Cancel \/ Tick \/ \E r \in Rounds : Timeout(r)
  BY <1>2, EnvironmentInv
<1>3. CASE StartStep \/ GenerateFails
  BY <1>3, StartRoundInv, SendBatchInv, StartStillInv DEF StartStep
<1>4. ASSUME NEW w \in Workers, WorkerStep(w) PROVE Inv'
  BY <1>4, TakeBatchInv, WorkerReturnsInv DEF WorkerStep
<1>5. ASSUME NEW w \in Workers, ScraperStep(w) PROVE Inv'
  BY <1>5, CloseExportsInv, ScraperReturnsInv DEF ScraperStep
<1>6. ASSUME NEW w \in Workers, ExporterStep(w) PROVE Inv'
  BY <1>6, ExportInv, ExporterMovesInv DEF ExporterStep
<1>7. ASSUME NEW w \in Workers, NEW s \in Sites, RequestStep(w, s) PROVE Inv'
  BY <1>7, ParsedInv, NotParsedInv, SendResultInv DEF RequestStep
<1> QED  BY <1>1, <1>2, <1>3, <1>4, <1>5, <1>6, <1>7 DEF Next

\* Whatever the order of the steps: the sites of a round's list are in one place each,
\* and none is lost before the context of the round is done.
THEOREM WatcherCorrect == Spec => []Inv
BY InitInv, NextInv, PTL DEF Spec

\* The state of the watcher has its type: the channel to the workers and the Exports
\* channels never hold more than their capacity.
THEOREM TypeCorrect == Spec => []TypeOK
<1>1. Inv => TypeOK
  BY DEF Inv
<1> QED  BY <1>1, WatcherCorrect, PTL

\* A round handles each subscription of its list once: cutting the list into batches,
\* the channel, and workers taking batches concurrently neither repeat a subscription nor
\* hand it to two scrapers.
THEOREM EachOnce == Spec => []HandledOnce
<1>1. ASSUME Inv PROVE HandledOnce
  <2> SUFFICES ASSUME NEW r \in Rounds
               PROVE  LET places == {[at |-> "unsent", nr |-> 0, sites |-> Unsent(r)],
                                     [at |-> "handled", nr |-> 0, sites |-> archived[r] \cup failed[r]]}
                            \cup {[at |-> "batch", nr |-> i, sites |-> Range(batches[r][i])] :
                                     i \in DOMAIN batches[r]}
                            \cup {[at |-> "worker", nr |-> t, sites |-> InScraper(<<r, t>>)] :
                                     t \in 1..threads}
                      IN  \A p, q \in places :
                              p.at # q.at \/ p.nr # q.nr => p.sites \cap q.sites = {}
    BY DEF HandledOnce
  <2>1. Once(r)
    BY <1>1 DEF Inv
  <2> DEFINE IsPlace(p) ==
               \/ p.at = "unsent" /\ p.nr = 0 /\ p.sites = Unsent(r)
               \/ p.at = "handled" /\ p.nr = 0 /\ p.sites = Handled(r)
               \/ p.at = "batch" /\ p.nr \in DOMAIN batches[r] /\ p.sites = Range(batches[r][p.nr])
               \/ p.at = "worker" /\ p.nr \in 1..threads /\ p.sites = InScraper(<<r, p.nr>>)
  <2>2. ASSUME NEW p, NEW q, IsPlace(p), IsPlace(q), p.at # q.at \/ p.nr # q.nr
        PROVE  p.sites \cap q.sites = {}
    <3>1. /\ p.at = "batch" => p.sites \subseteq Batched(r)
          /\ q.at = "batch" => q.sites \subseteq Batched(r)
          /\ p.at = "worker" => p.sites \subseteq Working(r)
          /\ q.at = "worker" => q.sites \subseteq Working(r)
      BY <2>2 DEF Batched, Working
    <3>2. CASE p.at = q.at
      BY <2>1, <2>2, <3>2 DEF Once, BatchesApart, ScrapersApart
    <3>3. CASE p.at # q.at
      BY <2>1, <2>2, <3>1, <3>3 DEF Once
    <3> QED  BY <3>2, <3>3
  <2>3. /\ IsPlace([at |-> "unsent", nr |-> 0, sites |-> Unsent(r)])
        /\ IsPlace([at |-> "handled", nr |-> 0, sites |-> archived[r] \cup failed[r]])
        /\ \A i \in DOMAIN batches[r] :
              IsPlace([at |-> "batch", nr |-> i, sites |-> Range(batches[r][i])])
        /\ \A t \in 1..threads :
              IsPlace([at |-> "worker", nr |-> t, sites |-> InScraper(<<r, t>>)])
    BY DEF Handled
  <2> HIDE DEF IsPlace
  <2> QED  BY <2>2, <2>3, ZenonT(40)
<1> QED  BY <1>1, WatcherCorrect, PTL

\* When RunScrapers returns nil before its time is over, every subscription of the list
\* was exported to the archive, or its error logged.
THEOREM NilIsHonest == Spec => []NilMeansHandled
<1>1. ASSUME Inv PROVE NilMeansHandled
  <2> SUFFICES ASSUME NEW r \in Rounds, result[r] = "nil", ~ Done(r)
               PROVE  archived[r] \cup failed[r] = Range(list[r])
    BY DEF NilMeansHandled
  <2>1. Progress(r) /\ Complete(r)
    BY <1>1 DEF Inv
  <2>2. \A t \in 1..threads : /\ <<r, t>> \in Workers /\ worker[<<r, t>>].pc = "done"
                              /\ WorkerInv(<<r, t>>)
    BY <1>1, <2>1, Shapes DEF Inv, Progress
  <2>3. \A t \in 1..threads : worker[<<r, t>>] = NotScraping("done")
    BY <2>2 DEF WorkerInv
  <2>4. Working(r) = {}
    <3>1. \A t \in 1..threads : InScraper(<<r, t>>) = {}
      BY <2>3, NothingScraped DEF InScraper
    <3> QED  BY <3>1 DEF Working
  <2>5. Batched(r) = {}
    <3>1. 1 \in 1..threads
      BY <1>1, Shapes
    <3>2. <<r, 1>>[1] = r
      OBVIOUS
    <3>3. batches[r] = <<>>
      BY <2>2, <3>1, <3>2 DEF WorkerInv
    <3> QED  BY <3>3 DEF Batched
  <2>6. Unsent(r) = {}
    BY <2>1 DEF Unsent, Progress
  <2> QED  BY <2>1, <2>4, <2>5, <2>6 DEF Complete, Places, Handled
<1> QED  BY <1>1, WatcherCorrect, PTL

\* An exporter leaves results behind only when the context of its round is done.
THEOREM ExportsComplete == Spec => []NothingAbandoned
<1>1. ASSUME Inv PROVE NothingAbandoned
  <2> SUFFICES ASSUME NEW w \in Workers, worker[w].pc = "scraping", worker[w].exporter = "gone",
                      ~ Done(w[1])
               PROVE  InScraper(w) = {}
    BY DEF NothingAbandoned
  <2> QED  BY <1>1, Scraping DEF InScraper, Range
<1> QED  BY <1>1, WatcherCorrect, PTL
=============================================================================
