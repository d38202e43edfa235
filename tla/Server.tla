------------------------------- MODULE Server -------------------------------
(***************************************************************************)
(* The serve command (cmd/htracker/serve.go): a run group of three actors,  *)
(* the signal handler, the watcher and the HTTP server, and the requests    *)
(* the server handles (http/json.go) while the group starts and stops.      *)
(*                                                                         *)
(* The run group (oklog/run) and net/http are libraries.  The group runs     *)
(* every actor in a goroutine; when the first returns, it interrupts all of  *)
(* them, in the order they were added, waits for the others, and returns;   *)
(* then the process exits.  Shutdown closes the listener, closes idle        *)
(* connections until there are no others, and gives up when its context is   *)
(* done.                                                                    *)
(*                                                                         *)
(* The watcher ends when its context is cancelled or the scrape list cannot *)
(* be generated.  Cancelled, it may also hang (see Watcher).  The services   *)
(* change their state and return in one step: see SubscriptionService.       *)
(***************************************************************************)
EXTENDS Integers, Endpoints

CONSTANTS
    Clients,    \* clients with a connection each
    Served      \* client -> the endpoints it uses

ASSUME ServedAssumption == Served \in [Clients -> SUBSET Routes]

VARIABLES
    pc,         \* where the group is
    actor,      \* what the three actors do
    notified,   \* the signal handler has registered its channel
    signal,     \* a signal waits in the channel
    cancelled,  \* ctx is cancelled, and graceTimeoutCtx with it
    deadline,   \* the time of graceTimeoutCtx is over
    listening,  \* the listener is open
    graceOver,  \* the grace period has passed since the shutdown began (history)
    open,       \* clients whose connection is open
    fresh,      \* those who have not sent a request on it
    handler     \* client -> the handler of its request

signals  == <<notified, signal>>
timers   == <<deadline, graceOver>>
server   == <<pc, actor, signals, cancelled, timers, listening>>
requests == <<open, fresh, handler>>
vars == <<server, requests>>

Actors == {"signal", "watcher", "server"}
Bodies == {"malformed", "incomplete", "complete"}
Codes  == {0, 200, 204, 400, 404, 409, 500}

\* A handler; done: the service did what was asked (history).
Handling ==
    [pc : {"decode"}, endpoint : Routes]
        \cup [pc : {"call"}, endpoint : Routes, body : Bodies, status : Codes]
        \cup [pc : {"write"}, status : Codes, done : BOOLEAN]
NoHandler == [pc |-> "none"]

Active == {c \in Clients : handler[c] # NoHandler}
Running == pc \notin {"listen", "exited", "killed"}
ShuttingDown == pc \in {"shutdown", "wait"}

Init ==
    /\ pc = "listen"
    /\ actor = [a \in Actors |-> "absent"]
    /\ notified = FALSE /\ signal = FALSE
    /\ cancelled = FALSE
    /\ deadline = FALSE /\ graceOver = FALSE
    /\ listening = FALSE
    /\ open = {} /\ fresh = {}
    /\ handler = [c \in Clients |-> NoHandler]

----------------------------------------------------------------------------
(* The actors.                                                              *)

\* net.Listen, and the start of the group; or the command fails.
Listen ==
    /\ pc = "listen"
    /\ \/ /\ pc' = "run"
          /\ listening' = TRUE
          /\ actor' = [a \in Actors |-> "running"]
       \/ /\ pc' = "exited"
          /\ UNCHANGED <<listening, actor>>
    /\ UNCHANGED <<signals, cancelled, timers, requests>>

Notify ==
    /\ actor["signal"] = "running"
    /\ ~ notified
    /\ notified' = TRUE
    /\ UNCHANGED <<pc, actor, signal, cancelled, timers, listening, requests>>

Ends(a, how) ==
    /\ actor[a] = "running"
    /\ actor' = [actor EXCEPT ![a] = how]
    /\ UNCHANGED <<pc, signals, cancelled, timers, requests>>

SignalReturns ==
    /\ notified
    /\ signal \/ cancelled
    /\ Ends("signal", "returned")
    /\ UNCHANGED listening

WatcherFails == ~ cancelled /\ Ends("watcher", "returned") /\ UNCHANGED listening

WatcherStops ==
    /\ cancelled
    /\ Ends("watcher", "returned") \/ Ends("watcher", "hung")
    /\ UNCHANGED listening

\* Serve returns when Shutdown was called; on an error of the listener, which it closes.
ServeReturns == ~ listening /\ Ends("server", "returned") /\ UNCHANGED listening
ServeFails   == listening /\ Ends("server", "returned") /\ listening' = FALSE

----------------------------------------------------------------------------
(* The group.                                                               *)

FirstReturned ==
    /\ pc = "run"
    /\ \E a \in Actors : actor[a] = "returned"
    /\ pc' = "cancel"
    /\ UNCHANGED <<actor, signals, cancelled, timers, listening, requests>>

\* Mutant: the actors of signals and watcher are not told.
InterruptNothing ==
    /\ pc = "cancel"
    /\ pc' = "interrupt"
    /\ UNCHANGED <<actor, signals, cancelled, timers, listening, requests>>

\* The signal handler and the watcher are interrupted by cancel().
Interrupt ==
    /\ pc = "cancel"
    /\ pc' = "interrupt"
    /\ cancelled' = TRUE
    /\ UNCHANGED <<actor, signals, timers, listening, requests>>

\* Mutant: the server is interrupted first.
ShutdownAnytime ==
    /\ pc \in {"cancel", "interrupt"}
    /\ pc' = "shutdown"
    /\ listening' = FALSE
    /\ UNCHANGED <<actor, signals, cancelled, timers, requests>>

\* Mutant: only the listener is closed.
CloseListener ==
    /\ pc = "interrupt"
    /\ pc' = "wait"
    /\ listening' = FALSE
    /\ UNCHANGED <<actor, signals, cancelled, timers, requests>>

\* The server is interrupted by Shutdown(graceTimeoutCtx).
Shutdown ==
    /\ pc = "interrupt"
    /\ pc' = "shutdown"
    /\ listening' = FALSE
    /\ UNCHANGED <<actor, signals, cancelled, timers, requests>>

\* Shutdown returns without an error, or with the one of its context.
ShutdownEnds(connections) == connections = {} \/ cancelled \/ deadline

\* A fresh connection counts as idle only when it has been so for a while.
ShutdownPolls ==
    /\ pc = "shutdown"
    /\ \E kept \in SUBSET fresh :
          /\ open' = kept \cup (open \cap Active)
          /\ fresh' = kept
          /\ pc' = IF ShutdownEnds(Active \cup kept) THEN "wait" ELSE "shutdown"
    /\ UNCHANGED <<actor, signals, cancelled, timers, listening, handler>>

Exit ==
    /\ pc = "wait"
    /\ \A a \in Actors : actor[a] = "returned"
    /\ pc' = "exited"
    /\ UNCHANGED <<actor, signals, cancelled, timers, listening, requests>>

GroupStep == FirstReturned \/ Interrupt \/ Shutdown \/ ShutdownPolls \/ Exit

----------------------------------------------------------------------------
(* The environment.                                                         *)

\* SIGINT or SIGTERM kills the process, unless the signal handler is there; the channel
\* holds one.
Signal ==
    /\ pc \notin {"exited", "killed"}
    /\ pc' = IF notified THEN pc ELSE "killed"
    /\ signal' = notified
    /\ UNCHANGED <<actor, notified, cancelled, timers, listening, requests>>

\* graceTimeoutCtx was made when the server started; cancelling it stops its timer.
Deadline ==
    /\ Running
    /\ ~ deadline /\ ~ cancelled
    /\ deadline' = TRUE
    /\ UNCHANGED <<pc, actor, signals, cancelled, graceOver, listening, requests>>

GracePasses ==
    /\ ShuttingDown
    /\ ~ graceOver
    /\ graceOver' = TRUE
    /\ UNCHANGED <<pc, actor, signals, cancelled, deadline, listening, requests>>

Connect(c) ==
    /\ Running /\ listening
    /\ c \notin open \cup Active
    /\ open' = open \cup {c}
    /\ fresh' = fresh \cup {c}
    /\ UNCHANGED <<server, handler>>

\* A client goes away; what it asked for is done all the same.
Disconnect(c) ==
    /\ Running
    /\ c \in open
    /\ open' = open \ {c}
    /\ fresh' = fresh \ {c}
    /\ UNCHANGED <<server, handler>>

Request(c) ==
    /\ Running
    /\ c \in open \ Active
    /\ \E endpoint \in Served[c] :
          handler' = [handler EXCEPT ![c] = [pc |-> "decode", endpoint |-> endpoint]]
    /\ fresh' = fresh \ {c}
    /\ UNCHANGED <<server, open>>

----------------------------------------------------------------------------
(* createJSONHandler.                                                       *)

Handle(c, h) ==
    /\ Running
    /\ handler' = [handler EXCEPT ![c] = h]
    /\ UNCHANGED <<server, open, fresh>>

Calling(endpoint, body, status) ==
    [pc |-> "call", endpoint |-> endpoint, body |-> body, status |-> status]

\* The first WriteHeader counts.
Answering(status, code, done) ==
    [pc |-> "write", status |-> IF status = 0 THEN code ELSE status, done |-> done]

\* Mutant: the handler goes on after it has answered 400.
DecodeGoesOn(c) ==
    /\ handler[c].pc = "decode"
    /\ \E body \in Bodies :
          IF body = "malformed" /\ ~ handler[c].endpoint.empty
          THEN Handle(c, Calling(handler[c].endpoint, body, 400))
          ELSE Handle(c, Calling(handler[c].endpoint, body, 0))

Decode(c) ==
    /\ handler[c].pc = "decode"
    /\ \E body \in Bodies :
          IF body = "malformed" /\ ~ handler[c].endpoint.empty
          THEN Handle(c, Answering(0, 400, FALSE))
          ELSE Handle(c, Calling(handler[c].endpoint, body, 0))

\* The endpoint: an object that is missing is an error, and else the service is called.
\* When that fails for reasons of the database, it may have done its work.
Call(c) ==
    LET h == handler[c]
    IN  /\ h.pc = "call"
        /\ IF h.endpoint.pointer /\ h.body # "complete"
           THEN Handle(c, Answering(h.status, 500, FALSE))
           ELSE \E err \in h.endpoint.errors, done \in BOOLEAN :
                   /\ err # "other" => done = (err = "nil")
                   /\ Handle(c, Answering(h.status, Status(h.endpoint, err), done))

\* The answer is written, if its client is still there.  After Shutdown the connection
\* is closed.
Write(c) ==
    /\ Running
    /\ handler[c].pc = "write"
    /\ handler' = [handler EXCEPT ![c] = NoHandler]
    /\ open' = IF ShuttingDown THEN open \ {c} ELSE open
    /\ UNCHANGED <<server, fresh>>

HandlerStep(c) == Decode(c) \/ Call(c) \/ Write(c)

Next ==
    \/ Listen \/ Notify
    \/ SignalReturns \/ WatcherFails \/ WatcherStops \/ ServeReturns \/ ServeFails
    \/ GroupStep
    \/ Signal \/ Deadline \/ GracePasses
    \/ \E c \in Clients : Connect(c) \/ Disconnect(c) \/ Request(c) \/ HandlerStep(c)

\* Every goroutine that can run does run.  Nobody is obliged to send a signal or a
\* request, and neither the watcher nor the listener to fail.
Fairness ==
    /\ WF_vars(Listen)
    /\ WF_vars(Notify)
    /\ WF_vars(SignalReturns)
    /\ WF_vars(WatcherStops)
    /\ WF_vars(ServeReturns)
    /\ WF_vars(GroupStep)
    /\ \A c \in Clients : WF_vars(HandlerStep(c))

Spec == Init /\ [][Next]_vars /\ Fairness
----------------------------------------------------------------------------
TypeOK ==
    /\ pc \in {"listen", "run", "cancel", "interrupt", "shutdown", "wait", "exited", "killed"}
    /\ actor \in [Actors -> {"absent", "running", "returned", "hung"}]
    /\ notified \in BOOLEAN /\ signal \in BOOLEAN
    /\ cancelled \in BOOLEAN /\ deadline \in BOOLEAN
    /\ listening \in BOOLEAN /\ graceOver \in BOOLEAN
    /\ open \subseteq Clients
    /\ fresh \subseteq open \ Active
    /\ handler \in [Clients -> Handling \cup {NoHandler}]
    /\ ShuttingDown => cancelled /\ ~ listening

\* An answer tells what was done: success only of what the service has done, and an
\* error of the client, 400, 404 or 409, only when nothing was done.  Only after 500 the
\* client does not know.
AnswerTellsEffect ==
    \A c \in Active :
        handler[c].pc = "write" =>
            /\ handler[c].status \in {200, 204} => handler[c].done
            /\ handler[c].status \in {400, 404, 409} => ~ handler[c].done
            /\ handler[c].status # 0

\* While the group waits for its actors, which takes for ever when the watcher hangs, no
\* connection brings in another request: only one that was fresh brings its first.
NothingNewAfterShutdown ==
    [][pc = "wait" => Active' \ Active \subseteq fresh /\ fresh' \subseteq fresh]_vars

\* One actor stops all: a signal, a failed scrape list or a failed listener ends the
\* process, whatever requests are under way, unless the watcher hangs.
Stops ==
    signal \/ (\E a \in Actors : actor[a] = "returned") ~>
        pc \in {"exited", "killed"} \/ actor["watcher"] = "hung"

\* cmd/htracker/serve.go:32, "shutdown grace period in seconds": a request that is under
\* way is cut off by the exit only after the grace period.
GracefulShutdown ==
    pc = "exited" /\ Active # {} => graceOver
=============================================================================
