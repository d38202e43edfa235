---------------------------- MODULE Server_proof ----------------------------
(***************************************************************************)
(* Proofs about Server, for any clients and whatever endpoints they use.    *)
(***************************************************************************)
EXTENDS Server, TLAPS

\* What is right of one handler: it has not answered before the endpoint is called, and
\* its answer tells what was done.
Truthful(h) ==
    /\ h.pc = "call" => h.status = 0
    /\ h.pc = "write" =>
          /\ h.status \in {200, 204} => h.done
          /\ h.status \in {400, 404, 409} => ~ h.done
          /\ h.status # 0

HandlersTruthful == \A c \in Clients : Truthful(handler[c])

\* When Shutdown is over, a connection has a request under way or never had one.
Drained == pc = "wait" => open \subseteq Active \cup fresh

\* The contexts are cancelled before Shutdown is called.
Interrupted == pc = "interrupt" => cancelled

Inv == TypeOK /\ HandlersTruthful /\ Drained /\ Interrupted

----------------------------------------------------------------------------
(* The endpoints.                                                           *)

\* Every endpoint with a route answers success with 200 or 204.
LEMMA RouteCodes == \A e \in Routes : e.code \in {200, 204} /\ e.errors \subseteq Errors
BY DEF Routes, AddSubscriber, Subscribe, GetSubscriptionsBySubscriber,
       GetSubscribersBySubscription, GetSubscribers, Unsubscribe, DeleteSubscriber, Get,
       Endpoint, Errors

\* Success is 200 or 204, an error 404, 409 or 500; only of an error that is not one of
\* the service is it open what was done, and that is 500.
LEMMA StatusOf ==
    ASSUME NEW e \in Routes, NEW err \in e.errors
    PROVE  /\ err = "nil" => Status(e, err) \in {200, 204}
           /\ err # "nil" => Status(e, err) \in {404, 409, 500}
           /\ err = "other" => Status(e, err) = 500
BY RouteCodes DEF Status, Failure, Errors

----------------------------------------------------------------------------
(* The handlers.                                                            *)

\* A step of a handler, or the end of it, keeps the invariant if its new state is right.
LEMMA HandlerInv ==
    ASSUME Inv, NEW c \in Clients, NEW h \in Handling, Truthful(h), h.pc # "none",
           handler[c].pc # "none", Handle(c, h)
    PROVE  Inv'
<1>1. handler' \in [Clients -> Handling \cup {NoHandler}]
  BY DEF Inv, TypeOK, Handle
<1>2. Active' = Active
  BY DEF Inv, TypeOK, Handle, Active, NoHandler
<1>3. TypeOK'
  BY <1>1, <1>2 DEF Inv, TypeOK, Handle, server, signals, timers, ShuttingDown
<1>4. HandlersTruthful'
  BY DEF Inv, TypeOK, Handle, HandlersTruthful
<1>5. Drained'
  BY <1>2 DEF Inv, Drained, Handle, server
<1>6. Interrupted'
  BY DEF Inv, Interrupted, Handle, server
<1> QED  BY <1>3, <1>4, <1>5, <1>6 DEF Inv

\* A first answer that is right of what was done keeps the invariant.
LEMMA AnswerInv ==
    ASSUME Inv, NEW c \in Clients, handler[c].pc # "none",
           NEW code \in {200, 204, 400, 404, 409, 500}, NEW done \in BOOLEAN,
           code \in {200, 204} => done,
           code \in {400, 404, 409} => ~ done,
           Handle(c, Answering(0, code, done))
    PROVE  Inv'
<1>1. /\ Answering(0, code, done) \in Handling
      /\ Truthful(Answering(0, code, done))
      /\ Answering(0, code, done).pc # "none"
  BY DEF Answering, Handling, Codes, Truthful
<1> QED  BY <1>1, HandlerInv

\* A refusal is right of a request that was not carried out.
LEMMA RefusedInv ==
    ASSUME Inv, NEW c \in Clients, handler[c].pc # "none",
           NEW code \in {400, 500}, Handle(c, Answering(0, code, FALSE))
    PROVE  Inv'
<1> DEFINE answer == Answering(0, code, FALSE)
<1>1. answer \in Handling /\ Truthful(answer) /\ answer.pc # "none"
  BY DEF Answering, Handling, Codes, Truthful
<1>2. Handle(c, answer)
  OBVIOUS
<1> HIDE DEF answer
<1> QED  BY <1>1, <1>2, HandlerInv

\* Whatever the body, the endpoint is called, or the request is refused undone.
LEMMA DecodeInv == ASSUME Inv, NEW c \in Clients, Decode(c) PROVE Inv'
<1>1. handler[c].pc = "decode" /\ handler[c].endpoint \in Routes
  BY DEF Inv, TypeOK, Decode, Handling, NoHandler
<1>2. PICK body \in Bodies :
         \/ Handle(c, Answering(0, 400, FALSE))
         \/ Handle(c, Calling(handler[c].endpoint, body, 0))
  BY DEF Decode
<1>3. CASE Handle(c, Answering(0, 400, FALSE))
  BY <1>1, <1>3, RefusedInv, ZenonT(40)
<1>4. CASE Handle(c, Calling(handler[c].endpoint, body, 0))
  <2>1. /\ Calling(handler[c].endpoint, body, 0) \in Handling
        /\ Truthful(Calling(handler[c].endpoint, body, 0))
        /\ Calling(handler[c].endpoint, body, 0).pc # "none"
    BY <1>1 DEF Calling, Handling, Codes, Truthful
  <2> QED  BY <1>1, <1>4, <2>1, HandlerInv
<1> QED  BY <1>2, <1>3, <1>4

\* Whatever the service returns, the answer tells what it did.
LEMMA CallInv == ASSUME Inv, NEW c \in Clients, Call(c) PROVE Inv'
<1> DEFINE h == handler[c]
<1>1. h.pc = "call" /\ h.endpoint \in Routes /\ h.status = 0
  BY DEF Inv, TypeOK, Call, Handling, NoHandler, HandlersTruthful, Truthful
<1>2. CASE h.endpoint.pointer /\ h.body # "complete"
  <2>1. Handle(c, Answering(0, 500, FALSE))
    BY <1>1, <1>2 DEF Call
  <2> QED  BY <1>1, <2>1, RefusedInv, ZenonT(40)
<1>3. CASE ~ (h.endpoint.pointer /\ h.body # "complete")
  <2>1. PICK err \in h.endpoint.errors, done \in BOOLEAN :
           /\ err # "other" => done = (err = "nil")
           /\ Handle(c, Answering(0, Status(h.endpoint, err), done))
    BY <1>1, <1>3 DEF Call
  <2>2. /\ err = "nil" => Status(h.endpoint, err) \in {200, 204}
        /\ err # "nil" => Status(h.endpoint, err) \in {404, 409, 500}
        /\ err = "other" => Status(h.endpoint, err) = 500
    BY <1>1, StatusOf
  <2> HIDE DEF h
  <2>3. /\ Status(h.endpoint, err) \in {200, 204, 400, 404, 409, 500}
        /\ Status(h.endpoint, err) \in {200, 204} => done
        /\ Status(h.endpoint, err) \in {400, 404, 409} => ~ done
    BY <2>1, <2>2
  <2> QED  BY <1>1, <2>1, <2>3, AnswerInv DEF h
<1> QED  BY <1>2, <1>3

\* Once the answer is written, the connection is idle, or closed.
LEMMA WriteInv == ASSUME Inv, NEW c \in Clients, Write(c) PROVE Inv'
<1>1. /\ handler' \in [Clients -> Handling \cup {NoHandler}]
      /\ Active' = Active \ {c}
  BY DEF Inv, TypeOK, Write, Active, NoHandler
<1>2. c \in Active /\ c \notin fresh
  BY DEF Inv, TypeOK, Write, Active, NoHandler
<1>3. TypeOK'
  BY <1>1, <1>2 DEF Inv, TypeOK, Write, server, signals, timers, ShuttingDown
<1>4. HandlersTruthful'
  BY DEF Inv, TypeOK, Write, HandlersTruthful, Truthful, NoHandler
<1>5. Drained'
  BY <1>1 DEF Inv, Drained, Write, server, ShuttingDown
<1>6. Interrupted'
  BY DEF Inv, Interrupted, Write, server
<1> QED  BY <1>3, <1>4, <1>5, <1>6 DEF Inv

----------------------------------------------------------------------------
(* The group and the environment.                                           *)

LEMMA InitInv == Init => Inv
<1> SUFFICES ASSUME Init PROVE Inv
  OBVIOUS
<1>1. Active = {} /\ ~ ShuttingDown /\ Drained
  BY DEF Init, Active, ShuttingDown, Drained
<1>2. TypeOK
  BY <1>1 DEF Init, TypeOK, Actors
<1>3. HandlersTruthful /\ Interrupted
  BY DEF Init, HandlersTruthful, Truthful, NoHandler, Interrupted
<1> QED  BY <1>1, <1>2, <1>3 DEF Inv

\* A step that leaves handlers and connections alone, and does not enter the last phase
\* of the group, keeps the invariant if the types are kept.
LEMMA ServerInv ==
    ASSUME Inv, UNCHANGED requests, TypeOK', Interrupted', pc' = "wait" => pc = "wait"
    PROVE  Inv'
<1>1. Active' = Active
  BY DEF requests, Active
<1>2. HandlersTruthful' /\ Drained'
  BY <1>1 DEF Inv, HandlersTruthful, Drained, requests
<1> QED  BY <1>2 DEF Inv

\* The actors start and end; signals and timers come as they like.
LEMMA ActorInv ==
    ASSUME Inv,
           \/ Listen \/ Notify
           \/ SignalReturns \/ WatcherFails \/ WatcherStops \/ ServeReturns \/ ServeFails
           \/ Signal \/ Deadline \/ GracePasses
    PROVE  Inv'
<1>1. /\ UNCHANGED <<cancelled, requests>>
      /\ pc' = pc \/ pc' \in {"run", "exited", "killed"}
  BY DEF Listen, Notify, SignalReturns, WatcherFails, WatcherStops, ServeReturns, ServeFails,
         Ends, Signal, Deadline, GracePasses, ShuttingDown
<1>2. Active' = Active
  BY <1>1 DEF requests, Active
<1>3. pc' \in {"listen", "run", "cancel", "interrupt", "shutdown", "wait", "exited", "killed"}
  BY DEF Inv, TypeOK, Listen, Notify, SignalReturns, WatcherFails, WatcherStops, ServeReturns,
         ServeFails, Ends, Signal, Deadline, GracePasses
<1>4. actor' \in [Actors -> {"absent", "running", "returned", "hung"}]
  BY DEF Inv, TypeOK, Listen, Notify, SignalReturns, WatcherFails, WatcherStops, ServeReturns,
         ServeFails, Ends, Signal, Deadline, GracePasses, Actors
<1>5. /\ (notified \in BOOLEAN)' /\ (signal \in BOOLEAN)' /\ (cancelled \in BOOLEAN)'
      /\ (deadline \in BOOLEAN)' /\ (listening \in BOOLEAN)' /\ (graceOver \in BOOLEAN)'
      /\ listening' => listening \/ ~ ShuttingDown'
  <2>1. CASE Listen
    BY <2>1 DEF Inv, TypeOK, Listen, signals, timers, ShuttingDown
  <2>2. CASE Notify
    <3>1. UNCHANGED deadline /\ UNCHANGED graceOver
      BY <2>2 DEF Notify, timers
    <3> QED  BY <2>2, <3>1, Zenon DEF Inv, TypeOK, Notify
  <2>3. CASE SignalReturns \/ WatcherFails \/ WatcherStops \/ ServeReturns \/ ServeFails
    <3>1. /\ UNCHANGED notified /\ UNCHANGED signal /\ UNCHANGED cancelled
          /\ UNCHANGED deadline /\ UNCHANGED graceOver
      BY <2>3 DEF SignalReturns, WatcherFails, WatcherStops, ServeReturns, ServeFails, Ends,
         signals, timers
    <3>2. listening' = listening \/ listening' = FALSE
      BY <2>3 DEF SignalReturns, WatcherFails, WatcherStops, ServeReturns, ServeFails
    <3>3. (listening \in BOOLEAN)' /\ (listening' => listening)
      <4>1. listening \in BOOLEAN
        BY DEF Inv, TypeOK
      <4>2. CASE listening' = listening
        BY <4>1, <4>2, Zenon
      <4>3. CASE listening' = FALSE
        BY <4>3, Zenon
      <4> QED  BY <3>2, <4>2, <4>3
    <3> QED  BY <3>1, <3>3, Zenon DEF Inv, TypeOK
  <2>4. CASE Signal
    <3>1. UNCHANGED deadline /\ UNCHANGED graceOver
      BY <2>4 DEF Signal, timers
    <3> QED  BY <2>4, <3>1, Zenon DEF Inv, TypeOK, Signal
  <2>5. CASE Deadline \/ GracePasses
    <3>1. UNCHANGED <<notified, signal, cancelled, listening>>
      BY <2>5 DEF Deadline, GracePasses, signals
    <3>2. deadline' \in {deadline, TRUE} /\ graceOver' \in {graceOver, TRUE}
      BY <2>5, Zenon DEF Deadline, GracePasses
    <3> QED  BY <3>1, <3>2 DEF Inv, TypeOK
  <2> QED  BY <2>1, <2>2, <2>3, <2>4, <2>5
<1>6. TypeOK'
  BY <1>1, <1>2, <1>3, <1>4, <1>5 DEF Inv, TypeOK, requests, ShuttingDown
<1>7. Interrupted'
  BY <1>1 DEF Inv, Interrupted
<1> QED  BY <1>1, <1>6, <1>7, ServerInv DEF ShuttingDown

\* The group is done with its contexts and its listener before Shutdown polls, and with
\* idle connections before it waits.
LEMMA GroupInv == ASSUME Inv, GroupStep PROVE Inv'
<1>1. CASE FirstReturned \/ Interrupt \/ Shutdown \/ Exit
  <2>1. UNCHANGED requests /\ pc' # "wait"
    BY <1>1 DEF FirstReturned, Interrupt, Shutdown, Exit
  <2>2. Active' = Active
    BY <2>1 DEF requests, Active
  <2>3. TypeOK'
    <3>1. CASE FirstReturned \/ Exit
      BY <2>1, <2>2, <3>1 DEF Inv, TypeOK, FirstReturned, Exit, requests, signals, timers,
         ShuttingDown
    <3>2. CASE Interrupt
      BY <2>1, <2>2, <3>2 DEF Inv, TypeOK, Interrupt, requests, signals, timers, ShuttingDown
    <3>3. CASE Shutdown
      BY <2>1, <2>2, <3>3 DEF Inv, TypeOK, Interrupted, Shutdown, requests, signals, timers,
         ShuttingDown
    <3> QED  BY <1>1, <3>1, <3>2, <3>3
  <2>4. Interrupted'
    BY <1>1 DEF Interrupted, FirstReturned, Interrupt, Shutdown, Exit
  <2> QED  BY <2>1, <2>3, <2>4, ServerInv
<1>2. CASE ShutdownPolls
  <2>1. Active' = Active
    BY <1>2 DEF ShutdownPolls, Active
  <2>2. TypeOK'
    BY <1>2, <2>1 DEF Inv, TypeOK, ShutdownPolls, signals, timers, ShuttingDown
  <2>3. HandlersTruthful'
    BY <1>2 DEF Inv, HandlersTruthful, ShutdownPolls
  <2>4. Drained' /\ Interrupted'
    BY <1>2, <2>1 DEF Drained, Interrupted, ShutdownPolls
  <2> QED  BY <2>2, <2>3, <2>4 DEF Inv
<1> QED  BY <1>1, <1>2 DEF GroupStep

\* Connections come only while the listener is open; the first request of one makes it a
\* connection in use.
LEMMA ClientInv ==
    ASSUME Inv, NEW c \in Clients, Connect(c) \/ Disconnect(c) \/ Request(c)
    PROVE  Inv'
<1>1. CASE Connect(c)
  <2>1. Active' = Active /\ UNCHANGED server
    BY <1>1 DEF Connect, Active
  <2>2. TypeOK'
    BY <1>1, <2>1 DEF Inv, TypeOK, Connect, server, signals, timers, ShuttingDown
  <2>3. HandlersTruthful' /\ Drained' /\ Interrupted'
    BY <1>1, <2>1 DEF Inv, HandlersTruthful, Drained, Interrupted, Connect, server
  <2> QED  BY <2>2, <2>3 DEF Inv
<1>2. CASE Disconnect(c)
  <2>1. Active' = Active /\ UNCHANGED server
    BY <1>2 DEF Disconnect, Active
  <2>2. TypeOK'
    BY <1>2, <2>1 DEF Inv, TypeOK, Disconnect, server, signals, timers, ShuttingDown
  <2>3. HandlersTruthful' /\ Drained' /\ Interrupted'
    BY <1>2, <2>1 DEF Inv, HandlersTruthful, Drained, Interrupted, Disconnect, server
  <2> QED  BY <2>2, <2>3 DEF Inv
<1>3. CASE Request(c)
  <2>1. PICK endpoint \in Served[c] :
           handler' = [handler EXCEPT ![c] = [pc |-> "decode", endpoint |-> endpoint]]
    BY <1>3 DEF Request
  <2>2. endpoint \in Routes
    BY <2>1, ServedAssumption
  <2>3. [pc |-> "decode", endpoint |-> endpoint] \in Handling
    BY <2>2 DEF Handling
  <2>4. handler' \in [Clients -> Handling \cup {NoHandler}]
    BY <2>1, <2>3 DEF Inv, TypeOK
  <2>5. Active' = Active \cup {c}
    BY <2>1 DEF Inv, TypeOK, Active, NoHandler
  <2>6. TypeOK'
    BY <1>3, <2>4, <2>5 DEF Inv, TypeOK, Request, server, signals, timers, ShuttingDown
  <2>7. HandlersTruthful'
    BY <2>1 DEF Inv, TypeOK, HandlersTruthful, Truthful
  <2>8. Drained' /\ Interrupted'
    BY <1>3, <2>5 DEF Inv, Drained, Interrupted, Request, server
  <2> QED  BY <2>6, <2>7, <2>8 DEF Inv
<1> QED  BY <1>1, <1>2, <1>3

LEMMA NextInv == Inv /\ [Next]_vars => Inv'
<1> SUFFICES ASSUME Inv, [Next]_vars PROVE Inv'
  OBVIOUS
<1>1. CASE UNCHANGED vars
  <2>1. Active' = Active
    BY <1>1 DEF vars, requests, Active
  <2>2. TypeOK'
    BY <1>1, <2>1 DEF Inv, TypeOK, vars, server, signals, timers, requests, ShuttingDown
  <2> QED  BY <1>1, <2>2, ServerInv DEF Inv, Interrupted, vars, server
<1>2. CASE \E c \in Clients : HandlerStep(c)
  BY <1>2, DecodeInv, CallInv, WriteInv DEF HandlerStep
<1>3. CASE \E c \in Clients : Connect(c) \/ Disconnect(c) \/ Request(c)
  BY <1>3, ClientInv
<1> QED  BY <1>1, <1>2, <1>3, ActorInv, GroupInv DEF Next

\* The inductive invariant of the server.
THEOREM ServerCorrect == Spec => []Inv
BY InitInv, NextInv, PTL DEF Spec

\* For any clients: the phases of the group come with the contexts and the listener they
\* need, and a connection is fresh only before its first request.
THEOREM TypeCorrect == Spec => []TypeOK
<1>1. Inv => TypeOK
  BY DEF Inv
<1> QED  BY <1>1, ServerCorrect, PTL

\* No endpoint, body or error makes a handler answer success of what was not done, or an
\* error of the client of what was.
THEOREM AnswersTrue == Spec => []AnswerTellsEffect
<1>1. Inv => AnswerTellsEffect
  BY DEF Inv, HandlersTruthful, Truthful, AnswerTellsEffect, Active
<1> QED  BY <1>1, ServerCorrect, PTL

\* While the group waits for its actors, no connection but a fresh one brings in a
\* request.
THEOREM NothingNew == Spec => NothingNewAfterShutdown
<1> DEFINE Step == pc = "wait" => Active' \ Active \subseteq fresh /\ fresh' \subseteq fresh
<1>1. Inv /\ [Next]_vars => [Step]_vars
  <2> SUFFICES ASSUME Inv, Next, pc = "wait"
               PROVE  Active' \ Active \subseteq fresh /\ fresh' \subseteq fresh
    OBVIOUS
  <2>1. CASE UNCHANGED requests
    BY <2>1 DEF requests, Active
  <2>2. ~ GroupStep \/ UNCHANGED requests
    BY DEF GroupStep, FirstReturned, Interrupt, Shutdown, ShutdownPolls, Exit
  <2>3. ASSUME NEW c \in Clients, Connect(c)
        PROVE  FALSE
    BY <2>3 DEF Inv, TypeOK, Connect, ShuttingDown
  <2>4. ASSUME NEW c \in Clients, Disconnect(c)
        PROVE  Active' = Active /\ fresh' \subseteq fresh
    BY <2>4 DEF Disconnect, Active
  <2>5. ASSUME NEW c \in Clients, Request(c)
        PROVE  Active' \ Active \subseteq fresh /\ fresh' \subseteq fresh
    BY <2>5 DEF Inv, Drained, Request, Active, NoHandler, TypeOK
  <2>6. ASSUME NEW c \in Clients, HandlerStep(c)
        PROVE  Active' \subseteq Active /\ fresh' = fresh
    <3>1. handler[c].pc \in {"decode", "call", "write"} /\ fresh' = fresh
      BY <2>6 DEF HandlerStep, Decode, Call, Write, Handle
    <3>2. \A d \in Clients \ {c} : handler'[d] = handler[d]
      BY <2>6, ZenonT(40) DEF HandlerStep, Decode, Call, Write, Handle, Inv, TypeOK
    <3> QED  BY <3>1, <3>2 DEF Active, NoHandler
  <2>7. CASE \/ Listen \/ Notify
             \/ SignalReturns \/ WatcherFails \/ WatcherStops \/ ServeReturns \/ ServeFails
             \/ Signal \/ Deadline \/ GracePasses
    <3>1. UNCHANGED requests
      BY <2>7 DEF Listen, Notify, SignalReturns, WatcherFails, WatcherStops, ServeReturns,
         ServeFails, Ends, Signal, Deadline, GracePasses
    <3> QED  BY <3>1, <2>1
  <2> QED  BY <2>1, <2>2, <2>3, <2>4, <2>5, <2>6, <2>7 DEF Next
<1> QED  BY <1>1, ServerCorrect, PTL DEF Spec, NothingNewAfterShutdown
=============================================================================
