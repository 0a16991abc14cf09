-------------------------- MODULE ProcessLifecycle --------------------------
(***************************************************************************)
(* The all-in-one process of cmd/merkle-service/main.go from the first     *)
(* Start to its exit: the services start in order and stop in the reverse  *)
(* order, then the deferred calls close the two P2P producers and the      *)
(* store registry.  Three kinds of services are told apart:                *)
(*                                                                         *)
(*   "api"       the HTTP server and its requests in flight;               *)
(*   "p2p"       the P2P client with its two message loops and             *)
(*               publishWithRetry;                                         *)
(*   "consumer"  a service around kafka.Consumer (subtree fetcher, block   *)
(*               processor, subtree worker, callback delivery): the        *)
(*               goroutine of Consumer.Start, its sessions and handlers.   *)
(*                                                                         *)
(* What the delivery service drains before it stops its consumer is in     *)
(* CallbackDelivery.                                                       *)
(***************************************************************************)
EXTENDS Integers, Sequences

CONSTANTS
    Services,           \* the sequence of services in main
    Kind,               \* Kind[s]: "api", "p2p" or "consumer"
    Loop,               \* the message loops of the P2P client
    MaxPublishRetries,  \* maxPublishRetries (5 in the code)
    MaxReady,           \* bound: ready channels of a consumer
    MaxReceive,         \* bound: messages of the P2P network
    MaxLifeFault            \* bound: failing calls and timeouts

(* main makes one API server and one P2P client, and each service once. *)
ASSUME LifeAssumption ==
    /\ Len(Services) \in Nat \ {0}
    /\ \A m, n \in 1..Len(Services) :
           \/ m = n
           \/ /\ Services[m] # Services[n]
              /\ Kind[Services[m]] = Kind[Services[n]] => Kind[Services[m]] = "consumer"
    /\ MaxPublishRetries \in Nat \ {0}
    /\ MaxReady \in Nat \ {0} /\ MaxReceive \in Nat /\ MaxLifeFault \in Nat

VARIABLES
    main,       \* where main is, and the service it starts or stops
    cancelled,  \* services whose context was cancelled by Stop
    timedOut,   \* services whose Stop returned on its timeout
    group,      \* the goroutine of Consumer.Start
    ready,      \* c.ready, the channels of a consumer counted from 1
    closed,     \* the ready channels that Setup has closed
    requests,   \* API requests in flight
    loop,       \* the message loops of the P2P client
    producers,  \* loops whose Kafka producer is open
    registry,   \* the store registry is open
    panicked,   \* a loop has sent on a closed producer
    received, lifeFaults

lifeVars == <<main, cancelled, timedOut, group, ready, closed, requests, loop, producers,
          registry, panicked, received, lifeFaults>>

Service == {Services[n] : n \in 1..Len(Services)}
Consumer == {s \in Service : Kind[s] = "consumer"}

IdleLoop == [pc |-> "idle", attempt |-> 0]
NoLoop == [pc |-> "none", attempt |-> 0]

(* main has opened the registry and the producers, and started nothing. *)
Opened ==
    /\ cancelled = {} /\ timedOut = {}
    /\ group = [s \in Consumer |-> "none"]
    /\ ready = [s \in Consumer |-> 1]
    /\ closed = [s \in Consumer |-> {}]
    /\ requests = 0
    /\ loop = [g \in Loop |-> NoLoop]
    /\ producers = Loop
    /\ registry = TRUE
    /\ panicked = FALSE
    /\ received = 0 /\ lifeFaults = MaxLifeFault

LifeInit == Opened /\ main = [pc |-> "start", at |-> 1, channel |-> 0]

Alive == main.pc \notin {"exited", "killed"}
Works == UNCHANGED lifeFaults
Fails == lifeFaults > 0 /\ lifeFaults' = lifeFaults - 1

(* main is about to start, or to stop, service s. *)
Starts(s) == main.pc = "start" /\ Services[main.at] = s
Stops(s) == main.pc = "stop" /\ Services[main.at] = s

(* The loops of main over the services. *)
NextStart ==
    main' = IF main.at = Len(Services)
            THEN [main EXCEPT !.pc = "running", !.channel = 0]
            ELSE [main EXCEPT !.pc = "start", !.at = @ + 1, !.channel = 0]
NextStop ==
    main' = IF main.at = 1 THEN [main EXCEPT !.pc = "defer"] ELSE [main EXCEPT !.at = @ - 1]

(* log.Fatal, a panic or the default action of a signal: nothing is deferred. *)
Kill == main' = [main EXCEPT !.pc = "killed"]

-----------------------------------------------------------------------------
(* The HTTP server. *)
StartApi(s) ==
    /\ Starts(s) /\ Kind[s] = "api"
    /\ NextStart
    /\ UNCHANGED <<cancelled, timedOut, group, ready, closed, requests, loop, producers,
                   registry, panicked, received, lifeFaults>>

ApiServes(s) ==
    Kind[s] = "api" /\ s \notin cancelled /\ ~Starts(s) /\ Alive

BeginRequest(s) ==
    /\ ApiServes(s) /\ requests = 0
    /\ requests' = requests + 1
    /\ UNCHANGED <<main, cancelled, timedOut, group, ready, closed, loop, producers,
                   registry, panicked, received, lifeFaults>>

EndRequest ==
    /\ Alive /\ requests > 0
    /\ requests' = requests - 1
    /\ UNCHANGED <<main, cancelled, timedOut, group, ready, closed, loop, producers,
                   registry, panicked, received, lifeFaults>>

-----------------------------------------------------------------------------
(* kafka.Consumer. *)

(* Consumer.Start launches its goroutine and goes on to wait. *)
StartConsumer(s) ==
    /\ Starts(s) /\ Kind[s] = "consumer"
    /\ group' = [group EXCEPT ![s] = "join"]
    /\ main' = [main EXCEPT !.pc = "read"]
    /\ UNCHANGED <<cancelled, timedOut, ready, closed, requests, loop, producers,
                   registry, panicked, received, lifeFaults>>

(* <-c.ready: the field is read once, in a race with the writes of the
   goroutine, so that any of its values may be the one that is read. *)
ReadReady(s) ==
    /\ main.pc = "read" /\ Services[main.at] = s
    /\ \E n \in 1..ready[s] : main' = [main EXCEPT !.pc = "wait", !.channel = n]
    /\ UNCHANGED <<cancelled, timedOut, group, ready, closed, requests, loop, producers,
                   registry, panicked, received, lifeFaults>>

(* The channel is closed: Start returns. *)
Ready(s) ==
    /\ main.pc = "wait" /\ Services[main.at] = s
    /\ main.channel \in closed[s]
    /\ NextStart
    /\ UNCHANGED <<cancelled, timedOut, group, ready, closed, requests, loop, producers,
                   registry, panicked, received, lifeFaults>>

(* Mutant of Setup: the handler does not close its channel. *)
SetupSilent(s) ==
    /\ Alive /\ group[s] = "join" /\ s \notin cancelled
    /\ group' = [group EXCEPT ![s] = "session"]
    /\ UNCHANGED <<main, cancelled, timedOut, ready, closed, requests, loop, producers,
                   registry, panicked, received, lifeFaults>>

(* The group was joined: consumerGroupHandler.Setup. *)
Setup(s) ==
    /\ Alive /\ group[s] = "join" /\ s \notin cancelled
    /\ group' = [group EXCEPT ![s] = "session"]
    /\ closed' = [closed EXCEPT ![s] = @ \cup {ready[s]}]
    /\ UNCHANGED <<main, cancelled, timedOut, ready, requests, loop, producers,
                   registry, panicked, received, lifeFaults>>

(* ConsumeClaim takes a message (select may do so in a cancelled session too);
   the handler returns. *)
Handle(s) ==
    /\ Alive /\ group[s] = "session"
    /\ group' = [group EXCEPT ![s] = "handling"]
    /\ UNCHANGED <<main, cancelled, timedOut, ready, closed, requests, loop, producers,
                   registry, panicked, received, lifeFaults>>

Handled(s) ==
    /\ Alive /\ group[s] = "handling"
    /\ group' = [group EXCEPT ![s] = "session"]
    /\ UNCHANGED <<main, cancelled, timedOut, ready, closed, requests, loop, producers,
                   registry, panicked, received, lifeFaults>>

(* Consume returns: an error before the session, the end of a session by a
   rebalance, or the cancelled context.  The loop ends or tries again, with a
   new channel in c.ready. *)
ConsumeReturns(s) ==
    /\ Alive /\ group[s] \in {"join", "session"}
    /\ IF s \in cancelled
       THEN /\ group' = [group EXCEPT ![s] = "ended"]
            /\ UNCHANGED <<ready, lifeFaults>>
       ELSE /\ ready[s] < MaxReady
            /\ IF group[s] = "join" THEN Fails ELSE Works
            /\ group' = [group EXCEPT ![s] = "join"]
            /\ ready' = [ready EXCEPT ![s] = @ + 1]
    /\ UNCHANGED <<main, cancelled, timedOut, closed, requests, loop, producers,
                   registry, panicked, received>>

-----------------------------------------------------------------------------
(* The P2P client. *)

(* Start: the library's error ends the process, else two loops run. *)
StartP2P(s) ==
    /\ Starts(s) /\ Kind[s] = "p2p"
    /\ \/ Works /\ loop' = [g \in Loop |-> IdleLoop] /\ NextStart
       \/ Fails /\ Kill /\ UNCHANGED loop
    /\ UNCHANGED <<cancelled, timedOut, group, ready, closed, requests, producers,
                   registry, panicked, received>>

LoopGoes(g, pc, attempt) == loop' = [loop EXCEPT ![g] = [pc |-> pc, attempt |-> attempt]]

(* processSubtreeMessages, processBlockMessages: a message, or the context. *)
Receive(g) ==
    /\ Alive /\ loop[g].pc = "idle" /\ received < MaxReceive
    /\ received' = received + 1
    /\ LoopGoes(g, "publish", 1)
    /\ UNCHANGED <<main, cancelled, timedOut, group, ready, closed, requests, producers,
                   registry, panicked, lifeFaults>>

EndLoop(g) ==
    /\ Alive /\ loop[g].pc = "idle" /\ \E s \in cancelled : Kind[s] = "p2p"
    /\ LoopGoes(g, "ended", 0)
    /\ UNCHANGED <<main, cancelled, timedOut, group, ready, closed, requests, producers,
                   registry, panicked, received, lifeFaults>>

Exhausted(n) == n = MaxPublishRetries

(* publishWithRetry: one call of Publish.  On a closed producer it panics. *)
Publish(g) ==
    /\ Alive /\ loop[g].pc = "publish"
    /\ LET n == loop[g].attempt IN
       \/ /\ g \notin producers /\ Works
          /\ Kill /\ panicked' = TRUE
          /\ UNCHANGED loop
       \/ /\ g \in producers /\ Works
          /\ LoopGoes(g, "idle", 0)
          /\ UNCHANGED <<main, panicked>>
       \/ /\ g \in producers /\ Fails
          /\ IF Exhausted(n) THEN LoopGoes(g, "idle", 0) ELSE LoopGoes(g, "sleep", n)
          /\ UNCHANGED <<main, panicked>>
    /\ UNCHANGED <<cancelled, timedOut, group, ready, closed, requests, producers,
                   registry, received>>

(* time.Sleep(delay), which does not look at the context *)
Wake(g) ==
    /\ Alive /\ loop[g].pc = "sleep"
    /\ LoopGoes(g, "publish", loop[g].attempt + 1)
    /\ UNCHANGED <<main, cancelled, timedOut, group, ready, closed, requests, producers,
                   registry, panicked, received, lifeFaults>>

-----------------------------------------------------------------------------
(* main, from the signal on. *)

(* WaitForShutdown returns; before it the signal has its default action. *)
Signal ==
    /\ Alive
    /\ \/ main.pc = "running" /\ main' = [main EXCEPT !.pc = "stop"]
       \/ main.pc \in {"start", "read", "wait"} /\ Kill
    /\ UNCHANGED <<cancelled, timedOut, group, ready, closed, requests, loop, producers,
                   registry, panicked, received, lifeFaults>>

(* Mutant of Cancel: Stop waits without cancelling the context. *)
CancelNot(s) ==
    /\ Stops(s) /\ s \notin cancelled
    /\ UNCHANGED lifeVars

(* The beginning of Stop: cancel, or Shutdown closes the listener. *)
Cancel(s) ==
    /\ Stops(s) /\ s \notin cancelled
    /\ cancelled' = cancelled \cup {s}
    /\ UNCHANGED <<main, timedOut, group, ready, closed, requests, loop, producers,
                   registry, panicked, received, lifeFaults>>

(* What the three kinds of Stop wait for: Shutdown, and twice wg.Wait. *)
RequestsEnded == requests = 0
LoopsEnded == \A g \in Loop : loop[g].pc = "ended"

(* Mutant of GroupEnded: the consumer's goroutine is not waited for. *)
GroupEndedOrNot(s) == TRUE

GroupEnded(s) == group[s] = "ended"

Drained(s) ==
    \/ Kind[s] = "api" /\ RequestsEnded
    \/ Kind[s] = "p2p" /\ LoopsEnded
    \/ Kind[s] = "consumer" /\ GroupEnded(s)

(* Stop returns.  The API server and the P2P client wait for ten seconds only;
   kafka.Consumer waits for its handlers however long they take. *)
StopReturns(s) ==
    /\ Stops(s) /\ s \in cancelled
    /\ \/ Drained(s) /\ Works /\ UNCHANGED timedOut
       \/ /\ ~Drained(s) /\ Kind[s] # "consumer" /\ Fails
          /\ timedOut' = timedOut \cup {s}
    /\ NextStop
    /\ UNCHANGED <<cancelled, group, ready, closed, requests, loop, producers, registry,
                   panicked, received>>

(* defer blockProducer.Close(), defer subtreeProducer.Close() *)
CloseProducer(g) ==
    /\ main.pc = "defer" /\ g \in producers
    /\ producers' = producers \ {g}
    /\ UNCHANGED <<main, cancelled, timedOut, group, ready, closed, requests, loop,
                   registry, panicked, received, lifeFaults>>

(* defer registry.Close(): the closers of the backend, see SQLStartup *)
CloseRegistry ==
    /\ main.pc = "defer" /\ producers = {} /\ registry
    /\ registry' = FALSE
    /\ UNCHANGED <<main, cancelled, timedOut, group, ready, closed, requests, loop,
                   producers, panicked, received, lifeFaults>>

Exit ==
    /\ main.pc = "defer" /\ ~registry
    /\ main' = [main EXCEPT !.pc = "exited"]
    /\ UNCHANGED <<cancelled, timedOut, group, ready, closed, requests, loop, producers,
                   registry, panicked, received, lifeFaults>>

MainStep ==
    \/ \E s \in Service : StartApi(s) \/ StartP2P(s) \/ Cancel(s) \/ StopReturns(s)
    \/ \E s \in Consumer : StartConsumer(s) \/ ReadReady(s) \/ Ready(s)
    \/ \E g \in Loop : CloseProducer(g)
    \/ CloseRegistry \/ Exit

LifeNext ==
    \/ MainStep
    \/ Signal
    \/ \E s \in Service : BeginRequest(s)
    \/ EndRequest
    \/ \E s \in Consumer : Setup(s) \/ Handle(s) \/ Handled(s) \/ ConsumeReturns(s)
    \/ \E g \in Loop : Receive(g) \/ EndLoop(g) \/ Publish(g) \/ Wake(g)

LifeSpec == LifeInit /\ [][LifeNext]_lifeVars

(***************************************************************************)
(* main and the goroutines run on; handlers, requests and calls return; a  *)
(* broker that is not failing lets the consumer join; select does not for  *)
(* ever prefer a message to the end of its session.                        *)
(***************************************************************************)
LifeFairness ==
    /\ WF_lifeVars(MainStep)
    /\ WF_lifeVars(EndRequest)
    /\ \A s \in Consumer :
           /\ WF_lifeVars(Setup(s) \/ Handled(s))
           /\ SF_lifeVars(ConsumeReturns(s) /\ s \in cancelled)
    /\ \A g \in Loop : WF_lifeVars(EndLoop(g) \/ Publish(g) \/ Wake(g))

-----------------------------------------------------------------------------
(* Properties.                                                             *)

(* Every variable has its type. *)
LifeTypeOK ==
    /\ main \in [pc : {"start", "read", "wait", "running", "stop", "defer", "exited",
                       "killed"},
                 at : 1..Len(Services), channel : 0..MaxReady]
    /\ cancelled \subseteq Service /\ timedOut \subseteq cancelled
    /\ group \in [Consumer -> {"none", "join", "session", "handling", "ended"}]
    /\ ready \in [Consumer -> 1..MaxReady]
    /\ closed \in [Consumer -> SUBSET (1..MaxReady)]
    /\ requests \in {0, 1}
    /\ loop \in [Loop -> [pc : {"none", "idle", "publish", "sleep", "ended"},
                          attempt : 0..MaxPublishRetries]]
    /\ producers \subseteq Loop /\ registry \in BOOLEAN
    /\ panicked \in BOOLEAN
    /\ received \in 0..MaxReceive /\ lifeFaults \in 0..MaxLifeFault

InUse(s) ==
    \/ Kind[s] = "api" /\ requests > 0
    \/ Kind[s] = "p2p" /\ \E g \in Loop : loop[g].pc \in {"publish", "sleep"}
    \/ Kind[s] = "consumer" /\ group[s] = "handling"

(***************************************************************************)
(* Nobody works with what was closed: once Stop of a service has returned, *)
(* and with it its producers are closed, none of its handlers, requests or *)
(* publishes is under way, and no message is sent on a closed producer of  *)
(* the P2P client, unless the ten seconds that Stop waits were over first. *)
(***************************************************************************)
NoUseAfterClose ==
    /\ \A s \in cancelled : InUse(s) => Stops(s) \/ s \in timedOut \/ ~Alive
    /\ main.pc = "defer" => \A s \in Service : InUse(s) => s \in timedOut
    /\ panicked => \E s \in timedOut : Kind[s] = "p2p"

(* Start waits for a channel that c.ready no longer holds and nobody closes:
   Consume failed between the start of the goroutine and the first Setup. *)
StaleReady ==
    /\ main.pc = "wait"
    /\ main.channel < ready[Services[main.at]]
    /\ main.channel \notin closed[Services[main.at]]

(***************************************************************************)
(* main leaves the Start loop, or it hangs in Consumer.Start because the   *)
(* first Consume failed and the goroutine replaced the channel: there is   *)
(* no other way in which the services wait for ever.                       *)
(***************************************************************************)
StartReturns ==
    main.pc \in {"start", "read", "wait"} ~>
        (main.pc \notin {"start", "read", "wait"} \/ StaleReady)

(* After the signal the process stops its services, closes what it opened and
   exits, whatever its services are doing. *)
ShutdownReturns == main.pc = "stop" ~> ~Alive
=============================================================================
