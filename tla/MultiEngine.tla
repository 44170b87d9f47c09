---------------------------- MODULE MultiEngine ----------------------------
(***************************************************************************)
(* Many markets, each with an engine of its own (package engine): the map  *)
(* of engines behind a lock, the goroutine of every engine with its        *)
(* command, event, quit and done channels, clients that submit, callers    *)
(* that close markets, and the fan-in of AllEvents.  What a command does   *)
(* to its market is Market; here it is the number of events it emits.      *)
(***************************************************************************)
EXTENDS Integers, FiniteSets, Sequences, SequencesExt, Functions

CONSTANTS
    Markets,      \* the ids of the markets
    Closers,      \* goroutines that call CloseMarket or Close, once each
    MaxEngines,   \* bound on the engines ever created
    MaxEvents,    \* bound on the events of all engines together
    MaxEmits,     \* bound on the events of one command or tick
    CmdBuffer,    \* capacity of cmdChan
    EventBuffer,  \* capacity of eventChan
    OutBuffer,    \* capacity of the channel AllEvents returns
    Nil           \* no engine

Engines == 1..MaxEngines

ASSUME BoundsAssumption ==
    /\ {MaxEngines, MaxEvents, MaxEmits} \subseteq Nat
    /\ {CmdBuffer, EventBuffer, OutBuffer} \subseteq Nat \ {0}
ASSUME NilAssumption == Nil \notin Engines

VARIABLES
    engines,     \* MultiEngine.engines: market -> engine
    created,     \* how many engines have been created; engine e is the e-th
    queued,      \* engine -> commands in cmdChan
    loop,        \* engine -> where run() stands
    toEmit,      \* engine -> events the running handler has still to emit
    eventSeq,    \* engine -> number of the last event emitted
    eventChan,   \* engine -> events in eventChan, by number
    quit,        \* the engines whose quit channel is closed
    closed,      \* the engines whose event channel is closed
    closer,      \* closer -> where its call stands
    handle,      \* closer -> the engine it is closing, or Nil
    toClose,     \* closer -> the markets it has still to close
    merging,     \* AllEvents has been called
    sources,     \* the engines it forwards
    inHand,      \* engine -> the event its forwarder holds, 0 for none
    finished,    \* the engines whose forwarder has returned
    out,         \* the merged channel: pairs of engine and event number
    outClosed,   \* it is closed
    got          \* engine -> number of the last event the consumer received

registry == <<engines, created>>
processor == <<queued, loop, toEmit, eventSeq>>
closing == <<closer, handle, toClose>>
fanIn == <<merging, sources, inHand, finished, out, outClosed>>
vars == <<engines, created, queued, loop, toEmit, eventSeq, eventChan, quit,
          closed, closer, handle, toClose, merging, sources, inHand, finished, out,
          outClosed, got>>

Put(f, k, v) == [x \in DOMAIN f \cup {k} |-> IF x = k THEN v ELSE f[x]]
Delete(f, k) == [x \in DOMAIN f \ {k} |-> f[x]]
NoMap == [x \in {} |-> x]

------------------------------------------------------------------------------
(* CreateMarket and Submit.                                                  *)

\* Fault: an existing market is not looked for.
CreateMarket_Overwrites(m) ==
    /\ created < MaxEngines
    /\ created' = created + 1
    /\ engines' = Put(engines, m, created + 1)
    /\ loop' = [loop EXCEPT ![created + 1] = "select"]
    /\ UNCHANGED <<queued, toEmit, eventSeq, eventChan, quit, closed, closing, fanIn, got>>

\* CreateMarket holds the lock from the look-up to the entry; New and Start in between
\* make the channels and the goroutine.
CreateMarket(m) ==
    /\ m \notin DOMAIN engines
    /\ created < MaxEngines
    /\ created' = created + 1
    /\ engines' = Put(engines, m, created + 1)
    /\ loop' = [loop EXCEPT ![created + 1] = "select"]
    /\ UNCHANGED <<queued, toEmit, eventSeq, eventChan, quit, closed, closing, fanIn, got>>

\* Fault: the channel has no limit.
Submit_Unbounded(e) ==
    /\ e <= created
    /\ queued' = [queued EXCEPT ![e] = @ + 1]
    /\ UNCHANGED <<registry, loop, toEmit, eventSeq, eventChan, quit, closed, closing, fanIn,
                   got>>

\* MultiEngine.Submit looks the engine up under the read lock and sends to it later,
\* without the lock: to any engine there has ever been, also one that has stopped.  It
\* does not wait: a full channel refuses the command.
Submit(e) ==
    /\ e <= created
    /\ queued[e] < CmdBuffer
    /\ queued' = [queued EXCEPT ![e] = @ + 1]
    /\ UNCHANGED <<registry, loop, toEmit, eventSeq, eventChan, quit, closed, closing, fanIn,
                   got>>

------------------------------------------------------------------------------
(* run(): the goroutine of an engine.                                        *)

\* The bound on events leaves room for n more.
RoomFor(n) == FoldFunction(+, n, eventSeq) + FoldFunction(+, 0, toEmit) <= MaxEvents

\* The handler chosen by select will emit n events.
Handle(e, n) ==
    /\ loop[e] = "select"
    /\ RoomFor(n)
    /\ toEmit' = [toEmit EXCEPT ![e] = n]
    /\ loop' = [loop EXCEPT ![e] = IF n = 0 THEN "select" ELSE "emit"]
    /\ UNCHANGED <<registry, eventSeq, eventChan, quit, closed, closing, fanIn, got>>

Dispatch(e) ==
    /\ queued[e] > 0
    /\ queued' = [queued EXCEPT ![e] = @ - 1]
    /\ \E n \in 0..MaxEmits : Handle(e, n)

\* The expiry ticker, or an auction timer.
Tick(e) ==
    /\ \E n \in 1..MaxEmits : Handle(e, n)
    /\ UNCHANGED queued

\* Fault: an event that finds the channel full is dropped.
Emit_DropsWhenFull(e) ==
    /\ loop[e] = "emit"
    /\ eventSeq' = [eventSeq EXCEPT ![e] = @ + 1]
    /\ eventChan' = [eventChan EXCEPT
                        ![e] = IF Len(@) < EventBuffer THEN Append(@, eventSeq[e] + 1) ELSE @]
    /\ toEmit' = [toEmit EXCEPT ![e] = @ - 1]
    /\ loop' = [loop EXCEPT ![e] = IF toEmit[e] = 1 THEN "select" ELSE "emit"]
    /\ UNCHANGED <<registry, queued, quit, closed, closing, fanIn, got>>

\* emit() waits while the event channel is full.
Emit(e) ==
    /\ loop[e] = "emit"
    /\ Len(eventChan[e]) < EventBuffer
    /\ eventSeq' = [eventSeq EXCEPT ![e] = @ + 1]
    /\ eventChan' = [eventChan EXCEPT ![e] = Append(@, eventSeq[e] + 1)]
    /\ toEmit' = [toEmit EXCEPT ![e] = @ - 1]
    /\ loop' = [loop EXCEPT ![e] = IF toEmit[e] = 1 THEN "select" ELSE "emit"]
    /\ UNCHANGED <<registry, queued, quit, closed, closing, fanIn, got>>

\* The goroutine returns and so closes done; queued commands stay behind.
Quit(e) ==
    /\ loop[e] = "select"
    /\ e \in quit
    /\ loop' = [loop EXCEPT ![e] = "done"]
    /\ UNCHANGED <<registry, queued, toEmit, eventSeq, eventChan, quit, closed, closing,
                   fanIn, got>>

------------------------------------------------------------------------------
(* CloseMarket and Close.                                                    *)

\* Fault: the entry is deleted only when the engine has stopped.
TakeEngine_KeepsEntry(k, m) ==
    /\ m \in DOMAIN engines
    /\ closer' = [closer EXCEPT ![k] = "quit"]
    /\ handle' = [handle EXCEPT ![k] = engines[m]]
    /\ UNCHANGED registry

\* The entry of m leaves the map under the lock; Engine.Close follows without it.
TakeEngine(k, m) ==
    /\ m \in DOMAIN engines
    /\ engines' = Delete(engines, m)
    /\ closer' = [closer EXCEPT ![k] = "quit"]
    /\ handle' = [handle EXCEPT ![k] = engines[m]]
    /\ UNCHANGED created

\* ErrMarketNotFound.
NotFound(k, m) ==
    /\ m \notin DOMAIN engines
    /\ closer' = [closer EXCEPT ![k] = "returned"]
    /\ UNCHANGED <<registry, handle>>

CloseMarket(k, m) ==
    /\ closer[k] = "idle"
    /\ TakeEngine(k, m) \/ NotFound(k, m)
    /\ UNCHANGED <<processor, eventChan, quit, closed, toClose, fanIn, got>>

\* Close copies the ids under the lock ...
Close(k) ==
    /\ closer[k] = "idle"
    /\ closer' = [closer EXCEPT ![k] = IF DOMAIN engines = {} THEN "returned" ELSE "next"]
    /\ toClose' = [toClose EXCEPT ![k] = DOMAIN engines]
    /\ UNCHANGED <<registry, processor, eventChan, quit, closed, handle, fanIn, got>>

\* ... and closes the markets one by one, in the order of a Go map.  A market that another
\* caller has closed meanwhile ends the whole call: the others stay open.
CloseNext(k) ==
    /\ closer[k] = "next"
    /\ \E m \in toClose[k] :
          /\ TakeEngine(k, m) \/ NotFound(k, m)
          /\ toClose' = [toClose EXCEPT ![k] = @ \ {m}]
    /\ UNCHANGED <<processor, eventChan, quit, closed, fanIn, got>>

\* Fault: a signal is sent instead, and lost when the goroutine is not waiting for it.
SignalQuit_Lost(k) ==
    /\ closer[k] = "quit"
    /\ quit' = IF loop[handle[k]] = "select" THEN quit \cup {handle[k]} ELSE quit
    /\ closer' = [closer EXCEPT ![k] = "wait"]
    /\ UNCHANGED <<registry, processor, eventChan, closed, handle, toClose, fanIn, got>>

\* Engine.Close: close(quit), <-done, close(eventChan).
SignalQuit(k) ==
    /\ closer[k] = "quit"
    /\ quit' = quit \cup {handle[k]}
    /\ closer' = [closer EXCEPT ![k] = "wait"]
    /\ UNCHANGED <<registry, processor, eventChan, closed, handle, toClose, fanIn, got>>

AwaitDone(k) ==
    /\ closer[k] = "wait"
    /\ loop[handle[k]] = "done"
    /\ closer' = [closer EXCEPT ![k] = "close"]
    /\ UNCHANGED <<registry, processor, eventChan, quit, closed, handle, toClose, fanIn, got>>

\* Fault: the event channel stays open.
CloseEvents_LeftOpen(k) ==
    /\ closer[k] = "close"
    /\ closer' = [closer EXCEPT ![k] = IF toClose[k] = {} THEN "returned" ELSE "next"]
    /\ handle' = [handle EXCEPT ![k] = Nil]
    /\ UNCHANGED <<registry, processor, eventChan, quit, closed, toClose, fanIn, got>>

CloseEvents(k) ==
    /\ closer[k] = "close"
    /\ closed' = closed \cup {handle[k]}
    /\ closer' = [closer EXCEPT ![k] = IF toClose[k] = {} THEN "returned" ELSE "next"]
    /\ handle' = [handle EXCEPT ![k] = Nil]
    /\ UNCHANGED <<registry, processor, eventChan, quit, toClose, fanIn, got>>

------------------------------------------------------------------------------
(* AllEvents and the consumer.                                               *)

\* The engines of this moment; a market created later is not among them.
AllEvents ==
    /\ ~merging
    /\ merging' = TRUE
    /\ sources' = Range(engines)
    /\ UNCHANGED <<registry, processor, eventChan, quit, closed, closing, inHand,
                   finished, out, outClosed, got>>

Receive(e) ==
    /\ e \in sources \ finished
    /\ inHand[e] = 0
    /\ eventChan[e] # <<>>
    /\ inHand' = [inHand EXCEPT ![e] = Head(eventChan[e])]
    /\ eventChan' = [eventChan EXCEPT ![e] = Tail(@)]
    /\ UNCHANGED <<registry, processor, quit, closed, closing, merging, sources,
                   finished, out, outClosed, got>>

Forward(e) ==
    /\ inHand[e] # 0
    /\ Len(out) < OutBuffer
    /\ out' = Append(out, <<e, inHand[e]>>)
    /\ inHand' = [inHand EXCEPT ![e] = 0]
    /\ UNCHANGED <<registry, processor, eventChan, quit, closed, closing, merging,
                   sources, finished, outClosed, got>>

\* Fault: a closed channel is left although it holds events.
ForwarderReturns_Early(e) ==
    /\ e \in sources \ finished
    /\ inHand[e] = 0
    /\ e \in closed
    /\ finished' = finished \cup {e}
    /\ UNCHANGED <<registry, processor, eventChan, quit, closed, closing, merging,
                   sources, inHand, out, outClosed, got>>

\* The range over a channel ends when it is closed and empty.
ForwarderReturns(e) ==
    /\ e \in sources \ finished
    /\ inHand[e] = 0
    /\ eventChan[e] = <<>>
    /\ e \in closed
    /\ finished' = finished \cup {e}
    /\ UNCHANGED <<registry, processor, eventChan, quit, closed, closing, merging,
                   sources, inHand, out, outClosed, got>>

\* Fault: out is closed with the first forwarder that returns.
CloseOut_WithFirst ==
    /\ merging
    /\ sources = {} \/ finished # {}
    /\ ~outClosed
    /\ outClosed' = TRUE
    /\ UNCHANGED <<registry, processor, eventChan, quit, closed, closing, merging,
                   sources, inHand, finished, out, got>>

\* wg.Wait() has returned.
CloseOut ==
    /\ merging
    /\ finished = sources
    /\ ~outClosed
    /\ outClosed' = TRUE
    /\ UNCHANGED <<registry, processor, eventChan, quit, closed, closing, merging,
                   sources, inHand, finished, out, got>>

\* The consumer reads the merged channel, and the channels that are not merged into it.
Drain ==
    /\ out # <<>>
    /\ out' = Tail(out)
    /\ got' = [got EXCEPT ![Head(out)[1]] = Head(out)[2]]
    /\ UNCHANGED <<registry, processor, eventChan, quit, closed, closing, merging,
                   sources, inHand, finished, outClosed>>

DrainDirect(e) ==
    /\ e \notin sources
    /\ eventChan[e] # <<>>
    /\ eventChan' = [eventChan EXCEPT ![e] = Tail(@)]
    /\ got' = [got EXCEPT ![e] = Head(eventChan[e])]
    /\ UNCHANGED <<registry, processor, quit, closed, closing, fanIn>>

------------------------------------------------------------------------------
Init ==
    /\ engines = NoMap
    /\ created = 0
    /\ queued = [e \in Engines |-> 0]
    /\ loop = [e \in Engines |-> "none"]
    /\ toEmit = [e \in Engines |-> 0]
    /\ eventSeq = [e \in Engines |-> 0]
    /\ eventChan = [e \in Engines |-> <<>>]
    /\ quit = {}
    /\ closed = {}
    /\ closer = [k \in Closers |-> "idle"]
    /\ handle = [k \in Closers |-> Nil]
    /\ toClose = [k \in Closers |-> {}]
    /\ merging = FALSE
    /\ sources = {}
    /\ inHand = [e \in Engines |-> 0]
    /\ finished = {}
    /\ out = <<>>
    /\ outClosed = FALSE
    /\ got = [e \in Engines |-> 0]

CloseStep(k) == CloseNext(k) \/ SignalQuit(k) \/ AwaitDone(k) \/ CloseEvents(k)

ForwarderStep(e) == Receive(e) \/ ForwarderReturns(e)

Next ==
    \/ \E m \in Markets : CreateMarket(m)
    \/ \E e \in Engines : Submit(e) \/ Dispatch(e) \/ Tick(e) \/ Emit(e) \/ Quit(e)
    \/ \E k \in Closers, m \in Markets : CloseMarket(k, m)
    \/ \E k \in Closers : Close(k) \/ CloseStep(k)
    \/ AllEvents \/ CloseOut \/ Drain
    \/ \E e \in Engines : ForwarderStep(e) \/ Forward(e) \/ DrainDirect(e)

\* A goroutine that can go on does.  The consumer drains, as the README asks.  select
\* chooses at random among the cases that are ready, so quit is not passed over for ever,
\* and senders that wait for a channel are served in turn.
Fairness ==
    /\ \A k \in Closers : WF_vars(CloseStep(k))
    /\ \A e \in Engines : /\ WF_vars(Emit(e)) /\ SF_vars(Quit(e))
                          /\ WF_vars(ForwarderStep(e)) /\ SF_vars(Forward(e))
                          /\ WF_vars(DrainDirect(e))
    /\ WF_vars(CloseOut)
    /\ WF_vars(Drain)

Spec == Init /\ [][Next]_vars /\ Fairness

------------------------------------------------------------------------------
(* Properties.                                                               *)

\* Types of all variables.
TypeOK ==
    /\ DOMAIN engines \subseteq Markets /\ Range(engines) \subseteq Engines
    /\ created \in 0..MaxEngines
    /\ queued \in [Engines -> 0..CmdBuffer]
    /\ loop \in [Engines -> {"none", "select", "emit", "done"}]
    /\ toEmit \in [Engines -> Nat]
    /\ eventSeq \in [Engines -> Nat]
    /\ eventChan \in [Engines -> Seq(Nat \ {0})]
    /\ quit \subseteq Engines
    /\ closed \subseteq Engines
    /\ closer \in [Closers -> {"idle", "next", "quit", "wait", "close", "returned"}]
    /\ handle \in [Closers -> Engines \cup {Nil}]
    /\ toClose \in [Closers -> SUBSET Markets]
    /\ merging \in BOOLEAN
    /\ sources \subseteq Engines
    /\ inHand \in [Engines -> Nat]
    /\ finished \subseteq sources
    /\ out \in Seq(Engines \X (Nat \ {0}))
    /\ outClosed \in BOOLEAN
    /\ got \in [Engines -> Nat]

\* No goroutine closes a channel twice or sends on a closed one, which would end the
\* process: at most one caller gets hold of an engine, and its event channel is closed
\* only when its goroutine has returned.
NoPanic ==
    /\ \A k \in Closers : closer[k] = "quit" => handle[k] \notin quit
    /\ \A k \in Closers : closer[k] = "close" => handle[k] \notin closed
    /\ \A e \in Engines : loop[e] = "emit" => e \notin closed
    /\ outClosed => \A e \in Engines : inHand[e] = 0

\* No engine runs that nobody can stop: it is in the map under one market, or a caller
\* holds it and is about to close it, or it has been told to quit.
NoOrphan ==
    \A e \in Engines : loop[e] # "none" /\ e \notin quit =>
        \/ \E m \in DOMAIN engines : engines[m] = e
        \/ \E k \in Closers : closer[k] = "quit" /\ handle[k] = e

\* Where the events of e stand in the merged channel; of those, the ones up to position i.
Merged(e) == {j \in DOMAIN out : out[j][1] = e}
MergedUpTo(e, i) == {j \in Merged(e) : j <= i}

\* README, the stress suite: the sequence numbers of a market's events reach the consumer
\* without a gap and in order, across the fan-in and across Close.  What is on its way are
\* the numbers after got[e], first in the merged channel, then with the forwarder, then in
\* the engine's channel, up to eventSeq[e].
EventsInOrder ==
    \A e \in Engines :
        LET merged == got[e] + Cardinality(Merged(e))
            forwarded == IF inHand[e] = 0 THEN merged ELSE merged + 1
        IN  /\ \A i \in Merged(e) : out[i][2] = got[e] + Cardinality(MergedUpTo(e, i))
            /\ inHand[e] \in {0, merged + 1}
            /\ Len(eventChan[e]) = eventSeq[e] - forwarded
            /\ \A i \in DOMAIN eventChan[e] : eventChan[e][i] = forwarded + i

\* When the merged channel is closed, all that its engines ever emitted has been put on it.
MergedComplete ==
    outClosed => \A e \in sources : inHand[e] = 0 /\ eventChan[e] = <<>> /\ e \in closed

\* Every call of CloseMarket and Close returns.
CloseReturns == \A k \in Closers : closer[k] # "idle" ~> closer[k] = "returned"

\* Every event that is emitted reaches the consumer, also when its engine is closed.
EventsArrive ==
    \A e \in Engines, n \in 1..MaxEvents : eventSeq[e] >= n ~> got[e] >= n

\* multiengine.go:76: the goroutine of AllEvents exits when the engines it reads are closed.
MergeEnds == (merging /\ sources \subseteq quit) ~> outClosed
=============================================================================
