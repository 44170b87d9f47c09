------------------------- MODULE MultiEngineProofs -------------------------
(***************************************************************************)
(* Proofs about MultiEngine, for every set of markets and callers and      *)
(* every buffer size: its types, that no channel is closed twice or sent   *)
(* on when closed, that no engine is left that nobody can stop, that the   *)
(* merged stream is complete when it is closed, and that every event       *)
(* travels to the consumer once and in order.                              *)
(***************************************************************************)
EXTENDS MultiEngine, SequenceTheorems, FiniteSetTheorems, TLAPS

\* The caller holds an engine that it has taken out of the map.
Holds(k) == closer[k] \in {"quit", "wait", "close"}

\* An engine has one owner: the map under one market, or one caller.
Owned ==
    /\ \A m, n \in DOMAIN engines : engines[m] = engines[n] => m = n
    /\ \A m \in DOMAIN engines : engines[m] <= created /\ engines[m] \notin quit
    /\ \A k \in Closers : Holds(k) =>
          /\ handle[k] \in Engines
          /\ handle[k] <= created
          /\ \A m \in DOMAIN engines : engines[m] # handle[k]
          /\ closer[k] = "quit" => handle[k] \notin quit
          /\ closer[k] = "close" => loop[handle[k]] = "done"
          /\ handle[k] \notin closed
    /\ \A j, k \in Closers : Holds(j) /\ Holds(k) /\ handle[j] = handle[k] => j = k

\* An engine that has not been created has done nothing; its event channel is closed after
\* its goroutine has returned, which is after quit is closed.
Ordered ==
    /\ \A e \in Engines : loop[e] # "none" => e <= created
    /\ \A e \in quit : e <= created
    /\ \A e \in Engines : loop[e] = "done" => e \in quit
    /\ \A e \in closed : loop[e] = "done"
    /\ \A e \in Engines : loop[e] = "emit" => toEmit[e] >= 1

\* A forwarder works on a source, and has nothing left to do when it has returned.
Forwarded ==
    /\ ~merging => sources = {}
    /\ \A e \in Engines : inHand[e] # 0 => e \in sources
    /\ \A e \in finished : inHand[e] = 0 /\ eventChan[e] = <<>> /\ e \in closed
    /\ outClosed => merging /\ finished = sources

\* The inductive invariant.
IInv == TypeOK /\ Owned /\ Ordered /\ Forwarded /\ NoOrphan

------------------------------------------------------------------------------
(* Lemmas.                                                                   *)

\* The bounds as numbers.
LEMMA Bounds ==
    /\ MaxEngines \in Nat /\ CmdBuffer \in Nat \ {0}
    /\ 0 \notin Engines /\ Nil \notin Engines /\ Engines \subseteq Nat
BY BoundsAssumption, NilAssumption DEF Engines

LEMMA InitInv == Init => IInv
<1> SUFFICES ASSUME Init PROVE IInv
  OBVIOUS
<1>1. DOMAIN engines = {} /\ Range(engines) = {}
  BY DEF Init, NoMap, Range
<1>2. TypeOK
  <2>1. <<>> \in Seq(Nat \ {0}) /\ <<>> \in Seq(Engines \X (Nat \ {0}))
    BY EmptySeq
  <2>2. /\ queued \in [Engines -> 0..CmdBuffer]
        /\ loop \in [Engines -> {"none", "select", "emit", "done"}]
        /\ toEmit \in [Engines -> Nat] /\ eventSeq \in [Engines -> Nat]
        /\ inHand \in [Engines -> Nat] /\ got \in [Engines -> Nat]
    BY Bounds DEF Init
  <2>3. /\ closer \in [Closers -> {"idle", "next", "quit", "wait", "close", "returned"}]
        /\ handle \in [Closers -> Engines \cup {Nil}]
        /\ toClose \in [Closers -> SUBSET Markets]
    BY DEF Init
  <2>4. eventChan \in [Engines -> Seq(Nat \ {0})]
    <3> DEFINE S == Seq(Nat \ {0})
    <3>1. <<>> \in S /\ eventChan = [e \in Engines |-> <<>>]
      BY <2>1 DEF Init
    <3> HIDE DEF S
    <3>2. eventChan \in [Engines -> S]
      BY <3>1
    <3> QED
      BY <3>2 DEF S
  <2>6. out \in Seq(Engines \X (Nat \ {0}))
    BY <2>1 DEF Init
  <2>5. /\ quit \subseteq Engines /\ closed \subseteq Engines
        /\ merging \in BOOLEAN /\ sources \subseteq Engines /\ finished \subseteq sources
        /\ outClosed \in BOOLEAN
    BY Zenon DEF Init
  <2>7. created \in 0..MaxEngines
    <3>1. created = 0
      BY DEF Init
    <3> QED
      BY <3>1, Bounds
  <2> QED
    BY <1>1, <2>2, <2>3, <2>4, <2>5, <2>6, <2>7 DEF TypeOK
<1>3. Owned
  BY <1>1 DEF Init, Owned, Holds
<1>4. Ordered
  BY DEF Init, Ordered
<1>5. Forwarded
  BY DEF Init, Forwarded
<1>6. NoOrphan
  BY DEF Init, NoOrphan
<1> QED
  BY <1>2, <1>3, <1>4, <1>5, <1>6 DEF IInv
------------------------------------------------------------------------------
(* Steps that leave parts of the state alone.                                *)

LEMMA OwnedFrame ==
    ASSUME Owned, UNCHANGED <<engines, created, quit, closed, closer, handle>>,
           \A e \in Engines : loop[e] = "done" => loop'[e] = "done"
    PROVE  Owned'
BY DEF Owned, Holds

LEMMA NoOrphanFrame ==
    ASSUME NoOrphan, UNCHANGED <<engines, quit, closer, handle>>,
           \A e \in Engines : loop'[e] # "none" => loop[e] # "none"
    PROVE  NoOrphan'
BY DEF NoOrphan

LEMMA ForwardedFrame ==
    ASSUME Forwarded, closed \subseteq closed',
           UNCHANGED <<merging, sources, inHand, finished, outClosed>>,
           \A e \in finished : eventChan'[e] = eventChan[e]
    PROVE  Forwarded'
BY DEF Forwarded

------------------------------------------------------------------------------
(* Clients and the goroutines of the engines.                                *)

LEMMA CreateMarketInv ==
    ASSUME IInv, NEW m \in Markets, CreateMarket(m)
    PROVE  IInv'
<1> DEFINE e == created + 1
<1>1. /\ m \notin DOMAIN engines /\ created < MaxEngines /\ created' = e
      /\ engines' = Put(engines, m, e)
      /\ loop' = [loop EXCEPT ![e] = "select"]
      /\ UNCHANGED <<queued, toEmit, eventSeq, eventChan, quit, closed, closer, handle,
                     toClose, merging, sources, inHand, finished, out, outClosed, got>>
  BY DEF CreateMarket, closing, fanIn
<1>2. e \in Engines /\ created \in Nat /\ e > created
  BY <1>1, Bounds DEF IInv, TypeOK, Engines
<1>3. \A d \in Engines : d <= created => d # e /\ d <= e
  BY <1>2, Bounds
<1> HIDE DEF e
<1>4. /\ DOMAIN engines' = DOMAIN engines \cup {m}
      /\ engines'[m] = e
      /\ \A n \in DOMAIN engines : n # m /\ engines'[n] = engines[n] /\ engines[n] # e
  <2>1. \A n \in DOMAIN engines : engines[n] <= created /\ engines[n] \in Engines
    BY DEF IInv, Owned, TypeOK, Range
  <2> QED
    BY <2>1, <1>1, <1>3 DEF Put
<1>5. TypeOK'
  <2>1. DOMAIN engines' \subseteq Markets /\ Range(engines') \subseteq Engines
    BY <1>2, <1>4 DEF IInv, TypeOK, Range
  <2>2. created' \in 0..MaxEngines
    BY <1>1, <1>2, Bounds DEF Engines
  <2>3. loop' \in [Engines -> {"none", "select", "emit", "done"}]
    BY <1>1 DEF IInv, TypeOK
  <2> QED
    BY <1>1, <2>1, <2>2, <2>3 DEF IInv, TypeOK
<1>6. e \notin quit /\ e \notin closed /\ loop[e] = "none"
  BY <1>2, Bounds DEF IInv, Ordered, TypeOK
<1>7. /\ \A d \in Engines : d # e => loop'[d] = loop[d]
      /\ loop'[e] = "select"
  BY <1>1, <1>2 DEF IInv, TypeOK
<1>8. Owned'
  <2>1. \A n \in DOMAIN engines : engines[n] <= e /\ engines[n] \notin quit
    <3>1. \A n \in DOMAIN engines :
             engines[n] <= created /\ engines[n] \in Engines /\ engines[n] \notin quit
      BY DEF IInv, Owned, TypeOK, Range
    <3> QED
      BY <3>1, <1>3
  <2>2. \A k \in Closers : Holds(k) => handle[k] # e /\ handle[k] <= e /\ handle[k] \in Engines
    BY <1>3 DEF IInv, Owned
  <2>3. \A k \in Closers : Holds(k)' <=> Holds(k)
    BY <1>1 DEF Holds
  <2>4. \A n \in DOMAIN engines' : engines'[n] <= created' /\ engines'[n] \notin quit'
    <3>1. e <= e
      BY <1>2, Bounds
    <3> QED
      BY <3>1, <1>1, <1>4, <1>6, <2>1
  <2>5. \A n, p \in DOMAIN engines' : engines'[n] = engines'[p] => n = p
    BY <1>4 DEF IInv, Owned
  <2>6. ASSUME NEW k \in Closers, Holds(k)'
        PROVE  /\ handle'[k] \in Engines
               /\ handle'[k] <= created'
               /\ \A n \in DOMAIN engines' : engines'[n] # handle'[k]
               /\ closer'[k] = "quit" => handle'[k] \notin quit'
               /\ closer'[k] = "close" => loop'[handle'[k]] = "done"
               /\ handle'[k] \notin closed'
    BY <1>1, <1>4, <1>7, <2>2, <2>3, <2>6 DEF IInv, Owned
  <2>7. \A j, k \in Closers : Holds(j)' /\ Holds(k)' /\ handle'[j] = handle'[k] => j = k
    BY <1>1, <2>3 DEF IInv, Owned
  <2> QED
    BY <2>4, <2>5, <2>6, <2>7 DEF Owned
<1>9. Ordered'
  <2>1. \A d \in quit : d <= e
    BY <1>3 DEF IInv, Ordered, TypeOK
  <2>2. \A d \in Engines : loop'[d] # "none" => d <= e
    <3>1. e <= e
      BY <1>2, Bounds
    <3> QED
      BY <3>1, <1>3, <1>7 DEF IInv, Ordered
  <2> QED
    BY <1>1, <1>6, <1>7, <2>1, <2>2 DEF IInv, Ordered, TypeOK
<1>10. Forwarded'
  BY <1>1, ForwardedFrame DEF IInv
<1>11. NoOrphan'
  BY <1>1, <1>4, <1>7 DEF IInv, NoOrphan
<1> QED
  BY <1>5, <1>8, <1>9, <1>10, <1>11 DEF IInv

LEMMA SubmitInv ==
    ASSUME IInv, NEW e \in Engines, Submit(e)
    PROVE  IInv'
<1>1. /\ queued[e] < CmdBuffer /\ queued' = [queued EXCEPT ![e] = @ + 1]
      /\ UNCHANGED <<engines, created, loop, toEmit, eventSeq, eventChan, quit, closed,
                     closer, handle, toClose, merging, sources, inHand, finished, out,
                     outClosed, got>>
  BY DEF Submit, registry, closing, fanIn
<1>2. TypeOK'
  <2>1. queued \in [Engines -> 0..CmdBuffer]
    BY DEF IInv, TypeOK
  <2>2. queued' \in [Engines -> 0..CmdBuffer]
    BY <1>1, <2>1, Bounds
  <2> QED
    BY <1>1, <2>2 DEF IInv, TypeOK
<1> QED
  BY <1>1, <1>2, OwnedFrame, NoOrphanFrame, ForwardedFrame DEF IInv, Ordered

\* A handler begins: nobody but its engine notices.
LEMMA HandleInv ==
    ASSUME IInv, NEW e \in Engines, NEW n \in Nat, Handle(e, n), queued' \in [Engines -> 0..CmdBuffer]
    PROVE  IInv'
<1>1. /\ loop[e] = "select"
      /\ toEmit' = [toEmit EXCEPT ![e] = n]
      /\ loop' = [loop EXCEPT ![e] = IF n = 0 THEN "select" ELSE "emit"]
      /\ UNCHANGED <<engines, created, eventSeq, eventChan, quit, closed, closer, handle,
                     toClose, merging, sources, inHand, finished, out, outClosed, got>>
  BY DEF Handle, registry, closing, fanIn
<1>2. TypeOK'
  BY <1>1 DEF IInv, TypeOK
<1>3. \A d \in Engines : d # e => loop'[d] = loop[d] /\ toEmit'[d] = toEmit[d]
  BY <1>1 DEF IInv, TypeOK
<1>4. loop'[e] = (IF n = 0 THEN "select" ELSE "emit") /\ toEmit'[e] = n
  BY <1>1 DEF IInv, TypeOK
<1>5. Ordered'
  <2>1. \A d \in Engines : /\ loop[d] # "none" => d <= created
                           /\ loop[d] = "done" => d \in quit
                           /\ d \in closed => loop[d] = "done"
                           /\ loop[d] = "emit" => toEmit[d] >= 1
    BY DEF IInv, Ordered
  <2>2. closed \subseteq Engines /\ e \notin closed
    BY <1>1, <2>1 DEF IInv, TypeOK
  <2>3. loop'[e] = "select" \/ (loop'[e] = "emit" /\ n >= 1)
    BY <1>4
  <2>4. \A d \in Engines : /\ loop'[d] # "none" => d <= created'
                           /\ loop'[d] = "done" => d \in quit'
                           /\ loop'[d] = "emit" => toEmit'[d] >= 1
    BY <1>1, <1>3, <1>4, <2>1, <2>3
  <2>5. \A d \in closed' : loop'[d] = "done"
    BY <1>1, <1>3, <2>1, <2>2
  <2>6. \A d \in quit' : d <= created'
    BY <1>1 DEF IInv, Ordered
  <2> QED
    BY <2>4, <2>5, <2>6 DEF Ordered
<1>6. Owned' /\ NoOrphan' /\ Forwarded'
  BY <1>1, <1>3, <1>4, OwnedFrame, NoOrphanFrame, ForwardedFrame DEF IInv
<1> QED
  BY <1>2, <1>5, <1>6 DEF IInv

LEMMA DispatchInv ==
    ASSUME IInv, NEW e \in Engines, Dispatch(e) \/ Tick(e)
    PROVE  IInv'
<1>1. MaxEmits \in Nat
  BY BoundsAssumption
<1>2. queued' \in [Engines -> 0..CmdBuffer]
  <2>1. queued \in [Engines -> 0..CmdBuffer]
    BY DEF IInv, TypeOK
  <2>2. CASE queued[e] > 0 /\ queued' = [queued EXCEPT ![e] = @ - 1]
    BY <2>1, <2>2, Bounds
  <2>3. CASE UNCHANGED queued
    BY <2>1, <2>3
  <2> QED
    BY <2>2, <2>3 DEF Dispatch, Tick
<1>3. PICK n \in 0..MaxEmits : Handle(e, n)
  <2>1. CASE \E n \in 0..MaxEmits : Handle(e, n)
    BY <2>1
  <2>2. CASE \E n \in 1..MaxEmits : Handle(e, n)
    <3>1. PICK n \in 1..MaxEmits : Handle(e, n)
      BY <2>2
    <3>2. n \in 0..MaxEmits
      BY <1>1
    <3> QED
      BY <3>1, <3>2
  <2> QED
    BY <2>1, <2>2 DEF Dispatch, Tick
<1>4. n \in Nat
  BY <1>1
<1> QED
  BY <1>2, <1>3, <1>4, HandleInv
\* Emit appends to a channel that nobody has closed.
LEMMA EmitInv ==
    ASSUME IInv, NEW e \in Engines, Emit(e)
    PROVE  IInv'
<1>1. /\ loop[e] = "emit"
      /\ eventSeq' = [eventSeq EXCEPT ![e] = @ + 1]
      /\ eventChan' = [eventChan EXCEPT ![e] = Append(@, eventSeq[e] + 1)]
      /\ toEmit' = [toEmit EXCEPT ![e] = @ - 1]
      /\ loop' = [loop EXCEPT ![e] = IF toEmit[e] = 1 THEN "select" ELSE "emit"]
      /\ UNCHANGED <<engines, created, queued, quit, closed, closer, handle, toClose,
                     merging, sources, inHand, finished, out, outClosed, got>>
  BY DEF Emit, registry, closing, fanIn
<1>2. /\ toEmit \in [Engines -> Nat] /\ toEmit[e] >= 1
      /\ eventSeq \in [Engines -> Nat] /\ eventChan \in [Engines -> Seq(Nat \ {0})]
      /\ loop \in [Engines -> {"none", "select", "emit", "done"}]
  BY <1>1 DEF IInv, Ordered, TypeOK
<1>3. /\ \A d \in Engines : d # e => loop'[d] = loop[d] /\ toEmit'[d] = toEmit[d]
                                     /\ eventChan'[d] = eventChan[d]
      /\ loop'[e] = (IF toEmit[e] = 1 THEN "select" ELSE "emit")
      /\ toEmit'[e] = toEmit[e] - 1
  BY <1>1, <1>2
<1>4. TypeOK'
  <2>1. eventSeq[e] + 1 \in Nat \ {0}
    BY <1>2
  <2>2. Append(eventChan[e], eventSeq[e] + 1) \in Seq(Nat \ {0})
    BY <1>2, <2>1, AppendProperties
  <2>3. eventChan' \in [Engines -> Seq(Nat \ {0})]
    BY <1>1, <1>2, <2>2, Zenon
  <2>4. eventSeq' \in [Engines -> Nat] /\ toEmit' \in [Engines -> Nat]
    BY <1>1, <1>2, <2>1
  <2>5. loop' \in [Engines -> {"none", "select", "emit", "done"}]
    BY <1>1, <1>2
  <2> QED
    BY <1>1, <2>3, <2>4, <2>5 DEF IInv, TypeOK
<1>5. Ordered'
  <2>1. toEmit[e] # 1 => toEmit[e] - 1 >= 1
    BY <1>2
  <2>2. \A d \in Engines : loop'[d] = "emit" => toEmit'[d] >= 1
    BY <1>3, <2>1 DEF IInv, Ordered
  <2> QED
    BY <1>1, <1>3, <2>2 DEF IInv, Ordered, TypeOK
<1>6. e \notin finished /\ finished \subseteq Engines
  BY <1>1 DEF IInv, Forwarded, Ordered, TypeOK
<1>7. Owned' /\ NoOrphan' /\ Forwarded'
  BY <1>1, <1>3, <1>6, OwnedFrame, NoOrphanFrame, ForwardedFrame DEF IInv
<1> QED
  BY <1>4, <1>5, <1>7 DEF IInv

LEMMA QuitInv ==
    ASSUME IInv, NEW e \in Engines, Quit(e)
    PROVE  IInv'
<1>1. /\ loop[e] = "select" /\ e \in quit
      /\ loop' = [loop EXCEPT ![e] = "done"]
      /\ UNCHANGED <<engines, created, queued, toEmit, eventSeq, eventChan, quit, closed,
                     closer, handle, toClose, merging, sources, inHand, finished, out,
                     outClosed, got>>
  BY DEF Quit, registry, closing, fanIn
<1>2. TypeOK'
  <2>1. loop' \in [Engines -> {"none", "select", "emit", "done"}]
    BY <1>1 DEF IInv, TypeOK
  <2> QED
    BY <1>1, <2>1 DEF IInv, TypeOK
<1>3. /\ \A d \in Engines : d # e => loop'[d] = loop[d]
      /\ loop'[e] = "done"
  BY <1>1 DEF IInv, TypeOK
<1>4. Ordered'
  BY <1>1, <1>3 DEF IInv, Ordered, TypeOK
<1>5. Owned' /\ NoOrphan' /\ Forwarded'
  BY <1>1, <1>3, OwnedFrame, NoOrphanFrame, ForwardedFrame DEF IInv
<1> QED
  BY <1>2, <1>4, <1>5 DEF IInv

------------------------------------------------------------------------------
(* The callers of CloseMarket and Close.                                     *)

\* A caller that gets hold of an engine becomes its owner.
LEMMA TakeEngineInv ==
    ASSUME IInv, NEW k \in Closers, NEW m, TakeEngine(k, m), closer[k] \in {"idle", "next"},
           UNCHANGED <<queued, loop, toEmit, eventSeq, eventChan, quit, closed, merging,
                       sources, inHand, finished, out, outClosed, got>>,
           toClose' \in [Closers -> SUBSET Markets]
    PROVE  IInv'
<1> DEFINE e == engines[m]
<1>1. /\ m \in DOMAIN engines
      /\ engines' = Delete(engines, m)
      /\ closer' = [closer EXCEPT ![k] = "quit"]
      /\ handle' = [handle EXCEPT ![k] = e]
      /\ UNCHANGED created
  BY DEF TakeEngine
<1>2. /\ DOMAIN engines' = DOMAIN engines \ {m}
      /\ \A n \in DOMAIN engines' : engines'[n] = engines[n]
  BY <1>1 DEF Delete
<1>3. /\ e \in Engines /\ e <= created /\ e \notin quit /\ e \notin closed
      /\ \A n \in DOMAIN engines' : engines'[n] # e
      /\ \A j \in Closers : Holds(j) => handle[j] # e
  BY <1>1, <1>2 DEF IInv, Owned, Ordered, TypeOK, Range
<1> HIDE DEF e
<1>4. TypeOK'
  <2>1. DOMAIN engines' \subseteq Markets /\ Range(engines') \subseteq Engines
    BY <1>2 DEF IInv, TypeOK, Range
  <2>2. /\ closer' \in [Closers -> {"idle", "next", "quit", "wait", "close", "returned"}]
        /\ handle' \in [Closers -> Engines \cup {Nil}]
    BY <1>1, <1>3 DEF IInv, TypeOK
  <2> QED
    BY <1>1, <2>1, <2>2 DEF IInv, TypeOK
<1>5. /\ closer'[k] = "quit" /\ handle'[k] = e
      /\ \A j \in Closers : j # k => closer'[j] = closer[j] /\ handle'[j] = handle[j]
      /\ ~Holds(k)
  BY <1>1, <1>3 DEF IInv, TypeOK, Holds
<1>6. Owned'
  <2>1. ASSUME NEW j \in Closers, Holds(j)'
        PROVE  /\ handle'[j] \in Engines
               /\ handle'[j] <= created'
               /\ \A n \in DOMAIN engines' : engines'[n] # handle'[j]
               /\ closer'[j] = "quit" => handle'[j] \notin quit'
               /\ closer'[j] = "close" => loop'[handle'[j]] = "done"
               /\ handle'[j] \notin closed'
    <3>1. CASE j = k
      BY <3>1, <1>1, <1>3, <1>5
    <3>2. CASE j # k
      BY <2>1, <3>2, <1>1, <1>2, <1>5 DEF IInv, Owned, Holds
    <3> QED
      BY <3>1, <3>2
  <2>2. \A i, j \in Closers : Holds(i)' /\ Holds(j)' /\ handle'[i] = handle'[j] => i = j
    BY <1>3, <1>5 DEF IInv, Owned, Holds
  <2>3. \A n \in DOMAIN engines' : engines'[n] <= created' /\ engines'[n] \notin quit'
    BY <1>1, <1>2 DEF IInv, Owned
  <2>4. \A n, p \in DOMAIN engines' : engines'[n] = engines'[p] => n = p
    BY <1>2 DEF IInv, Owned
  <2> QED
    BY <2>1, <2>2, <2>3, <2>4 DEF Owned
<1>7. NoOrphan'
  <2>1. ASSUME NEW d \in Engines, loop'[d] # "none", d \notin quit'
        PROVE  \/ \E n \in DOMAIN engines' : engines'[n] = d
               \/ \E j \in Closers : closer'[j] = "quit" /\ handle'[j] = d
    <3>1. CASE d = e
      BY <3>1, <1>5
    <3>2. CASE d # e
      <4>1. \/ \E n \in DOMAIN engines : engines[n] = d
            \/ \E j \in Closers : closer[j] = "quit" /\ handle[j] = d
        BY <2>1 DEF IInv, NoOrphan
      <4> QED
        BY <4>1, <3>2, <1>2, <1>5 DEF Holds, e
    <3> QED
      BY <3>1, <3>2
  <2> QED
    BY <2>1 DEF NoOrphan
<1>8. Ordered' /\ Forwarded'
  BY <1>1, ForwardedFrame DEF IInv, Ordered
<1> QED
  BY <1>4, <1>6, <1>7, <1>8 DEF IInv

\* A caller moves on without touching an engine.
LEMMA CallerMovesInv ==
    ASSUME IInv, NEW k \in Closers, NEW to \in {"next", "returned"},
           ~Holds(k), closer' = [closer EXCEPT ![k] = to],
           toClose' \in [Closers -> SUBSET Markets],
           UNCHANGED <<engines, created, queued, loop, toEmit, eventSeq, eventChan, quit,
                       closed, handle, merging, sources, inHand, finished, out, outClosed,
                       got>>
    PROVE  IInv'
<1>1. /\ closer'[k] = to
      /\ \A j \in Closers : j # k => closer'[j] = closer[j]
  BY DEF IInv, TypeOK
<1>2. TypeOK'
  <2>1. closer' \in [Closers -> {"idle", "next", "quit", "wait", "close", "returned"}]
    BY DEF IInv, TypeOK
  <2> QED
    BY <2>1 DEF IInv, TypeOK
<1>3. /\ \A j \in Closers : Holds(j)' => j # k /\ Holds(j)
      /\ \A j \in Closers : closer[j] = "quit" => closer'[j] = "quit"
  BY <1>1 DEF Holds
<1>4. Owned' /\ NoOrphan'
  BY <1>1, <1>3 DEF IInv, Owned, NoOrphan
<1>5. Ordered' /\ Forwarded'
  BY ForwardedFrame DEF IInv, Ordered
<1> QED
  BY <1>2, <1>4, <1>5 DEF IInv

LEMMA CloseMarketInv ==
    ASSUME IInv, NEW k \in Closers, NEW m \in Markets, CloseMarket(k, m)
    PROVE  IInv'
<1>1. /\ closer[k] = "idle"
      /\ UNCHANGED <<queued, loop, toEmit, eventSeq, eventChan, quit, closed, toClose, merging,
                     sources, inHand, finished, out, outClosed, got>>
      /\ TakeEngine(k, m) \/ NotFound(k, m)
  BY DEF CloseMarket, processor, fanIn
<1>2. toClose' \in [Closers -> SUBSET Markets]
  BY <1>1 DEF IInv, TypeOK
<1>3. CASE TakeEngine(k, m)
  BY <1>1, <1>2, <1>3, TakeEngineInv
<1>4. CASE NotFound(k, m)
  <2>1. /\ closer' = [closer EXCEPT ![k] = "returned"]
        /\ UNCHANGED <<engines, created, handle>>
    BY <1>4 DEF NotFound, registry
  <2>2. ~Holds(k)
    BY <1>1 DEF Holds
  <2> QED
    BY <1>1, <1>2, <2>1, <2>2, CallerMovesInv
<1> QED
  BY <1>1, <1>3, <1>4

LEMMA CloseInv ==
    ASSUME IInv, NEW k \in Closers, Close(k)
    PROVE  IInv'
<1> DEFINE to == IF DOMAIN engines = {} THEN "returned" ELSE "next"
<1>1. /\ closer[k] = "idle"
      /\ closer' = [closer EXCEPT ![k] = to]
      /\ toClose' = [toClose EXCEPT ![k] = DOMAIN engines]
      /\ UNCHANGED <<engines, created, queued, loop, toEmit, eventSeq, eventChan, quit,
                     closed, handle, merging, sources, inHand, finished, out, outClosed,
                     got>>
  BY DEF Close, registry, processor, fanIn
<1>2. to \in {"next", "returned"} /\ ~Holds(k)
  BY <1>1 DEF Holds
<1>3. toClose' \in [Closers -> SUBSET Markets]
  BY <1>1 DEF IInv, TypeOK
<1> HIDE DEF to
<1> QED
  BY <1>1, <1>2, <1>3, CallerMovesInv

LEMMA CloseNextInv ==
    ASSUME IInv, NEW k \in Closers, CloseNext(k)
    PROVE  IInv'
<1>1. PICK m \in toClose[k] : /\ TakeEngine(k, m) \/ NotFound(k, m)
                              /\ toClose' = [toClose EXCEPT ![k] = @ \ {m}]
  BY DEF CloseNext
<1>2. /\ closer[k] = "next"
      /\ UNCHANGED <<queued, loop, toEmit, eventSeq, eventChan, quit, closed, merging,
                     sources, inHand, finished, out, outClosed, got>>
  BY DEF CloseNext, processor, fanIn
<1>3. toClose' \in [Closers -> SUBSET Markets]
  <2>1. toClose \in [Closers -> SUBSET Markets]
    BY DEF IInv, TypeOK
  <2>2. toClose[k] \ {m} \in SUBSET Markets
    BY <2>1
  <2> QED
    BY <1>1, <2>1, <2>2
<1>4. CASE TakeEngine(k, m)
  BY <1>2, <1>3, <1>4, TakeEngineInv
<1>5. CASE NotFound(k, m)
  <2>1. /\ closer' = [closer EXCEPT ![k] = "returned"]
        /\ UNCHANGED <<engines, created, handle>>
    BY <1>5 DEF NotFound, registry
  <2>2. ~Holds(k)
    BY <1>2 DEF Holds
  <2> QED
    BY <1>2, <1>3, <2>1, <2>2, CallerMovesInv
<1> QED
  BY <1>1, <1>4, <1>5

\* close(quit), once: the caller is the only owner.
LEMMA SignalQuitInv ==
    ASSUME IInv, NEW k \in Closers, SignalQuit(k)
    PROVE  IInv'
<1> DEFINE e == handle[k]
<1>1. /\ closer[k] = "quit"
      /\ quit' = quit \cup {e}
      /\ closer' = [closer EXCEPT ![k] = "wait"]
      /\ UNCHANGED <<engines, created, queued, loop, toEmit, eventSeq, eventChan, closed,
                     handle, toClose, merging, sources, inHand, finished, out, outClosed,
                     got>>
  BY DEF SignalQuit, registry, processor, fanIn
<1>2. /\ e \in Engines /\ e <= created
      /\ \A m \in DOMAIN engines : engines[m] # e
      /\ \A j \in Closers : Holds(j) /\ j # k => handle[j] # e
  BY <1>1 DEF IInv, Owned, Holds
<1>3. /\ closer'[k] = "wait" /\ Holds(k)
      /\ \A j \in Closers : j # k => closer'[j] = closer[j]
  BY <1>1 DEF IInv, TypeOK, Holds
<1>4. TypeOK'
  <2>1. closer' \in [Closers -> {"idle", "next", "quit", "wait", "close", "returned"}]
    BY <1>1 DEF IInv, TypeOK
  <2> QED
    BY <1>1, <1>2, <2>1 DEF IInv, TypeOK
<1>5. Owned'
  <2>1. \A m \in DOMAIN engines' : engines'[m] <= created' /\ engines'[m] \notin quit'
    BY <1>1, <1>2 DEF IInv, Owned
  <2>2. \A j \in Closers : Holds(j)' => Holds(j) /\ (closer'[j] = "quit" => j # k /\ closer[j] = "quit")
                                        /\ (closer'[j] = "close" => closer[j] = "close")
    BY <1>3 DEF Holds
  <2>3. \A j \in Closers : Holds(j) /\ closer[j] = "quit" /\ j # k => handle[j] \notin quit'
    BY <1>1, <1>2 DEF IInv, Owned
  <2> QED
    BY <1>1, <2>1, <2>2, <2>3 DEF IInv, Owned
<1>6. NoOrphan'
  BY <1>1, <1>3 DEF IInv, NoOrphan
<1>7. Ordered' /\ Forwarded'
  BY <1>1, <1>2, ForwardedFrame DEF IInv, Ordered
<1> QED
  BY <1>4, <1>5, <1>6, <1>7 DEF IInv

LEMMA AwaitDoneInv ==
    ASSUME IInv, NEW k \in Closers, AwaitDone(k)
    PROVE  IInv'
<1>1. /\ closer[k] = "wait" /\ loop[handle[k]] = "done"
      /\ closer' = [closer EXCEPT ![k] = "close"]
      /\ UNCHANGED <<engines, created, queued, loop, toEmit, eventSeq, eventChan, quit,
                     closed, handle, toClose, merging, sources, inHand, finished, out,
                     outClosed, got>>
  BY DEF AwaitDone, registry, processor, fanIn
<1>2. /\ closer'[k] = "close" /\ Holds(k)
      /\ \A j \in Closers : j # k => closer'[j] = closer[j]
  BY <1>1 DEF IInv, TypeOK, Holds
<1>3. TypeOK'
  <2>1. closer' \in [Closers -> {"idle", "next", "quit", "wait", "close", "returned"}]
    BY <1>1 DEF IInv, TypeOK
  <2> QED
    BY <1>1, <2>1 DEF IInv, TypeOK
<1>4. Owned' /\ NoOrphan'
  <2>1. \A j \in Closers : Holds(j)' => Holds(j) /\ (j # k => closer'[j] = closer[j])
    BY <1>2 DEF Holds
  <2> QED
    BY <1>1, <1>2, <2>1 DEF IInv, Owned, NoOrphan
<1>5. Ordered' /\ Forwarded'
  BY <1>1, ForwardedFrame DEF IInv, Ordered
<1> QED
  BY <1>3, <1>4, <1>5 DEF IInv

\* close(eventChan), once, and after the goroutine has returned.
LEMMA CloseEventsInv ==
    ASSUME IInv, NEW k \in Closers, CloseEvents(k)
    PROVE  IInv'
<1> DEFINE e == handle[k]
           to == IF toClose[k] = {} THEN "returned" ELSE "next"
<1>1. /\ closer[k] = "close"
      /\ closed' = closed \cup {e}
      /\ closer' = [closer EXCEPT ![k] = to]
      /\ handle' = [handle EXCEPT ![k] = Nil]
      /\ UNCHANGED <<engines, created, queued, loop, toEmit, eventSeq, eventChan, quit,
                     toClose, merging, sources, inHand, finished, out, outClosed, got>>
  BY DEF CloseEvents, registry, processor, fanIn
<1>2. /\ e \in Engines /\ loop[e] = "done"
      /\ \A j \in Closers : Holds(j) /\ j # k => handle[j] # e
  BY <1>1 DEF IInv, Owned, Holds
<1>3. to \in {"next", "returned"}
  OBVIOUS
<1> HIDE DEF e, to
<1>4. /\ closer'[k] = to
      /\ \A j \in Closers : j # k => closer'[j] = closer[j] /\ handle'[j] = handle[j]
  BY <1>1 DEF IInv, TypeOK
<1>5. TypeOK'
  <2>1. /\ closer' \in [Closers -> {"idle", "next", "quit", "wait", "close", "returned"}]
        /\ handle' \in [Closers -> Engines \cup {Nil}]
    BY <1>1, <1>3 DEF IInv, TypeOK
  <2> QED
    BY <1>1, <1>2, <2>1 DEF IInv, TypeOK
<1>6. \A j \in Closers : Holds(j)' => Holds(j) /\ j # k
  BY <1>3, <1>4 DEF Holds
<1>7. Owned'
  BY <1>1, <1>2, <1>4, <1>6 DEF IInv, Owned
<1>8. NoOrphan'
  BY <1>1, <1>4 DEF IInv, NoOrphan
<1>9. Ordered' /\ Forwarded'
  BY <1>1, <1>2, ForwardedFrame DEF IInv, Ordered
<1> QED
  BY <1>5, <1>7, <1>8, <1>9 DEF IInv

------------------------------------------------------------------------------
(* The fan-in and the consumer.                                              *)

LEMMA AllEventsInv ==
    ASSUME IInv, AllEvents
    PROVE  IInv'
<1>1. /\ ~merging /\ merging' = TRUE /\ sources' = Range(engines)
      /\ UNCHANGED <<engines, created, queued, loop, toEmit, eventSeq, eventChan, quit,
                     closed, closer, handle, toClose, inHand, finished, out, outClosed,
                     got>>
  BY DEF AllEvents, registry, processor, closing
<1>2. sources = {} /\ finished = {}
  BY <1>1 DEF IInv, Forwarded, TypeOK
<1>3. TypeOK'
  BY <1>1, <1>2 DEF IInv, TypeOK
<1> QED
  BY <1>1, <1>2, <1>3, OwnedFrame, NoOrphanFrame DEF IInv, Ordered, Forwarded

LEMMA ReceiveInv ==
    ASSUME IInv, NEW e \in Engines, Receive(e)
    PROVE  IInv'
<1>1. /\ e \in sources \ finished /\ eventChan[e] # <<>>
      /\ inHand' = [inHand EXCEPT ![e] = Head(eventChan[e])]
      /\ eventChan' = [eventChan EXCEPT ![e] = Tail(@)]
      /\ UNCHANGED <<engines, created, queued, loop, toEmit, eventSeq, quit, closed, closer,
                     handle, toClose, merging, sources, finished, out, outClosed, got>>
  BY DEF Receive, registry, processor, closing
<1>2. /\ eventChan \in [Engines -> Seq(Nat \ {0})] /\ inHand \in [Engines -> Nat]
      /\ finished \subseteq Engines
  BY DEF IInv, TypeOK
<1>3. Head(eventChan[e]) \in Nat \ {0} /\ Tail(eventChan[e]) \in Seq(Nat \ {0})
  BY <1>1, <1>2, HeadTailProperties
<1>4. TypeOK'
  <2>1. eventChan' \in [Engines -> Seq(Nat \ {0})]
    BY <1>1, <1>2, <1>3, Zenon
  <2>2. inHand' \in [Engines -> Nat]
    BY <1>1, <1>2, <1>3
  <2> QED
    BY <1>1, <2>1, <2>2 DEF IInv, TypeOK
<1>5. \A d \in Engines : d # e => inHand'[d] = inHand[d] /\ eventChan'[d] = eventChan[d]
  BY <1>1, <1>2
<1>6. Forwarded'
  BY <1>1, <1>2, <1>5 DEF IInv, Forwarded
<1> QED
  BY <1>1, <1>4, <1>6, OwnedFrame, NoOrphanFrame DEF IInv, Ordered

LEMMA ForwardInv ==
    ASSUME IInv, NEW e \in Engines, Forward(e)
    PROVE  IInv'
<1>1. /\ inHand[e] # 0
      /\ out' = Append(out, <<e, inHand[e]>>)
      /\ inHand' = [inHand EXCEPT ![e] = 0]
      /\ UNCHANGED <<engines, created, queued, loop, toEmit, eventSeq, eventChan, quit,
                     closed, closer, handle, toClose, merging, sources, finished, outClosed,
                     got>>
  BY DEF Forward, registry, processor, closing
<1>2. /\ inHand \in [Engines -> Nat] /\ out \in Seq(Engines \X (Nat \ {0}))
      /\ finished \subseteq Engines
  BY DEF IInv, TypeOK
<1>3. TypeOK'
  <2>1. <<e, inHand[e]>> \in Engines \X (Nat \ {0})
    BY <1>1, <1>2
  <2>2. out' \in Seq(Engines \X (Nat \ {0}))
    BY <1>1, <1>2, <2>1, AppendProperties
  <2>3. inHand' \in [Engines -> Nat]
    BY <1>1, <1>2
  <2> QED
    BY <1>1, <2>2, <2>3 DEF IInv, TypeOK
<1>4. /\ inHand'[e] = 0
      /\ \A d \in Engines : d # e => inHand'[d] = inHand[d]
  BY <1>1, <1>2
<1>5. Forwarded'
  BY <1>1, <1>2, <1>4 DEF IInv, Forwarded
<1> QED
  BY <1>1, <1>3, <1>5, OwnedFrame, NoOrphanFrame DEF IInv, Ordered

LEMMA ForwarderReturnsInv ==
    ASSUME IInv, NEW e \in Engines, ForwarderReturns(e)
    PROVE  IInv'
<1>1. /\ e \in sources \ finished /\ inHand[e] = 0 /\ eventChan[e] = <<>> /\ e \in closed
      /\ finished' = finished \cup {e}
      /\ UNCHANGED <<engines, created, queued, loop, toEmit, eventSeq, eventChan, quit,
                     closed, closer, handle, toClose, merging, sources, inHand, out,
                     outClosed, got>>
  BY DEF ForwarderReturns, registry, processor, closing
<1>2. TypeOK'
  BY <1>1 DEF IInv, TypeOK
<1>3. Forwarded'
  BY <1>1 DEF IInv, Forwarded
<1> QED
  BY <1>1, <1>2, <1>3, OwnedFrame, NoOrphanFrame DEF IInv, Ordered

LEMMA CloseOutInv ==
    ASSUME IInv, CloseOut
    PROVE  IInv'
<1>1. /\ merging /\ finished = sources /\ outClosed' = TRUE
      /\ UNCHANGED <<engines, created, queued, loop, toEmit, eventSeq, eventChan, quit,
                     closed, closer, handle, toClose, merging, sources, inHand, finished,
                     out, got>>
  BY DEF CloseOut, registry, processor, closing
<1>2. TypeOK'
  BY <1>1 DEF IInv, TypeOK
<1>3. Forwarded'
  BY <1>1 DEF IInv, Forwarded
<1> QED
  BY <1>1, <1>2, <1>3, OwnedFrame, NoOrphanFrame DEF IInv, Ordered

LEMMA DrainInv ==
    ASSUME IInv, Drain
    PROVE  IInv'
<1> DEFINE S == Engines \X (Nat \ {0})
<1>1. /\ out # <<>> /\ out' = Tail(out)
      /\ got' = [got EXCEPT ![Head(out)[1]] = Head(out)[2]]
      /\ UNCHANGED <<engines, created, queued, loop, toEmit, eventSeq, eventChan, quit,
                     closed, closer, handle, toClose, merging, sources, inHand, finished,
                     outClosed>>
  BY DEF Drain, registry, processor, closing
<1>2. out \in Seq(S) /\ got \in [Engines -> Nat]
  BY DEF IInv, TypeOK
<1>3. Head(out) \in S /\ out' \in Seq(S)
  <2> HIDE DEF S
  <2> QED
    BY <1>1, <1>2, HeadTailProperties
<1>4. got' \in [Engines -> Nat]
  BY <1>1, <1>2, <1>3
<1>5. TypeOK'
  BY <1>1, <1>3, <1>4 DEF IInv, TypeOK
<1> QED
  BY <1>1, <1>5, OwnedFrame, NoOrphanFrame, ForwardedFrame DEF IInv, Ordered

LEMMA DrainDirectInv ==
    ASSUME IInv, NEW e \in Engines, DrainDirect(e)
    PROVE  IInv'
<1>1. /\ e \notin sources /\ eventChan[e] # <<>>
      /\ eventChan' = [eventChan EXCEPT ![e] = Tail(@)]
      /\ got' = [got EXCEPT ![e] = Head(eventChan[e])]
      /\ UNCHANGED <<engines, created, queued, loop, toEmit, eventSeq, quit, closed, closer,
                     handle, toClose, merging, sources, inHand, finished, out, outClosed>>
  BY DEF DrainDirect, registry, processor, closing, fanIn
<1>2. /\ eventChan \in [Engines -> Seq(Nat \ {0})] /\ got \in [Engines -> Nat]
      /\ finished \subseteq sources
  BY DEF IInv, TypeOK
<1>3. Head(eventChan[e]) \in Nat \ {0} /\ Tail(eventChan[e]) \in Seq(Nat \ {0})
  BY <1>1, <1>2, HeadTailProperties
<1>4. TypeOK'
  <2>1. eventChan' \in [Engines -> Seq(Nat \ {0})]
    BY <1>1, <1>2, <1>3, Zenon
  <2>2. got' \in [Engines -> Nat]
    BY <1>1, <1>2, <1>3
  <2> QED
    BY <1>1, <2>1, <2>2 DEF IInv, TypeOK
<1>5. \A d \in finished : eventChan'[d] = eventChan[d]
  BY <1>1, <1>2 DEF IInv, TypeOK
<1> QED
  BY <1>1, <1>4, <1>5, OwnedFrame, NoOrphanFrame, ForwardedFrame DEF IInv, Ordered

------------------------------------------------------------------------------
(* The theorems.                                                             *)

\* A step that changes nothing.
LEMMA StutterInv ==
    ASSUME IInv, UNCHANGED vars
    PROVE  IInv'
BY DEF vars, IInv, TypeOK, Owned, Ordered, Forwarded, NoOrphan, Holds

\* IInv is inductive: every step of every goroutine preserves it.
LEMMA NextInv == IInv /\ [Next]_vars => IInv'
<1> SUFFICES ASSUME IInv, [Next]_vars PROVE IInv'
  OBVIOUS
<1>1. CASE \E m \in Markets : CreateMarket(m)
  BY <1>1, CreateMarketInv
<1>2. CASE \E e \in Engines : Submit(e) \/ Dispatch(e) \/ Tick(e) \/ Emit(e) \/ Quit(e)
  BY <1>2, SubmitInv, DispatchInv, EmitInv, QuitInv
<1>3. CASE \E k \in Closers, m \in Markets : CloseMarket(k, m)
  BY <1>3, CloseMarketInv
<1>4. CASE \E k \in Closers : Close(k) \/ CloseStep(k)
  BY <1>4, CloseInv, CloseNextInv, SignalQuitInv, AwaitDoneInv, CloseEventsInv DEF CloseStep
<1>5. CASE AllEvents \/ CloseOut \/ Drain
  BY <1>5, AllEventsInv, CloseOutInv, DrainInv
<1>6. CASE \E e \in Engines : ForwarderStep(e) \/ Forward(e) \/ DrainDirect(e)
  BY <1>6, ReceiveInv, ForwarderReturnsInv, ForwardInv, DrainDirectInv DEF ForwarderStep
<1>7. CASE UNCHANGED vars
  BY <1>7, StutterInv
<1> QED
  BY <1>1, <1>2, <1>3, <1>4, <1>5, <1>6, <1>7 DEF Next

LEMMA Inductive == Spec => []IInv
<1> QED
  BY InitInv, NextInv, PTL DEF Spec

\* The variables of the engines, the callers and the fan-in keep their types.
THEOREM TypeCorrect == Spec => []TypeOK
<1>1. IInv => TypeOK
  BY DEF IInv
<1> QED
  BY <1>1, Inductive, PTL

\* Whoever calls CloseMarket and Close, and when: quit and the event channel of an engine
\* are closed at most once, and no event is sent after.
THEOREM NeverPanics == Spec => []NoPanic
<1>1. IInv => NoPanic
  <2> SUFFICES ASSUME IInv PROVE NoPanic
    OBVIOUS
  <2>1. \A k \in Closers : /\ closer[k] = "quit" => handle[k] \notin quit
                           /\ closer[k] = "close" => handle[k] \notin closed
    BY DEF IInv, Owned, Holds
  <2>2. \A e \in Engines : loop[e] = "emit" => e \notin closed
    BY DEF IInv, Ordered
  <2>3. outClosed => \A e \in Engines : inHand[e] = 0
    BY DEF IInv, Forwarded
  <2> QED
    BY <2>1, <2>2, <2>3 DEF NoPanic
<1> QED
  BY <1>1, Inductive, PTL

\* Every running engine can still be stopped.
THEOREM NothingOrphaned == Spec => []NoOrphan
<1>1. IInv => NoOrphan
  BY DEF IInv
<1> QED
  BY <1>1, Inductive, PTL

\* When AllEvents closes its channel, the engines it merged have nothing left to tell.
THEOREM MergeIsComplete == Spec => []MergedComplete
<1>1. IInv => MergedComplete
  BY DEF IInv, Forwarded, MergedComplete
<1> QED
  BY <1>1, Inductive, PTL

------------------------------------------------------------------------------
(* The order of events.                                                      *)

\* EventsInOrder, said of one engine.
OnTheWay(e) == got[e] + Cardinality(Merged(e))
Taken(e) == IF inHand[e] = 0 THEN OnTheWay(e) ELSE OnTheWay(e) + 1
InOrder(e) ==
    /\ \A i \in Merged(e) : out[i][2] = got[e] + Cardinality(MergedUpTo(e, i))
    /\ inHand[e] \in {0, OnTheWay(e) + 1}
    /\ Len(eventChan[e]) = eventSeq[e] - Taken(e)
    /\ \A i \in DOMAIN eventChan[e] : eventChan[e][i] = Taken(e) + i

\* The merged channel holds events of the sources only.
FromSources == \A j \in DOMAIN out : out[j][1] \in sources

OrderInv == FromSources /\ \A e \in Engines : InOrder(e)

LEMMA OrderInvImplies == OrderInv => EventsInOrder
BY DEF OrderInv, InOrder, Taken, OnTheWay, EventsInOrder

\* The positions of an engine's events are finitely many.
LEMMA MergedFinite ==
    ASSUME TypeOK, NEW e
    PROVE  /\ DOMAIN out = 1..Len(out) /\ Len(out) \in Nat
           /\ Merged(e) \subseteq 1..Len(out)
           /\ IsFiniteSet(Merged(e)) /\ Cardinality(Merged(e)) \in Nat
           /\ \A i : IsFiniteSet(MergedUpTo(e, i)) /\ Cardinality(MergedUpTo(e, i)) \in Nat
<1>1. DOMAIN out = 1..Len(out) /\ Len(out) \in Nat
  BY LenProperties DEF TypeOK
<1>2. Merged(e) \subseteq 1..Len(out)
  BY <1>1 DEF Merged
<1>3. IsFiniteSet(1..Len(out))
  BY <1>1, FS_Interval
<1>4. IsFiniteSet(Merged(e)) /\ Cardinality(Merged(e)) \in Nat
  BY <1>2, <1>3, FS_Subset, FS_CardinalityType
<1>5. ASSUME NEW i
      PROVE  IsFiniteSet(MergedUpTo(e, i)) /\ Cardinality(MergedUpTo(e, i)) \in Nat
  <2>1. MergedUpTo(e, i) \subseteq Merged(e)
    BY DEF MergedUpTo
  <2> QED
    BY <1>4, <2>1, FS_Subset, FS_CardinalityType
<1> QED
  BY <1>1, <1>2, <1>4, <1>5

\* Moving a set of positions one to the left keeps its size.
LEMMA ShiftedCardinality ==
    ASSUME NEW S, IsFiniteSet(S), S \subseteq Int,
           NEW T, T = {i \in Int : i + 1 \in S}
    PROVE  IsFiniteSet(T) /\ Cardinality(T) = Cardinality(S)
<1> DEFINE f == [s \in S |-> s - 1]
<1>1. f \in [S -> T]
  BY Z3
<1>2. \A s, t \in S : f[s] = f[t] => s = t
  BY Z3
<1>3. \A t \in T : \E s \in S : f[s] = t
  <2> SUFFICES ASSUME NEW t \in T PROVE \E s \in S : f[s] = t
    OBVIOUS
  <2>1. t + 1 \in S /\ t \in Int
    OBVIOUS
  <2>2. f[t + 1] = t
    BY <2>1
  <2> QED
    BY <2>1, <2>2
<1>4. f \in Bijection(S, T)
  <2> HIDE DEF f
  <2> QED
    BY <1>1, <1>2, <1>3 DEF Bijection, Injection, Surjection, IsInjective
<1> HIDE DEF f
<1> QED
  BY <1>4, FS_Bijection DEF ExistsBijection

\* The order of an engine's events is a matter of these variables only.
LEMMA OrderFrame ==
    ASSUME NEW e \in Engines, InOrder(e), out' = out, got'[e] = got[e], inHand'[e] = inHand[e],
           eventChan'[e] = eventChan[e], eventSeq'[e] = eventSeq[e]
    PROVE  InOrder(e)'
BY DEF InOrder, Taken, OnTheWay, Merged, MergedUpTo

LEMMA InitOrder == Init => OrderInv
<1> SUFFICES ASSUME Init PROVE OrderInv
  OBVIOUS
<1>1. FromSources
  BY DEF Init, FromSources
<1>2. ASSUME NEW e \in Engines PROVE InOrder(e)
  <2>1. /\ got[e] = 0 /\ inHand[e] = 0 /\ eventSeq[e] = 0 /\ eventChan[e] = <<>> /\ out = <<>>
    BY DEF Init
  <2>2. Merged(e) = {}
    BY <2>1 DEF Merged
  <2>3. OnTheWay(e) = 0
    BY <2>1, <2>2, FS_EmptySet DEF OnTheWay
  <2>4. Len(eventChan[e]) = 0 /\ DOMAIN eventChan[e] = {}
    BY <2>1
  <2> QED
    BY <2>1, <2>2, <2>3, <2>4 DEF InOrder, Taken
<1> QED
  BY <1>1, <1>2 DEF OrderInv

LEMMA EmitOrder ==
    ASSUME IInv, OrderInv, NEW e \in Engines, Emit(e)
    PROVE  OrderInv'
<1>1. /\ eventSeq' = [eventSeq EXCEPT ![e] = @ + 1]
      /\ eventChan' = [eventChan EXCEPT ![e] = Append(@, eventSeq[e] + 1)]
      /\ UNCHANGED <<sources, inHand, out, got>>
  BY DEF Emit, fanIn
<1>2. /\ eventSeq \in [Engines -> Nat] /\ eventChan \in [Engines -> Seq(Nat \ {0})]
      /\ got \in [Engines -> Nat] /\ inHand \in [Engines -> Nat]
  BY DEF IInv, TypeOK
<1>3. /\ eventSeq'[e] = eventSeq[e] + 1 /\ eventChan'[e] = Append(eventChan[e], eventSeq[e] + 1)
      /\ \A d \in Engines : d # e => eventSeq'[d] = eventSeq[d] /\ eventChan'[d] = eventChan[d]
  BY <1>1, <1>2
<1>4. \A d \in Engines : d # e => InOrder(d)'
  BY <1>1, <1>3, OrderFrame DEF OrderInv
<1>5. InOrder(e)'
  <2>1. /\ Merged(e)' = Merged(e) /\ OnTheWay(e)' = OnTheWay(e) /\ Taken(e)' = Taken(e)
        /\ \A i : MergedUpTo(e, i)' = MergedUpTo(e, i)
    BY <1>1 DEF Merged, MergedUpTo, OnTheWay, Taken
  <2>2. Taken(e) \in Nat
    BY <1>2, MergedFinite DEF IInv, Taken, OnTheWay
  <2> DEFINE c == eventChan[e]
             n == eventSeq[e]
  <2>3. c \in Seq(Nat \ {0}) /\ n \in Nat /\ Len(c) \in Nat /\ DOMAIN c = 1..Len(c)
    BY <1>2, LenProperties
  <2>4. Len(c) = n - Taken(e) /\ \A i \in DOMAIN c : c[i] = Taken(e) + i
    BY DEF OrderInv, InOrder
  <2>5. n + 1 \in Nat \ {0}
    BY <2>3
  <2> DEFINE c2 == Append(c, n + 1)
  <2>6. /\ Len(c2) = Len(c) + 1 /\ DOMAIN c2 = 1..Len(c2)
        /\ \A i \in 1..Len(c) : c2[i] = c[i]
        /\ c2[Len(c) + 1] = n + 1
    <3> HIDE DEF c, n
    <3> QED
      BY <2>3, <2>5, AppendProperties, LenProperties
  <2>7. eventChan'[e] = c2 /\ eventSeq'[e] = n + 1
    BY <1>3
  <2> HIDE DEF c, n, c2
  <2>8. Len(c2) = (n + 1) - Taken(e)
    BY <2>2, <2>3, <2>4, <2>6
  <2>9. \A i \in DOMAIN c2 : c2[i] = Taken(e) + i
    <3> SUFFICES ASSUME NEW i \in DOMAIN c2 PROVE c2[i] = Taken(e) + i
      OBVIOUS
    <3>1. i \in 1..Len(c) \/ i = Len(c) + 1
      BY <2>3, <2>6
    <3> QED
      BY <2>2, <2>3, <2>4, <2>6, <3>1
  <2>10. \A i \in Merged(e)' : out'[i][2] = got'[e] + Cardinality(MergedUpTo(e, i)')
    BY <1>1, <2>1 DEF OrderInv, InOrder
  <2>11. inHand'[e] \in {0, OnTheWay(e)' + 1}
    BY <1>1, <2>1 DEF OrderInv, InOrder
  <2>12. Len(eventChan'[e]) = eventSeq'[e] - Taken(e)'
    BY <2>1, <2>7, <2>8
  <2>13. \A i \in DOMAIN eventChan'[e] : eventChan'[e][i] = Taken(e)' + i
    BY <2>1, <2>7, <2>9
  <2> QED
    BY <2>10, <2>11, <2>12, <2>13 DEF InOrder
<1>6. FromSources'
  BY <1>1 DEF OrderInv, FromSources
<1> QED
  BY <1>4, <1>5, <1>6 DEF OrderInv

LEMMA ReceiveOrder ==
    ASSUME IInv, OrderInv, NEW e \in Engines, Receive(e)
    PROVE  OrderInv'
<1>1. /\ inHand[e] = 0 /\ eventChan[e] # <<>>
      /\ inHand' = [inHand EXCEPT ![e] = Head(eventChan[e])]
      /\ eventChan' = [eventChan EXCEPT ![e] = Tail(@)]
      /\ UNCHANGED <<eventSeq, sources, out, got>>
  BY DEF Receive, processor
<1>2. /\ eventSeq \in [Engines -> Nat] /\ eventChan \in [Engines -> Seq(Nat \ {0})]
      /\ got \in [Engines -> Nat] /\ inHand \in [Engines -> Nat]
  BY DEF IInv, TypeOK
<1>3. /\ inHand'[e] = Head(eventChan[e]) /\ eventChan'[e] = Tail(eventChan[e])
      /\ \A d \in Engines : d # e => inHand'[d] = inHand[d] /\ eventChan'[d] = eventChan[d]
  BY <1>1, <1>2
<1>4. \A d \in Engines : d # e => InOrder(d)'
  BY <1>1, <1>3, OrderFrame DEF OrderInv
<1>5. InOrder(e)'
  <2>1. /\ Merged(e)' = Merged(e) /\ OnTheWay(e)' = OnTheWay(e)
        /\ \A i : MergedUpTo(e, i)' = MergedUpTo(e, i)
    BY <1>1 DEF Merged, MergedUpTo, OnTheWay
  <2>2. OnTheWay(e) \in Nat /\ Taken(e) = OnTheWay(e)
    BY <1>1, <1>2, MergedFinite DEF IInv, Taken, OnTheWay
  <2> DEFINE c == eventChan[e]
             t == OnTheWay(e)
  <2>3. c \in Seq(Nat \ {0}) /\ c # <<>> /\ Len(c) \in Nat /\ DOMAIN c = 1..Len(c)
    BY <1>1, <1>2, LenProperties
  <2>4. Len(c) = eventSeq[e] - t /\ \A i \in DOMAIN c : c[i] = t + i
    BY <2>2 DEF OrderInv, InOrder
  <2>5. inHand'[e] = Head(c) /\ eventChan'[e] = Tail(c)
    BY <1>3
  <2>6. /\ Head(c) = c[1] /\ Len(Tail(c)) = Len(c) - 1 /\ Len(c) >= 1
        /\ Tail(c) \in Seq(Nat \ {0})
        /\ \A i \in 1..Len(Tail(c)) : Tail(c)[i] = c[i + 1]
    <3> HIDE DEF c
    <3> QED
      BY <2>3, HeadTailProperties
  <2>7. DOMAIN Tail(c) = 1..Len(Tail(c))
    BY <2>6, LenProperties
  <2> HIDE DEF c, t
  <2>8. Head(c) = t + 1
    BY <2>2, <2>3, <2>4, <2>6
  <2>9. Taken(e)' = t + 1
    BY <2>1, <2>2, <2>5, <2>8 DEF Taken, t
  <2>10. Len(Tail(c)) = eventSeq[e] - (t + 1)
    BY <1>2, <2>2, <2>4, <2>6 DEF t
  <2>11. \A i \in DOMAIN Tail(c) : Tail(c)[i] = t + 1 + i
    BY <2>2, <2>3, <2>4, <2>6, <2>7 DEF t
  <2>12. \A i \in Merged(e)' : out'[i][2] = got'[e] + Cardinality(MergedUpTo(e, i)')
    BY <1>1, <2>1 DEF OrderInv, InOrder
  <2>13. inHand'[e] \in {0, OnTheWay(e)' + 1}
    BY <2>1, <2>5, <2>8 DEF t
  <2> QED
    BY <1>1, <2>5, <2>9, <2>10, <2>11, <2>12, <2>13 DEF InOrder
<1>6. FromSources'
  BY <1>1 DEF OrderInv, FromSources
<1> QED
  BY <1>4, <1>5, <1>6 DEF OrderInv

\* What the consumer takes from a channel that is not merged is the next number.
LEMMA DrainDirectOrder ==
    ASSUME IInv, OrderInv, NEW e \in Engines, DrainDirect(e)
    PROVE  OrderInv'
<1>1. /\ e \notin sources /\ eventChan[e] # <<>>
      /\ got' = [got EXCEPT ![e] = Head(eventChan[e])]
      /\ eventChan' = [eventChan EXCEPT ![e] = Tail(@)]
      /\ UNCHANGED <<eventSeq, sources, out, inHand>>
  BY DEF DrainDirect, processor, fanIn
<1>2. /\ eventSeq \in [Engines -> Nat] /\ eventChan \in [Engines -> Seq(Nat \ {0})]
      /\ got \in [Engines -> Nat] /\ inHand \in [Engines -> Nat]
  BY DEF IInv, TypeOK
<1>3. /\ got'[e] = Head(eventChan[e]) /\ eventChan'[e] = Tail(eventChan[e])
      /\ \A d \in Engines : d # e => got'[d] = got[d] /\ eventChan'[d] = eventChan[d]
  BY <1>1, <1>2
<1>4. \A d \in Engines : d # e => InOrder(d)'
  BY <1>1, <1>3, OrderFrame DEF OrderInv
<1>5. InOrder(e)'
  <2>1. Merged(e) = {} /\ Merged(e)' = {} /\ inHand[e] = 0 /\ inHand'[e] = 0
    BY <1>1 DEF Merged, OrderInv, FromSources, IInv, Forwarded
  <2> DEFINE c == eventChan[e]
             t == got[e]
  <2>2. t \in Nat /\ Taken(e) = t
    BY <1>2, <2>1, FS_EmptySet DEF Taken, OnTheWay
  <2>3. c \in Seq(Nat \ {0}) /\ c # <<>> /\ Len(c) \in Nat /\ DOMAIN c = 1..Len(c)
    BY <1>1, <1>2, LenProperties
  <2>4. Len(c) = eventSeq[e] - t /\ \A i \in DOMAIN c : c[i] = t + i
    BY <2>2 DEF OrderInv, InOrder
  <2>5. got'[e] = Head(c) /\ eventChan'[e] = Tail(c)
    BY <1>3
  <2>6. /\ Head(c) = c[1] /\ Len(Tail(c)) = Len(c) - 1 /\ Len(c) >= 1
        /\ Tail(c) \in Seq(Nat \ {0})
        /\ \A i \in 1..Len(Tail(c)) : Tail(c)[i] = c[i + 1]
    <3> HIDE DEF c
    <3> QED
      BY <2>3, HeadTailProperties
  <2>7. DOMAIN Tail(c) = 1..Len(Tail(c))
    BY <2>6, LenProperties
  <2> HIDE DEF c
  <2>8. Head(c) = t + 1
    BY <2>2, <2>3, <2>4, <2>6
  <2> HIDE DEF t
  <2>9. OnTheWay(e)' = t + 1
    <3>1. Cardinality(Merged(e)') = 0
      BY <2>1, FS_EmptySet
    <3> QED
      BY <2>2, <2>5, <2>8, <3>1 DEF OnTheWay
  <2>10. Taken(e)' = t + 1
    BY <2>1, <2>9 DEF Taken
  <2>11. Len(Tail(c)) = eventSeq[e] - (t + 1)
    BY <1>2, <2>2, <2>4, <2>6
  <2>12. \A i \in DOMAIN Tail(c) : Tail(c)[i] = t + 1 + i
    BY <2>2, <2>3, <2>4, <2>6, <2>7
  <2> QED
    BY <1>1, <2>1, <2>5, <2>10, <2>11, <2>12 DEF InOrder
<1>6. FromSources'
  BY <1>1 DEF OrderInv, FromSources
<1> QED
  BY <1>4, <1>5, <1>6 DEF OrderInv

\* AllEvents starts with an empty channel.
LEMMA AllEventsOrder ==
    ASSUME IInv, OrderInv, AllEvents
    PROVE  OrderInv'
<1>1. ~merging /\ UNCHANGED <<eventSeq, eventChan, inHand, out, got>>
  BY DEF AllEvents, processor
<1>2. sources = {}
  BY <1>1 DEF IInv, Forwarded
<1>3. FromSources'
  BY <1>1, <1>2 DEF OrderInv, FromSources
<1>4. \A d \in Engines : InOrder(d)'
  BY <1>1, OrderFrame DEF OrderInv
<1> QED
  BY <1>3, <1>4 DEF OrderInv

\* The event in hand goes to the end of the merged channel, behind those of its engine.
LEMMA ForwardOrder ==
    ASSUME IInv, OrderInv, NEW e \in Engines, Forward(e)
    PROVE  OrderInv'
<1> DEFINE n == Len(out)
           S == Engines \X (Nat \ {0})
<1>1. /\ inHand[e] # 0
      /\ out' = Append(out, <<e, inHand[e]>>)
      /\ inHand' = [inHand EXCEPT ![e] = 0]
      /\ UNCHANGED <<eventSeq, eventChan, sources, got>>
  BY DEF Forward, processor
<1>2. /\ inHand \in [Engines -> Nat] /\ got \in [Engines -> Nat] /\ out \in Seq(S)
      /\ eventSeq \in [Engines -> Nat]
  BY DEF IInv, TypeOK
<1>3. n \in Nat /\ DOMAIN out = 1..n
  BY <1>2, LenProperties
<1>4. <<e, inHand[e]>> \in S
  BY <1>1, <1>2
<1>5. /\ DOMAIN out' = 1..(n + 1)
      /\ \A i \in 1..n : out'[i] = out[i]
      /\ out'[n + 1] = <<e, inHand[e]>>
  <2> HIDE DEF S
  <2>1. out' \in Seq(S) /\ Len(out') = n + 1
    BY <1>1, <1>2, <1>4, AppendProperties
  <2> QED
    BY <1>1, <1>2, <1>3, <1>4, <2>1, AppendProperties, LenProperties
<1>6. inHand'[e] = 0 /\ \A d \in Engines : d # e => inHand'[d] = inHand[d]
  BY <1>1, <1>2
<1> HIDE DEF n, S
<1>7. n + 1 \notin 1..n /\ n + 1 \in 1..(n + 1) /\ 1..(n + 1) = 1..n \cup {n + 1}
  BY <1>3
<1>8. out'[n + 1][1] = e /\ out'[n + 1][2] = inHand[e]
  BY <1>5
<1>9. FromSources'
  <2>1. e \in sources
    BY <1>1 DEF IInv, Forwarded
  <2> QED
    BY <1>1, <1>3, <1>5, <1>7, <1>8, <2>1 DEF OrderInv, FromSources
<1>10. \A d : Merged(d)' = IF d = e THEN Merged(d) \cup {n + 1} ELSE Merged(d)
  BY <1>3, <1>5, <1>7, <1>8 DEF Merged
<1>11. \A d, i : i \in 1..n => MergedUpTo(d, i)' = MergedUpTo(d, i)
  <2> SUFFICES ASSUME NEW d, NEW i \in 1..n PROVE MergedUpTo(d, i)' = MergedUpTo(d, i)
    OBVIOUS
  <2>1. ~(n + 1 <= i)
    BY <1>3
  <2> QED
    BY <1>10, <2>1 DEF MergedUpTo
<1>12. Merged(e) \subseteq 1..n /\ IsFiniteSet(Merged(e)) /\ Cardinality(Merged(e)) \in Nat
  BY MergedFinite DEF IInv, n
<1>13. ASSUME NEW d \in Engines, d # e PROVE InOrder(d)'
  <2>1. Merged(d)' = Merged(d) /\ Merged(d) \subseteq 1..n
    BY <1>3, <1>10, <1>13 DEF Merged
  <2>2. OnTheWay(d)' = OnTheWay(d) /\ Taken(d)' = Taken(d) /\ inHand'[d] = inHand[d]
    BY <1>1, <1>6, <1>13, <2>1 DEF OnTheWay, Taken
  <2>3. \A i \in Merged(d)' : out'[i][2] = got'[d] + Cardinality(MergedUpTo(d, i)')
    <3> SUFFICES ASSUME NEW i \in Merged(d)
                 PROVE  out'[i][2] = got'[d] + Cardinality(MergedUpTo(d, i)')
      BY <2>1
    <3>1. out[i][2] = got[d] + Cardinality(MergedUpTo(d, i))
      BY DEF OrderInv, InOrder
    <3>2. i \in 1..n
      BY <2>1
    <3> QED
      BY <1>1, <1>5, <1>11, <3>1, <3>2
  <2>4. inHand'[d] \in {0, OnTheWay(d)' + 1}
    BY <2>2 DEF OrderInv, InOrder
  <2>5. /\ Len(eventChan'[d]) = eventSeq'[d] - Taken(d)'
        /\ \A i \in DOMAIN eventChan'[d] : eventChan'[d][i] = Taken(d)' + i
    BY <1>1, <2>2 DEF OrderInv, InOrder
  <2> QED
    BY <2>3, <2>4, <2>5 DEF InOrder
<1>14. InOrder(e)'
  <2>1. OnTheWay(e) \in Nat /\ inHand[e] = OnTheWay(e) + 1 /\ Taken(e) = OnTheWay(e) + 1
    BY <1>1, <1>2, <1>12 DEF OrderInv, InOrder, OnTheWay, Taken
  <2>2. Merged(e)' = Merged(e) \cup {n + 1}
    BY <1>10
  <2>3. Cardinality(Merged(e)') = Cardinality(Merged(e)) + 1
    <3>1. n + 1 \notin Merged(e)
      BY <1>7, <1>12
    <3> QED
      BY <1>12, <2>2, <3>1, FS_AddElement
  <2>4. OnTheWay(e)' = OnTheWay(e) + 1
    BY <1>1, <1>2, <1>12, <2>3 DEF OnTheWay
  <2>5. Taken(e)' = Taken(e)
    BY <1>6, <2>1, <2>4 DEF Taken
  <2>6. \A i \in Merged(e) : out'[i][2] = got'[e] + Cardinality(MergedUpTo(e, i)')
    <3> SUFFICES ASSUME NEW i \in Merged(e)
                 PROVE  out'[i][2] = got'[e] + Cardinality(MergedUpTo(e, i)')
      OBVIOUS
    <3>1. out[i][2] = got[e] + Cardinality(MergedUpTo(e, i))
      BY DEF OrderInv, InOrder
    <3>2. i \in 1..n
      BY <1>12
    <3> QED
      BY <1>1, <1>5, <1>11, <3>1, <3>2
  <2>7. ASSUME NEW i, i = n + 1
        PROVE  out'[i][2] = got'[e] + Cardinality(MergedUpTo(e, i)')
    <3>1. MergedUpTo(e, i)' = Merged(e)'
      <4>1. \A j \in Merged(e) \cup {i} : j <= i
        BY <1>3, <1>12, <2>7
      <4> QED
        BY <2>2, <2>7, <4>1 DEF MergedUpTo
    <3>2. OnTheWay(e)' = got'[e] + Cardinality(Merged(e)')
      BY DEF OnTheWay
    <3> QED
      BY <1>8, <2>1, <2>4, <2>7, <3>1, <3>2
  <2>8. \A i \in Merged(e)' : out'[i][2] = got'[e] + Cardinality(MergedUpTo(e, i)')
    BY <2>2, <2>6, <2>7
  <2>9. inHand'[e] \in {0, OnTheWay(e)' + 1}
    BY <1>6
  <2>10. /\ Len(eventChan'[e]) = eventSeq'[e] - Taken(e)'
         /\ \A i \in DOMAIN eventChan'[e] : eventChan'[e][i] = Taken(e)' + i
    BY <1>1, <2>5 DEF OrderInv, InOrder
  <2> QED
    BY <2>8, <2>9, <2>10 DEF InOrder
<1> QED
  BY <1>9, <1>13, <1>14 DEF OrderInv

\* The consumer takes the next number of an engine; the rest moves up by one.
LEMMA DrainOrder ==
    ASSUME IInv, OrderInv, Drain
    PROVE  OrderInv'
<1> DEFINE n == Len(out)
           S == Engines \X (Nat \ {0})
           h == out[1][1]
<1>1. /\ out # <<>> /\ out' = Tail(out)
      /\ got' = [got EXCEPT ![Head(out)[1]] = Head(out)[2]]
      /\ UNCHANGED <<eventSeq, eventChan, sources, inHand>>
  BY DEF Drain, processor
<1>2. /\ inHand \in [Engines -> Nat] /\ got \in [Engines -> Nat] /\ out \in Seq(S)
  BY DEF IInv, TypeOK
<1>3. n \in Nat /\ DOMAIN out = 1..n
  BY <1>2, LenProperties
<1>4. /\ n >= 1 /\ Head(out) = out[1] /\ out[1] \in S
      /\ DOMAIN out' = 1..(n - 1)
      /\ \A i \in 1..(n - 1) : out'[i] = out[i + 1]
  <2> HIDE DEF S
  <2>1. /\ n >= 1 /\ Head(out) = out[1] /\ out[1] \in S /\ Tail(out) \in Seq(S)
        /\ Len(Tail(out)) = n - 1 /\ \A i \in 1..(n - 1) : Tail(out)[i] = out[i + 1]
    BY <1>1, <1>2, HeadTailProperties
  <2>2. DOMAIN Tail(out) = 1..(n - 1)
    BY <2>1, LenProperties
  <2> QED
    BY <1>1, <2>1, <2>2
<1>5. h \in Engines /\ out[1][2] \in Nat
  BY <1>4
<1>6. got'[h] = out[1][2] /\ \A d \in Engines : d # h => got'[d] = got[d]
  BY <1>1, <1>2, <1>4, <1>5
<1> HIDE DEF n, S, h
<1>7. \A i \in 1..(n - 1) : i \in Int /\ i + 1 \in 1..n /\ i + 1 # 1
  BY <1>3
<1>8. \A i \in Int : i + 1 \in 1..n /\ i + 1 # 1 => i \in 1..(n - 1)
  BY <1>3
<1>9. FromSources'
  BY <1>1, <1>3, <1>4, <1>7 DEF OrderInv, FromSources
<1>10. ASSUME NEW d \in Engines PROVE InOrder(d)'
  <2> DEFINE M == Merged(d) \ {1}
             U(i) == MergedUpTo(d, i + 1) \ {1}
  <2>1. /\ Merged(d) \subseteq 1..n
        /\ IsFiniteSet(Merged(d)) /\ Cardinality(Merged(d)) \in Nat
        /\ \A i : IsFiniteSet(MergedUpTo(d, i)) /\ Cardinality(MergedUpTo(d, i)) \in Nat
    BY MergedFinite DEF IInv, n
  <2>2. 1 \in Merged(d) <=> d = h
    BY <1>3, <1>4 DEF Merged, h
  <2>3. Merged(d)' = {i \in Int : i + 1 \in M}
    <3>1. \A i \in Int : i + 1 \in M <=> i \in 1..(n - 1) /\ out[i + 1][1] = d
      BY <1>3, <1>7, <1>8 DEF Merged
    <3>2. Merged(d)' = {i \in 1..(n - 1) : out'[i][1] = d}
      BY <1>4 DEF Merged
    <3>3. \A i \in 1..(n - 1) : i \in Int
      BY <1>7
    <3> HIDE DEF M
    <3> QED
      BY <1>4, <3>1, <3>2, <3>3
  <2>4. \A i \in Merged(d)' : MergedUpTo(d, i)' = {j \in Int : j + 1 \in U(i)}
    <3> SUFFICES ASSUME NEW i \in Merged(d)'
                 PROVE  MergedUpTo(d, i)' = {j \in Int : j + 1 \in U(i)}
      OBVIOUS
    <3>1. i \in Int
      BY <2>3
    <3>2. \A j \in Int : j + 1 <= i + 1 <=> j <= i
      BY <3>1
    <3>3. MergedUpTo(d, i)' = {j \in Merged(d)' : j <= i}
      BY DEF MergedUpTo
    <3>4. \A j : j \in U(i) <=> j \in M /\ j <= i + 1
      BY DEF MergedUpTo
    <3> HIDE DEF M, U
    <3> QED
      BY <2>3, <3>2, <3>3, <3>4
  <2>5. /\ IsFiniteSet(M) /\ M \subseteq Int
        /\ Cardinality(M) = IF d = h THEN Cardinality(Merged(d)) - 1 ELSE Cardinality(Merged(d))
    BY <1>3, <2>1, <2>2, FS_RemoveElement
  <2>6. Cardinality(Merged(d)') = Cardinality(M)
    <3> HIDE DEF M
    <3> QED
      BY <2>3, <2>5, ShiftedCardinality
  <2>7. \A i \in Merged(d)' :
           Cardinality(MergedUpTo(d, i)')
             = IF d = h THEN Cardinality(MergedUpTo(d, i + 1)) - 1
               ELSE Cardinality(MergedUpTo(d, i + 1))
    <3> SUFFICES ASSUME NEW i \in Merged(d)'
                 PROVE  Cardinality(MergedUpTo(d, i)')
                          = IF d = h THEN Cardinality(MergedUpTo(d, i + 1)) - 1
                            ELSE Cardinality(MergedUpTo(d, i + 1))
      OBVIOUS
    <3>1. 1 \in MergedUpTo(d, i + 1) <=> d = h
      <4>1. i \in 1..(n - 1)
        BY <1>4 DEF Merged
      <4>2. 1 <= i + 1
        BY <1>3, <4>1
      <4> QED
        BY <2>2, <4>2 DEF MergedUpTo
    <3>2. /\ IsFiniteSet(U(i)) /\ U(i) \subseteq Int
          /\ Cardinality(U(i)) = IF d = h THEN Cardinality(MergedUpTo(d, i + 1)) - 1
                                 ELSE Cardinality(MergedUpTo(d, i + 1))
      <4>1. MergedUpTo(d, i + 1) \subseteq Int
        BY <1>3, <2>1 DEF MergedUpTo
      <4> QED
        BY <2>1, <3>1, <4>1, FS_RemoveElement
    <3>3. MergedUpTo(d, i)' = {j \in Int : j + 1 \in U(i)}
      BY <2>4
    <3> HIDE DEF U
    <3>4. Cardinality(MergedUpTo(d, i)') = Cardinality(U(i))
      BY <3>2, <3>3, ShiftedCardinality
    <3> QED
      BY <3>2, <3>4
  <2>8. d = h => got'[d] = got[d] + 1
    <3> SUFFICES ASSUME d = h PROVE got'[d] = got[d] + 1
      OBVIOUS
    <3>1. out[1][2] = got[d] + Cardinality(MergedUpTo(d, 1))
      BY <2>2 DEF OrderInv, InOrder
    <3>2. MergedUpTo(d, 1) = {1}
      BY <1>3, <2>1, <2>2 DEF MergedUpTo
    <3> QED
      BY <1>6, <3>1, <3>2, FS_Singleton
  <2>9. OnTheWay(d)' = OnTheWay(d) /\ Taken(d)' = Taken(d)
    <3>1. got[d] \in Nat
      BY <1>2
    <3>2. got'[d] + Cardinality(Merged(d)') = got[d] + Cardinality(Merged(d))
      BY <1>6, <2>1, <2>5, <2>6, <2>8, <3>1
    <3>3. OnTheWay(d)' = OnTheWay(d)
      BY <3>2 DEF OnTheWay
    <3> QED
      BY <1>1, <3>3 DEF Taken
  <2>10. \A i \in Merged(d)' : out'[i][2] = got'[d] + Cardinality(MergedUpTo(d, i)')
    <3> SUFFICES ASSUME NEW i \in Merged(d)'
                 PROVE  out'[i][2] = got'[d] + Cardinality(MergedUpTo(d, i)')
      OBVIOUS
    <3>1. i + 1 \in Merged(d) /\ i \in 1..(n - 1)
      BY <1>4, <2>3 DEF Merged
    <3>2. out'[i][2] = got[d] + Cardinality(MergedUpTo(d, i + 1))
      BY <1>4, <3>1 DEF OrderInv, InOrder
    <3>3. got[d] \in Nat /\ Cardinality(MergedUpTo(d, i + 1)) \in Nat
      BY <1>2, <2>1
    <3> QED
      BY <1>6, <2>7, <2>8, <3>2, <3>3
  <2>11. inHand'[d] \in {0, OnTheWay(d)' + 1}
    BY <1>1, <2>9 DEF OrderInv, InOrder
  <2>12. /\ Len(eventChan'[d]) = eventSeq'[d] - Taken(d)'
         /\ \A i \in DOMAIN eventChan'[d] : eventChan'[d][i] = Taken(d)' + i
    BY <1>1, <2>9 DEF OrderInv, InOrder
  <2> QED
    BY <2>10, <2>11, <2>12 DEF InOrder
<1> QED
  BY <1>9, <1>10 DEF OrderInv

\* A step that moves no event.
LEMMA OrderUntouched ==
    ASSUME OrderInv, UNCHANGED <<eventSeq, eventChan, sources, inHand, out, got>>
    PROVE  OrderInv'
BY OrderFrame DEF OrderInv, FromSources

LEMMA NextOrder == IInv /\ OrderInv /\ [Next]_vars => OrderInv'
<1> SUFFICES ASSUME IInv, OrderInv, [Next]_vars PROVE OrderInv'
  OBVIOUS
<1>1. CASE \E m \in Markets : CreateMarket(m)
  BY <1>1, OrderUntouched DEF CreateMarket, fanIn
<1>2. ASSUME NEW e \in Engines, Submit(e) \/ Dispatch(e) \/ Tick(e) \/ Emit(e) \/ Quit(e)
      PROVE  OrderInv'
  <2>1. CASE Submit(e) \/ Quit(e)
    BY <2>1, OrderUntouched DEF Submit, Quit, fanIn
  <2>2. CASE Dispatch(e) \/ Tick(e)
    BY <2>2, OrderUntouched DEF Dispatch, Tick, Handle, fanIn
  <2>3. CASE Emit(e)
    BY <2>3, EmitOrder
  <2> QED
    BY <1>2, <2>1, <2>2, <2>3
<1>3. CASE \E k \in Closers, m \in Markets : CloseMarket(k, m)
  BY <1>3, OrderUntouched DEF CloseMarket, processor, fanIn
<1>4. ASSUME NEW k \in Closers, Close(k) \/ CloseStep(k)
      PROVE  OrderInv'
  BY <1>4, OrderUntouched
     DEF Close, CloseStep, CloseNext, SignalQuit, AwaitDone, CloseEvents, processor, fanIn
<1>5. CASE AllEvents \/ CloseOut \/ Drain
  <2>1. CASE CloseOut
    BY <2>1, OrderUntouched DEF CloseOut, processor
  <2> QED
    BY <1>5, <2>1, AllEventsOrder, DrainOrder
<1>6. ASSUME NEW e \in Engines, ForwarderStep(e) \/ Forward(e) \/ DrainDirect(e)
      PROVE  OrderInv'
  <2>1. CASE ForwarderReturns(e)
    BY <2>1, OrderUntouched DEF ForwarderReturns, processor
  <2> QED
    BY <1>6, <2>1, ReceiveOrder, ForwardOrder, DrainDirectOrder DEF ForwarderStep
<1>7. CASE UNCHANGED vars
  BY <1>7, OrderUntouched DEF vars
<1> QED
  BY <1>1, <1>2, <1>3, <1>4, <1>5, <1>6, <1>7 DEF Next

\* Every event of an engine is, in this order, received, in the merged channel, with the
\* forwarder or in the engine's channel: none is lost, doubled or overtaken, with any
\* number of engines, any capacity of the channels, and whoever closes what and when.
THEOREM NoEventLostOrReordered == Spec => []EventsInOrder
<1>1. Init => OrderInv
  BY InitOrder
<1>2. IInv /\ OrderInv /\ [Next]_vars => OrderInv'
  BY NextOrder
<1>3. OrderInv => EventsInOrder
  BY OrderInvImplies
<1> QED
  BY <1>1, <1>2, <1>3, Inductive, PTL DEF Spec
=============================================================================
