--------------------------- MODULE CircuitBreaker ---------------------------
(***************************************************************************)
(* The circuit breaker (package circuit) as the processor drives it: a     *)
(* ring buffer of price samples whose stale end is cut off, a percentage   *)
(* in machine integers, a cooldown, and a halt that may not succeed.  A    *)
(* step is one call of Check with what the processor does about its        *)
(* answer.                                                                 *)
(***************************************************************************)
EXTENDS Integers, Sequences, FiniteSetsExt, Decimal

CONSTANTS
    Prices,         \* the prices trades have
    MaxSamples,     \* capacity of the ring buffer, 10_000 in the code
    WindowDuration,
    CooldownPeriod, \* 0: none
    MaxMovePercent, \* in units of 1 / Scale
    Scale,          \* ten to the power of MaxMovePercent's precision
    MaxChecks,      \* bound on the calls one command makes: its cascade
    MaxTime         \* bound on the clock

ASSUME ConfigAssumption ==
    /\ {MaxSamples, Scale, MaxTime} \subseteq Nat \ {0}
    /\ {WindowDuration, CooldownPeriod, MaxMovePercent, MaxChecks} \subseteq Nat
    /\ Prices \subseteq Nat \ {0}

\* The code's Div does not look for overflow; this is what it needs.
ASSUME FitAssumption == \A p, q \in Prices : (p - q) * Scale <= MaxInt

Slot == 0..(MaxSamples - 1)
Sample == [price : Nat, time : Nat]

VARIABLES
    window,   \* RollingWindow: buffer, head, size
    lastHalt,
    state,    \* of the market; here Open or Halted
    checks,   \* the calls of Check the running command has still to make
    now       \* the time of the running command

vars == <<window, lastHalt, state, checks, now>>

------------------------------------------------------------------------------
(* RollingWindow.                                                            *)

\* Where the sample stands that is the k-th from the newest.
Index(w, k) == (w.head - k + MaxSamples) % MaxSamples

OldestPrice(w) == w.buffer[Index(w, w.size)].price

\* Fault: the head runs off the end of the buffer.
Recorded_NoWrap(w, p) ==
    [buffer |-> [w.buffer EXCEPT ![w.head] = [price |-> p, time |-> now]],
     head |-> w.head + 1,
     size |-> IF w.size < MaxSamples THEN w.size + 1 ELSE w.size]

\* Add, up to its loop.
Recorded(w, p) ==
    [buffer |-> [w.buffer EXCEPT ![w.head] = [price |-> p, time |-> now]],
     head |-> (w.head + 1) % MaxSamples,
     size |-> IF w.size < MaxSamples THEN w.size + 1 ELSE w.size]

\* The loop of Add: the size at which the oldest sample is not stale.
Evicted(w) ==
    [w EXCEPT !.size = Max({0} \cup {k \in 1..w.size :
                               w.buffer[Index(w, k)].time >= now - WindowDuration})]

Add(w, p) == Evicted(Recorded(w, p))

\* The samples stay in the buffer, out of reach.
Reset(w) == [buffer |-> w.buffer, head |-> 0, size |-> 0]

------------------------------------------------------------------------------
(* CircuitBreaker.Check and the processor.                                   *)

Suppressed == CooldownPeriod > 0 /\ lastHalt > 0 /\ now - lastHalt < CooldownPeriod

\* What Check answers, where w already holds the sample.
ShouldHalt(w, p) ==
    /\ ~Suppressed
    /\ w.size >= 2
    /\ OldestPrice(w) # 0
    /\ Div(Magnitude(p - OldestPrice(w)), OldestPrice(w), Scale) > MaxMovePercent

\* Fault: the window is not reset.
SetLastHalt_KeepsWindow(w) == lastHalt' = now /\ window' = w

SetLastHalt(w) == lastHalt' = now /\ window' = Reset(w)

\* The command has traded at p and its stops have run.  The market may be halted already:
\* then the transition fails and the breaker is not told.
Check(p) ==
    /\ checks > 0
    /\ checks' = checks - 1
    /\ \E w \in {Add(window, p)} :
          \/ ~ShouldHalt(w, p) /\ window' = w /\ UNCHANGED <<lastHalt, state>>
          \/ ShouldHalt(w, p) /\ state = "Open" /\ state' = "Halted" /\ SetLastHalt(w)
          \/ ShouldHalt(w, p) /\ state = "Halted" /\ window' = w /\ UNCHANGED <<lastHalt, state>>
    /\ UNCHANGED now

\* A command that trades, and whose cascade comes to n calls in all.
Command(n, t) ==
    /\ checks = 0
    /\ state = "Open"
    /\ now' = t
    /\ checks' = n
    /\ UNCHANGED <<window, lastHalt, state>>

\* The cascade limit, in a command, or an administrator, between two.
HaltOtherwise ==
    /\ state = "Open"
    /\ state' = "Halted"
    /\ UNCHANGED <<window, lastHalt, checks, now>>

Resume ==
    /\ checks = 0
    /\ state = "Halted"
    /\ state' = "Open"
    /\ UNCHANGED <<window, lastHalt, checks, now>>

------------------------------------------------------------------------------
Init ==
    /\ window = [buffer |-> [i \in Slot |-> [price |-> 0, time |-> 0]], head |-> 0, size |-> 0]
    /\ lastHalt = 0
    /\ state = "Open"
    /\ checks = 0
    /\ now = 1

Next ==
    \/ \E p \in Prices : Check(p)
    \/ \E n \in 1..MaxChecks, t \in now..MaxTime : Command(n, t)
    \/ HaltOtherwise \/ Resume

Spec == Init /\ [][Next]_vars

------------------------------------------------------------------------------
(* Properties.                                                               *)

\* Types of all variables; the indices of the ring buffer stay inside it.
TypeOK ==
    /\ window \in [buffer : [Slot -> Sample], head : Slot, size : 0..MaxSamples]
    /\ lastHalt \in 0..MaxTime
    /\ state \in {"Open", "Halted"}
    /\ checks \in 0..MaxChecks
    /\ now \in 1..MaxTime

\* The samples in the window, oldest first.
Samples == [i \in 1..window.size |-> window.buffer[Index(window, window.size - i + 1)]]

Band == INSTANCE PriceBand WITH recent <- Samples

\* The promise of PriceBand: the ring buffer forgets only what is stale or too much, and the
\* market is halted exactly when a trade is too far from the oldest price that counts.
ImplementsPriceBand == Band!Spec
=============================================================================
