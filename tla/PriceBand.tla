----------------------------- MODULE PriceBand -----------------------------
(***************************************************************************)
(* What a circuit breaker promises.  The reference price is that of the    *)
(* oldest trade since the last halt that is not older than WindowDuration  *)
(* and among the last MaxSamples.  A trade halts an open market if and     *)
(* only if it moved too far from the reference and the last such halt is   *)
(* CooldownPeriod ago.  CircuitBreaker is shown to implement this module.  *)
(***************************************************************************)
EXTENDS Integers, Sequences, FiniteSetsExt

CONSTANTS Prices, MaxSamples, WindowDuration, CooldownPeriod, MaxMovePercent, Scale

VARIABLES
    recent,   \* the trades that count, oldest first
    state,
    lastHalt, \* when the breaker last halted the market, 0 for never
    now

vars == <<recent, state, lastHalt, now>>

Distance(p, q) == IF p > q THEN p - q ELSE q - p

\* A whole unit of 1 / Scale more than the limit.
TooFar(p, reference) == Distance(p, reference) * Scale >= (MaxMovePercent + 1) * reference

Youngest(s) ==
    SubSeq(s, IF Len(s) > MaxSamples THEN Len(s) - MaxSamples + 1 ELSE 1, Len(s))

\* The trades that count once p is traded: the youngest, from the first on that is not stale.
Counting(p) ==
    LET s == Youngest(Append(recent, [price |-> p, time |-> now]))
        fresh == {i \in DOMAIN s : s[i].time >= now - WindowDuration}
    IN  SubSeq(s, Min(fresh), Len(s))

Cooled == lastHalt = 0 \/ now - lastHalt >= CooldownPeriod

Breaks(p) == state = "Open" /\ Cooled /\ TooFar(p, Counting(p)[1].price)

Trade(p) ==
    IF Breaks(p)
    THEN recent' = <<>> /\ state' = "Halted" /\ lastHalt' = now /\ UNCHANGED now
    ELSE recent' = Counting(p) /\ UNCHANGED <<state, lastHalt, now>>

\* Somebody else halts the market, or resumes it.
Switch == state' \in {"Open", "Halted"} /\ UNCHANGED <<recent, lastHalt, now>>

Wait == now' >= now /\ UNCHANGED <<recent, state, lastHalt>>

Init == recent = <<>> /\ state = "Open" /\ lastHalt = 0 /\ now = 1

Next == Switch \/ Wait \/ \E p \in Prices : Trade(p)

Spec == Init /\ [][Next]_vars
=============================================================================
