---------------------------- MODULE PendingStops ----------------------------
(***************************************************************************)
(* What a stop book promises, without trees, lists, slots or pointers: a   *)
(* set of pending stops.  A scan for a trade price fires every stop the    *)
(* price reaches and no other, the sells from the highest trigger down,    *)
(* then the buys from the lowest up, and in order of arrival at one        *)
(* trigger.  StopBook is shown to implement this module.                   *)
(***************************************************************************)
EXTENDS Integers

CONSTANTS OrderIds, Nil

VARIABLES
    pending,  \* id -> stop
    scanned,  \* the trade price of the scan that is running, or Nil
    clock     \* the last sequence number given out

vars == <<pending, scanned, clock>>

Without(S) == [o \in DOMAIN pending \ S |-> pending[o]]

Reaches(price, stop) ==
    IF stop.side = "Ask" THEN price <= stop.trigger ELSE price >= stop.trigger

FiresBefore(a, b) ==
    \/ a.side = "Ask" /\ b.side = "Bid"
    \/ /\ a.side = b.side
       /\ IF a.side = "Ask" THEN a.trigger > b.trigger ELSE a.trigger < b.trigger
    \/ a.side = b.side /\ a.trigger = b.trigger /\ a.seq < b.seq

ReachedStops == {o \in DOMAIN pending : Reaches(scanned, pending[o])}

Init ==
    /\ pending = [o \in {} |-> Nil]
    /\ scanned = Nil
    /\ clock = 0

\* A new stop under an id that is not pending, with the next sequence number.
Arrive(o) ==
    /\ scanned = Nil
    /\ o \notin DOMAIN pending
    /\ DOMAIN pending' = DOMAIN pending \cup {o}
    /\ \A x \in DOMAIN pending : pending'[x] = pending[x]
    /\ pending'[o].seq = clock + 1
    /\ clock' = clock + 1
    /\ UNCHANGED scanned

\* The user withdraws one stop, or the expiry tick takes one that is due.
Leave(o) ==
    /\ scanned = Nil
    /\ o \in DOMAIN pending
    /\ pending' = Without({o})
    /\ UNCHANGED <<scanned, clock>>

Scan ==
    /\ scanned = Nil
    /\ scanned' # Nil
    /\ UNCHANGED <<pending, clock>>

Fire(o) ==
    /\ scanned # Nil
    /\ o \in ReachedStops
    /\ \A x \in ReachedStops \ {o} : FiresBefore(pending[o], pending[x])
    /\ pending' = Without({o})
    /\ UNCHANGED <<scanned, clock>>

\* A scan ends only when every stop it reaches has fired.
ScanEnds ==
    /\ scanned # Nil
    /\ ReachedStops = {}
    /\ scanned' = Nil
    /\ UNCHANGED <<pending, clock>>

Next ==
    \/ Scan \/ ScanEnds
    \/ \E o \in OrderIds : Arrive(o) \/ Leave(o) \/ Fire(o)

Spec == Init /\ [][Next]_vars
=============================================================================
