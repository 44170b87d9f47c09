-------------------------------- MODULE Pool --------------------------------
(***************************************************************************)
(* The fixed-capacity pool (package pool): a stack of the free slots.  The *)
(* pool keeps no record of who holds a slot and checks nothing on Release: *)
(* a slot released twice is on the stack twice and is later handed out     *)
(* twice.  That no client does so is for the client's module to show.      *)
(* Slots are numbered from 1 where the code counts from 0.                 *)
(***************************************************************************)
EXTENDS Naturals, Sequences, SequencesExt

Slots(capacity) == 1..capacity

\* Slots are pushed from the last to the first, so the first is handed out first.
NewPool(capacity) == [i \in Slots(capacity) |-> capacity + 1 - i]

Exhausted(free) == free = <<>>
NextSlot(free) == Last(free)
Acquire(free) == Front(free)

Release(free, slot) == Append(free, slot)
=============================================================================
