----------------------------- MODULE HoldOverlay -----------------------------
(***************************************************************************)
(* The sequencer's own decisions about a hold (pending/src/overlay.rs), as *)
(* operators on one entry of the overlay's map.  An entry is a record of   *)
(* one shape for the four variants of the code's enum Entry plus "none",   *)
(* a key the map does not have; a field a variant lacks is zero.           *)
(***************************************************************************)
EXTENDS Integers

Tags == {"none", "watched", "missing", "removed", "decided"}

Entry == [tag : Tags, pinned : Nat, remaining : Int, reserved : Int,
          resolved : BOOLEAN, safe_after : Nat]

\* A variant that carries nothing but its pins.
Bare(tag, pins) == [tag |-> tag, pinned |-> pins, remaining |-> 0,
                    reserved |-> 0, resolved |-> FALSE, safe_after |-> 0]

NoEntry == Bare("none", 0)

\* struct Hold: a decided hold, and what proposed resolutions have taken.
Hold(pinned, remaining, reserved, resolved) ==
    [tag |-> "decided", pinned |-> pinned, remaining |-> remaining,
     reserved |-> reserved, resolved |-> resolved, safe_after |-> 0]

(***************************************************************************)
(* known(): the one place an entry is decoded.                             *)
(***************************************************************************)
Live(e) == e.tag = "decided"
Gone(e) == e.tag \in {"missing", "removed"}

(***************************************************************************)
(* Pins and lookups.                                                       *)
(***************************************************************************)
BeginLookup(e) == IF e.tag = "none" THEN Bare("watched", 0) ELSE e

Pin(e) == IF e.tag = "none" THEN e ELSE [e EXCEPT !.pinned = @ + 1]

Unpin(e) == IF e.pinned = 0 THEN e ELSE [e EXCEPT !.pinned = @ - 1]

Decide(e, left) == Hold(e.pinned, left, 0, FALSE)

\* Seeded fault: an answer that crossed a removal is believed.
AdmitLookupOverGone(e, found) ==
    IF Live(e) THEN e
    ELSE IF found > 0 THEN Decide(e, found) ELSE Bare("missing", e.pinned)

\* What the engine answered; found = 0 is "not there".  Anything the
\* sequencer has decided since the answer left stands.
AdmitLookup(e, found) ==
    IF Live(e) \/ Gone(e) THEN e
    ELSE IF found > 0 THEN Decide(e, found) ELSE Bare("missing", e.pinned)

(***************************************************************************)
(* What the write handed to the engine says about the hold.                *)
(***************************************************************************)
Created(e, amount) == IF e.tag = "none" THEN e ELSE Decide(e, amount)

NoteRemaining(e, left) ==
    IF Live(e) THEN Hold(e.pinned, left, e.reserved, e.resolved) ELSE e

\* Seeded fault: the removal's marker is dropped and its pins with it.
ForgetDrops(e, safe_after) == NoEntry

Forget(e, safe_after) ==
    [tag |-> "removed", pinned |-> e.pinned, remaining |-> 0, reserved |-> 0,
     resolved |-> FALSE, safe_after |-> safe_after]

(***************************************************************************)
(* Reservations of proposed and uncommitted resolutions.                   *)
(***************************************************************************)
\* Seeded fault: the judge decides and reserves nothing.
ReserveNothing(e, amount, resolves) == e

Reserve(e, amount, resolves) ==
    IF Live(e)
    THEN Hold(e.pinned, e.remaining, e.reserved + amount, e.resolved \/ resolves)
    ELSE e

\* A reservation that was never taken cannot be given back.
ReleaseReservation(e, amount) ==
    IF Live(e)
    THEN Hold(e.pinned, e.remaining,
              IF e.reserved > amount THEN e.reserved - amount ELSE 0, e.resolved)
    ELSE e

\* Seeded fault: a rollback clears the mark of a full resolution and keeps
\* the money reserved.
CompensateMarkOnly(e, amount, resolves) ==
    IF Live(e)
    THEN Hold(e.pinned, e.remaining, e.reserved, e.resolved /\ ~resolves)
    ELSE e

Compensate(e, amount, resolves) ==
    IF Live(e)
    THEN Hold(e.pinned, e.remaining, e.reserved - amount, e.resolved /\ ~resolves)
    ELSE e

(***************************************************************************)
(* Eviction: which unpinned entries housekeeping may drop.                 *)
(***************************************************************************)

\* Seeded fault: an entry goes whoever still has it pinned.
IdleIgnoresPins(e, applied) ==
    /\ e.tag # "none"
    /\ Live(e) => e.reserved = 0 /\ ~e.resolved
    /\ e.tag = "removed" => applied >= e.safe_after

Idle(e, applied) ==
    /\ e.tag # "none"
    /\ e.pinned = 0
    /\ Live(e) => e.reserved = 0 /\ ~e.resolved
    /\ e.tag = "removed" => applied >= e.safe_after

(***************************************************************************)
(* HoldView::compose: the record a lookup brought back (found = what it    *)
(* had left) under what the sequencer has decided since.                   *)
(***************************************************************************)
ViewResolved(e) == Gone(e) \/ (Live(e) /\ e.resolved)

ViewRemaining(e, found) ==
    IF Live(e)
    THEN (IF e.remaining < found THEN e.remaining ELSE found) - e.reserved
    ELSE IF Gone(e) THEN 0 ELSE found
=============================================================================
