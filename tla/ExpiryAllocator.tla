--------------------------- MODULE ExpiryAllocator --------------------------
(***************************************************************************)
(* The expiry (priority) source of one signing account,                    *)
(* statement-store/src/submit/allocator.ts.  An expiry is compared whole;  *)
(* its high word is a constant, so it is its low word here, counted in     *)
(* seconds from the source's epoch.                                        *)
(***************************************************************************)
EXTENDS Integers, FiniteSetsExt

\* Mutants of NextExpiry: a plain counter; a clock that ties within a second.
CountedExpiry(current, now) == current + 1

ClockExpiry(current, now) == IF now > current THEN now ELSE current

\* The wall clock's priority, or one more than the last value handed out.
NextExpiry(current, now) == IF now > current THEN now ELSE current + 1

\* Mutant of RaisedFloor: the report is ignored.
KeptFloor(current, min) == current

\* Adopt a minimum the chain reported.
RaisedFloor(current, min) == IF min > current THEN min ELSE current
=============================================================================
