------------------------------ MODULE MCVesting ------------------------------
(***************************************************************************)
(* Drives the vesting arithmetic over every small stream while the ledger  *)
(* clock runs from 0 past the end of the window.                           *)
(***************************************************************************)
EXTENDS Vesting

CONSTANTS
  MaxTotal,  \* bound of the totals and of what was withdrawn
  MaxEnd     \* bound of the windows

ASSUME BoundsAssumption == MaxTotal \in Nat /\ MaxEnd \in Nat

VARIABLES s, timestamp
vars == <<s, timestamp>>

Init ==
  /\ timestamp = 0
  /\ s \in [total: 1..MaxTotal, withdrawn: 0..MaxTotal, start: 0..MaxEnd,
            end: 1..MaxEnd, status: {"Active"}]
  /\ s.withdrawn <= s.total
  /\ s.start < s.end

\* The ledger closes and its clock advances; one second past every end.
Tick == timestamp <= MaxEnd /\ timestamp' = timestamp + 1 /\ UNCHANGED s

Spec == Init /\ [][Tick]_vars

\* streamed_amount, duration and elapsed agree on the floor of the share.
VestingIsExact == VestedIsFloor(s, timestamp)

\* streamed_amount never decreases as ledger time passes.
VestingIsMonotone == [][VestedMonotone(s, timestamp, timestamp')]_vars

\* No later end makes anything vest sooner, at any time.
ExtendingSlows == \A e \in s.end..(MaxEnd + 2) : ExtendSlows(s, timestamp, e)

\* Topping up never lowers what had vested, and by no more than it adds.
TopUpAddsAtMost == \A a \in 1..MaxTotal : TopUpKeepsVested(s, timestamp, a)

\* streamed_amount and progress_bps tell the same story.
ViewsAgree == ProgressAgrees(s, timestamp)

\* The figures of get_summary are consistent with each other.
SummaryConsistent == SummaryAdds(s, timestamp)
=============================================================================
