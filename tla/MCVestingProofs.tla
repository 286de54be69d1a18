--------------------------- MODULE MCVestingProofs ---------------------------
(***************************************************************************)
(* What the runs of MCVesting check on small streams, for streams of any   *)
(* size: every bound MaxTotal and MaxEnd.                                  *)
(***************************************************************************)
EXTENDS MCVesting, ArithmeticProofs

\* The stream has a window and is not overdrawn while the clock advances.
Inv ==
  /\ s \in [total: Nat, withdrawn: Nat, start: Nat, end: Nat, status: {"Active"}]
  /\ Window(s)
  /\ s.withdrawn \in 0..s.total
  /\ timestamp \in Nat

LEMMA InvInit == Init => Inv
  BY BoundsAssumption DEF Init, Inv, Window

LEMMA InvStep == Inv /\ [Tick]_vars => Inv'
  BY DEF Tick, vars, Inv, Window

\* The stream keeps its window, however long the clock runs.
THEOREM Invariance == Spec => []Inv
  BY InvInit, InvStep, PTL DEF Spec

\* streamed_amount is the share of the total for the elapsed part of the
\* window, rounded down, at every time.
THEOREM AlwaysExact == Spec => []VestingIsExact
<1>1. Inv => VestingIsExact
  BY VestedFloor DEF Inv, VestingIsExact
<1> QED
  BY <1>1, Invariance, PTL

\* streamed_amount never decreases as ledger time passes.
THEOREM AlwaysMonotone == Spec => VestingIsMonotone
<1>1. Inv /\ Inv' /\ [Tick]_vars => [VestedMonotone(s, timestamp, timestamp')]_vars
  BY VestedGrows DEF Inv
<1>2. Spec => [][VestedMonotone(s, timestamp, timestamp')]_vars
  BY <1>1, Invariance, PTL DEF Spec
<1> QED
  BY <1>2 DEF VestingIsMonotone

\* extend_stream never makes a stream vest sooner, at any time.
THEOREM ExtendingAlwaysSlows == Spec => []ExtendingSlows
<1>1. Inv => ExtendingSlows
  <2> SUFFICES ASSUME Inv, NEW e \in s.end..(MaxEnd + 2)
               PROVE  ExtendSlows(s, timestamp, e)
    BY DEF ExtendingSlows
  <2> DEFINE t == [s EXCEPT !.end = e]
  <2>1. /\ Window(s) /\ timestamp \in Nat
        /\ e \in Nat /\ s.end <= e
    BY BoundsAssumption DEF Inv, Window
  <2>2. t.total = s.total /\ t.start = s.start /\ t.end = e
    BY DEF Inv
  <2>3. Window(t)
    BY <2>1, <2>2 DEF Window
  <2> HIDE DEF t
  <2>4. vested(t, timestamp) <= vested(s, timestamp)
    BY <2>1, <2>2, <2>3, LaterEndVestsLess
  <2> QED
    BY <2>4 DEF ExtendSlows, t
<1> QED
  BY <1>1, Invariance, PTL

\* A top-up takes nothing back and vests at most what it adds.
THEOREM TopUpAlwaysAddsAtMost == Spec => []TopUpAddsAtMost
<1>1. Inv => TopUpAddsAtMost
  <2> SUFFICES ASSUME Inv, NEW a \in 1..MaxTotal
               PROVE  TopUpKeepsVested(s, timestamp, a)
    BY DEF TopUpAddsAtMost
  <2> DEFINE t == [s EXCEPT !.total = @ + a]
  <2>1. Window(s) /\ timestamp \in Nat /\ a \in Nat
    BY BoundsAssumption DEF Inv
  <2>2. t.total = s.total + a /\ t.start = s.start /\ t.end = s.end
    BY DEF Inv
  <2>3. Window(t)
    BY <2>1, <2>2 DEF Window
  <2> HIDE DEF t
  <2>4. vested(s, timestamp) <= vested(t, timestamp)
        /\ vested(t, timestamp) <= vested(s, timestamp) + a
    BY <2>1, <2>2, <2>3, LargerTotalVestsMore
  <2> QED
    BY <2>4 DEF TopUpKeepsVested, t
<1> QED
  BY <1>1, Invariance, PTL

\* streamed_amount and progress_bps never drift apart by a whole unit.
THEOREM ViewsAlwaysAgree == Spec => []ViewsAgree
<1>1. Inv => ViewsAgree
  BY ViewsOfOneShare DEF Inv, ViewsAgree
<1> QED
  BY <1>1, Invariance, PTL

\* get_summary is consistent at every time.
THEOREM SummaryAlwaysConsistent == Spec => []SummaryConsistent
<1>1. Inv => SummaryConsistent
  BY SummaryOfOneStream DEF Inv, SummaryConsistent
<1> QED
  BY <1>1, Invariance, PTL
=============================================================================
