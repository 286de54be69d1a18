------------------------------- MODULE Vesting -------------------------------
(***************************************************************************)
(* The arithmetic of a payment stream: src/vesting.rs, src/normalize.rs,   *)
(* the amount checks of src/constants.rs and the read-only getters of      *)
(* src/lib.rs that only combine them.                                      *)
(*                                                                         *)
(* A stream record s has the fields of types::Stream.  A computation that  *)
(* the code guards with checked arithmetic is split in two: a predicate    *)
(* that says when the check fails (the caller then returns Error::Overflow *)
(* and changes nothing) and the value returned otherwise.                  *)
(***************************************************************************)
EXTENDS Integers

CONSTANTS
  I128MAX,            \* the largest i128; token amounts never exceed it
  MIN_STREAM_AMOUNT,  \* smallest total_amount of a stream
  MIN_VALID_AMOUNT    \* smallest amount accepted at all

ASSUME VestingAssumption ==
  /\ I128MAX \in Nat \ {0}
  /\ MIN_STREAM_AMOUNT \in 1..I128MAX
  /\ MIN_VALID_AMOUNT \in 1..I128MAX

I128MIN == -I128MAX - 1

\* is_valid_amount clears both floors at once.
is_valid_amount(amount) ==
  amount >= MIN_VALID_AMOUNT /\ amount >= MIN_STREAM_AMOUNT

-----------------------------------------------------------------------------
(* Normalisation of times                                                  *)

START_NOW == 0

normalize_start_time(now, start_time) ==
  IF start_time = START_NOW THEN now ELSE start_time

clamp_to_window(start, end, now) ==
  IF now <= start THEN start ELSE IF now >= end THEN end ELSE now

-----------------------------------------------------------------------------
(* Vesting                                                                 *)

\* total.checked_mul(elapsed) leaves the i128 range.  The product is only
\* formed strictly inside the window.
vesting_overflows(s, now) ==
  /\ s.start < now
  /\ now < s.end
  /\ s.total * (now - s.start) > I128MAX

\* Slips of vested the properties must notice: the rate rounded first, and
\* the remaining time in place of the elapsed time.
vested_by_rate(s, now) ==
  (s.total \div (s.end - s.start)) * (clamp_to_window(s.start, s.end, now) - s.start)
vested_counting_down(s, now) ==
  IF now <= s.start THEN 0
  ELSE IF now >= s.end THEN s.total
  ELSE (s.total * (s.end - now)) \div (s.end - s.start)

vested(s, now) ==
  IF now <= s.start THEN 0
  ELSE IF now >= s.end THEN s.total
  ELSE (s.total * (now - s.start)) \div (s.end - s.start)

\* Slip: the sender is refunded all that was not withdrawn.
unvested_by_withdrawn(s, now) == s.total - s.withdrawn

unvested(s, now) == s.total - vested(s, now)

\* Slip: the clamp of withdrawable is lost.
withdrawable_unclamped(s, now) == vested(s, now) - s.withdrawn

\* vested - withdrawn, clamped at zero: withdrawn exceeds vested when the
\* window was extended after a withdrawal.
withdrawable(s, now) ==
  IF vested(s, now) > s.withdrawn THEN vested(s, now) - s.withdrawn ELSE 0

duration(s) == s.end - s.start

elapsed(s, now) == clamp_to_window(s.start, s.end, now) - s.start

BPS == 10000

progress_bps(s, now) ==
  IF now <= s.start THEN 0
  ELSE IF now >= s.end THEN BPS
  ELSE ((now - s.start) * BPS) \div (s.end - s.start)

percent_overflows(s) == s.total > 0 /\ s.withdrawn * BPS > I128MAX

percent_withdrawn(s) ==
  IF s.total <= 0 THEN 0 ELSE (s.withdrawn * BPS) \div s.total

get_summary(s, now) ==
  [total |-> s.total, vested |-> vested(s, now), withdrawn |-> s.withdrawn,
   withdrawable |-> withdrawable(s, now),
   progress_bps |-> progress_bps(s, now), status |-> s.status]

-----------------------------------------------------------------------------
(* What the arithmetic promises, for one stream and one time.              *)

\* vested is the exact share total * elapsed / duration rounded down, at the
\* ends of the window as well as inside it: the three-way case split of
\* vesting::vested and the clamped view vesting::elapsed agree.
VestedIsFloor(s, now) ==
  /\ vested(s, now) * duration(s) <= s.total * elapsed(s, now)
  /\ s.total * elapsed(s, now) < (vested(s, now) + 1) * duration(s)

\* What a recipient can see vested never goes back as ledger time passes.
VestedMonotone(s, now, later) ==
  now <= later => vested(s, now) <= vested(s, later)

\* Pushing the end back (extend_stream) never vests anything sooner.
ExtendSlows(s, now, new_end) ==
  s.end <= new_end => vested([s EXCEPT !.end = new_end], now) <= vested(s, now)

\* Topping up never takes back what had vested, and vests at most the amount
\* added on the spot.
TopUpKeepsVested(s, now, amount) ==
  LET t == [s EXCEPT !.total = @ + amount]
  IN  /\ vested(s, now) <= vested(t, now)
      /\ vested(t, now) <= vested(s, now) + amount

\* The view in tokens (streamed_amount) and the view in time (progress_bps)
\* of one stream differ by less than one unit of each other.
ProgressAgrees(s, now) ==
  LET v == vested(s, now)
      p == progress_bps(s, now)
  IN  /\ p * s.total < (v + 1) * BPS
      /\ v * BPS < (p + 1) * s.total

\* The figures of one get_summary snapshot are consistent: nothing is
\* withdrawable beyond the total, and at most 100% of it has vested.
SummaryAdds(s, now) ==
  LET r == get_summary(s, now)
  IN  /\ r.vested + unvested(s, now) = r.total
      /\ r.withdrawable \in 0..(r.total - r.withdrawn)
      /\ r.withdrawn <= r.vested => r.withdrawn + r.withdrawable = r.vested
      /\ r.progress_bps \in 0..BPS
=============================================================================
