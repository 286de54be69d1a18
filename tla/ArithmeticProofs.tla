-------------------------- MODULE ArithmeticProofs --------------------------
(***************************************************************************)
(* Facts about the arithmetic the contract's safety rests on: the vesting  *)
(* of one stream, and the sums over all of them.                           *)
(***************************************************************************)
EXTENDS Sums, Vesting, WellFoundedInduction, TLAPS

-----------------------------------------------------------------------------
(* The vesting arithmetic, for every stream and every time: the bounds, the *)
(* exactness and the monotonicity.  First, truncating division.             *)

\* Truncating division of naturals rounds down.
LEMMA DivFloor ==
  ASSUME NEW n \in Nat, NEW d \in Nat \ {0}
  PROVE  /\ n \div d \in Nat
         /\ (n \div d) * d <= n
         /\ n < (n \div d) * d + d
OBVIOUS

\* Multiplication by a natural is monotone ...
LEMMA MulMono ==
  ASSUME NEW a \in Nat, NEW b \in Nat, NEW c \in Nat, a <= b
  PROVE  c * a <= c * b
OBVIOUS

\* ... and strictly so when the factor is positive.
LEMMA MulStrict ==
  ASSUME NEW a \in Nat, NEW b \in Nat, NEW c \in Nat \ {0}, a < b
  PROVE  c * a < c * b
OBVIOUS

\* A proper share of a total, rounded down, is less than the total.
LEMMA ShareBelow ==
  ASSUME NEW total \in Nat \ {0}, NEW x \in Nat, NEW d \in Nat \ {0}, x < d
  PROVE  (total * x) \div d \in 0..(total - 1)
<1>1. total * x \in Nat
  OBVIOUS
<1>2. total * x < total * d
  BY MulStrict
<1> DEFINE q == (total * x) \div d
<1>3. q \in Nat /\ q * d <= total * x
  BY <1>1, DivFloor
<1> HIDE DEF q
<1>4. q < total
  <2>1. SUFFICES ASSUME q >= total PROVE FALSE
    BY <1>3
  <2>2. d * total <= d * q
    BY <2>1, <1>3, MulMono
  <2>3. q * d = d * q /\ total * d = d * total
    BY <1>3
  <2> QED
    BY <2>2, <2>3, <1>1, <1>2, <1>3
<1> QED
  BY <1>3, <1>4 DEF q

\* Division is monotone in the dividend ...
LEMMA DivMono ==
  ASSUME NEW m \in Nat, NEW n \in Nat, NEW d \in Nat \ {0}, m <= n
  PROVE  m \div d <= n \div d
<1>1. /\ m \div d \in Nat /\ (m \div d) * d <= m /\ m < (m \div d) * d + d
      /\ n \div d \in Nat /\ (n \div d) * d <= n /\ n < (n \div d) * d + d
  BY DivFloor
<1> DEFINE p == m \div d
           q == n \div d
<1>2. SUFFICES ASSUME p >= q + 1 PROVE FALSE
  BY <1>1
<1> HIDE DEF p, q
<1>3. d * (q + 1) <= d * p
  BY <1>1, <1>2, MulMono DEF p, q
<1>4. d * (q + 1) = q * d + d /\ d * p = p * d
  BY <1>1 DEF p, q
<1> QED
  BY <1>1, <1>3, <1>4 DEF p, q

\* ... and antitone in the divisor.
LEMMA DivAnti ==
  ASSUME NEW n \in Nat, NEW d \in Nat \ {0}, NEW e \in Nat \ {0}, d <= e
  PROVE  n \div e <= n \div d
<1> DEFINE p == n \div e
           q == n \div d
<1>1. p \in Nat /\ p * e <= n /\ q \in Nat /\ n < q * d + d
  BY DivFloor
<1>2. SUFFICES ASSUME p >= q + 1 PROVE FALSE
  BY <1>1
<1> HIDE DEF p, q
<1>3. p * d <= p * e
  BY <1>1, MulMono
<1>4. d * (q + 1) <= d * p
  BY <1>1, <1>2, MulMono
<1>5. d * (q + 1) = q * d + d /\ d * p = p * d
  BY <1>1
<1> QED
  BY <1>1, <1>3, <1>4, <1>5

\* Shares of two totals for the same part of a window, both rounded down,
\* differ by less than one unit when scaled to each other.
LEMMA SharesAgree ==
  ASSUME NEW a \in Nat \ {0}, NEW b \in Nat \ {0}, NEW x \in Nat,
         NEW d \in Nat \ {0}
  PROVE  ((b * x) \div d) * a < ((a * x) \div d + 1) * b
<1> DEFINE q == (a * x) \div d
           r == (b * x) \div d
<1>1. a * x \in Nat /\ b * x \in Nat
  OBVIOUS
<1>2. /\ q \in Nat /\ a * x < q * d + d
      /\ r \in Nat /\ r * d <= b * x
  BY <1>1, DivFloor
<1> HIDE DEF q, r
<1>3. q * d + d \in Nat /\ r * d \in Nat
  BY <1>2
<1>4. a * (r * d) <= a * (b * x)
  BY <1>1, <1>2, <1>3, MulMono
<1>5. b * (a * x) < b * (q * d + d)
  BY <1>1, <1>2, <1>3, MulStrict
<1>6. a * (b * x) = b * (a * x)
  OBVIOUS
<1>7. SUFFICES ASSUME r * a >= (q + 1) * b PROVE FALSE
  BY <1>2 DEF q, r
<1>8. r * a \in Nat /\ (q + 1) * b \in Nat
  BY <1>2
<1>9. d * ((q + 1) * b) <= d * (r * a)
  BY <1>7, <1>8, MulMono
<1>10. d * ((q + 1) * b) = b * (q * d + d) /\ d * (r * a) = a * (r * d)
  BY <1>2
<1>11. /\ a * (r * d) \in Nat /\ a * (b * x) \in Nat
       /\ b * (a * x) \in Nat /\ b * (q * d + d) \in Nat
  BY <1>1, <1>3
<1> QED
  BY <1>4, <1>5, <1>6, <1>9, <1>10, <1>11

-----------------------------------------------------------------------------
(* vested                                                                  *)

\* The facts about a stored stream that its arithmetic relies on.
Window(s) ==
  /\ s.total \in Nat \ {0}
  /\ s.start \in Nat
  /\ s.end \in Nat
  /\ s.start < s.end

\* What has vested is between nothing and the total.
LEMMA VestedBounds ==
  ASSUME NEW s, Window(s), NEW now \in Nat
  PROVE  /\ vested(s, now) \in 0..s.total
         /\ unvested(s, now) \in 0..s.total
         /\ vested(s, now) + unvested(s, now) = s.total
<1>1. vested(s, now) \in 0..s.total
  <2>1. CASE now <= s.start \/ now >= s.end
    BY <2>1 DEF vested, Window
  <2>2. CASE s.start < now /\ now < s.end
    <3>1. /\ now - s.start \in Nat
          /\ s.end - s.start \in Nat \ {0}
          /\ now - s.start < s.end - s.start
      BY <2>2 DEF Window
    <3>2. (s.total * (now - s.start)) \div (s.end - s.start) \in 0..(s.total - 1)
      BY <3>1, ShareBelow DEF Window
    <3> QED
      BY <2>2, <3>2 DEF vested, Window
  <2> QED
    BY <2>1, <2>2 DEF Window
<1> QED
  BY <1>1 DEF unvested, Window

\* Everything has vested only when the window is over.
LEMMA VestedAtEnd ==
  ASSUME NEW s, Window(s), NEW now \in Nat, vested(s, now) >= s.total
  PROVE  s.end <= now
<1> SUFFICES ASSUME now < s.end PROVE FALSE
  BY DEF Window
<1>1. CASE now <= s.start
  BY <1>1 DEF vested, Window
<1>2. CASE s.start < now
  <2>1. /\ now - s.start \in Nat
        /\ s.end - s.start \in Nat \ {0}
        /\ now - s.start < s.end - s.start
    BY <1>2 DEF Window
  <2>2. (s.total * (now - s.start)) \div (s.end - s.start) \in 0..(s.total - 1)
    BY <2>1, ShareBelow DEF Window
  <2> QED
    BY <1>2, <2>2 DEF vested, Window
<1> QED
  BY <1>1, <1>2 DEF Window

\* The clamp of withdrawable, and its bound for a stream in order.
LEMMA WithdrawableBounds ==
  ASSUME NEW s, Window(s), NEW now \in Nat, s.withdrawn \in 0..s.total
  PROVE  /\ withdrawable(s, now) \in 0..(s.total - s.withdrawn)
         /\ withdrawable(s, now) > 0
              => s.withdrawn + withdrawable(s, now) = vested(s, now)
<1>1. vested(s, now) \in 0..s.total /\ s.total \in Nat
  BY VestedBounds DEF Window
<1> QED
  BY <1>1 DEF withdrawable

\* vested is the share total * elapsed / duration, rounded down.
LEMMA VestedFloor ==
  ASSUME NEW s, Window(s), NEW now \in Nat
  PROVE  VestedIsFloor(s, now)
<1> DEFINE d == s.end - s.start
<1>1. d \in Nat \ {0} /\ duration(s) = d
  BY DEF Window, duration
<1>2. CASE now <= s.start
  <2>1. vested(s, now) = 0 /\ elapsed(s, now) = 0
    BY <1>2 DEF vested, elapsed, clamp_to_window, Window
  <2> HIDE DEF d
  <2> QED
    BY <1>1, <2>1 DEF VestedIsFloor, Window
<1>3. CASE s.start < now /\ now >= s.end
  <2>1. vested(s, now) = s.total /\ elapsed(s, now) = d
    BY <1>3 DEF vested, elapsed, clamp_to_window, Window
  <2> HIDE DEF d
  <2>2. (s.total + 1) * d = s.total * d + d /\ s.total * d \in Nat
    BY <1>1 DEF Window
  <2> QED
    BY <1>1, <2>1, <2>2 DEF VestedIsFloor, Window
<1>4. CASE s.start < now /\ now < s.end
  <2> DEFINE x == now - s.start
             q == (s.total * x) \div d
  <2>1. vested(s, now) = q /\ elapsed(s, now) = x /\ x \in Nat
    BY <1>4 DEF vested, elapsed, clamp_to_window, Window
  <2> HIDE DEF d, x
  <2>2. s.total * x \in Nat
    BY <2>1 DEF Window
  <2>3. q \in Nat /\ q * d <= s.total * x /\ s.total * x < q * d + d
    BY <1>1, <2>2, DivFloor
  <2> HIDE DEF q
  <2>4. (q + 1) * d = q * d + d
    BY <1>1, <2>3
  <2> QED
    BY <1>1, <2>1, <2>3, <2>4 DEF VestedIsFloor
<1> QED
  BY <1>2, <1>3, <1>4 DEF Window

\* What has vested never goes back as ledger time passes.
LEMMA VestedGrows ==
  ASSUME NEW s, Window(s), NEW now \in Nat, NEW later \in Nat
  PROVE  VestedMonotone(s, now, later)
<1> SUFFICES ASSUME now <= later
             PROVE  vested(s, now) <= vested(s, later)
  BY DEF VestedMonotone
<1>1. vested(s, now) \in 0..s.total /\ vested(s, later) \in 0..s.total
  BY VestedBounds
<1>2. CASE now <= s.start
  BY <1>1, <1>2 DEF vested, Window
<1>3. CASE later >= s.end /\ s.start < now
  <2>1. vested(s, later) = s.total
    BY <1>3 DEF vested, Window
  <2> QED
    BY <1>1, <2>1 DEF Window
<1>4. CASE s.start < now /\ later < s.end
  <2> DEFINE d == s.end - s.start
             x == now - s.start
             y == later - s.start
  <2>1. d \in Nat \ {0} /\ x \in Nat /\ y \in Nat /\ x <= y /\ s.total \in Nat
    BY <1>4 DEF Window
  <2>2. /\ vested(s, now) = (s.total * x) \div d
        /\ vested(s, later) = (s.total * y) \div d
    BY <1>4 DEF vested, Window
  <2> HIDE DEF d, x, y
  <2>3. s.total * x \in Nat /\ s.total * y \in Nat /\ s.total * x <= s.total * y
    BY <2>1, MulMono
  <2> QED
    BY <2>1, <2>2, <2>3, DivMono
<1> QED
  BY <1>2, <1>3, <1>4 DEF Window

\* A later end vests nothing sooner.
LEMMA LaterEndVestsLess ==
  ASSUME NEW s, Window(s), NEW t, Window(t), NEW now \in Nat,
         t.total = s.total, t.start = s.start, s.end <= t.end
  PROVE  vested(t, now) <= vested(s, now)
<1>1. vested(s, now) \in 0..s.total /\ vested(t, now) \in 0..s.total
  BY VestedBounds
<1>2. CASE now <= s.start \/ now >= s.end
  BY <1>1, <1>2 DEF vested, Window
<1>3. CASE s.start < now /\ now < s.end
  <2> DEFINE d == s.end - s.start
             e == t.end - s.start
             n == s.total * (now - s.start)
  <2>1. now - s.start \in Nat /\ s.total \in Nat
    BY <1>3 DEF Window
  <2>2. d \in Nat \ {0} /\ e \in Nat \ {0} /\ d <= e /\ n \in Nat
    BY <2>1 DEF Window
  <2>3. vested(s, now) = n \div d /\ vested(t, now) = n \div e
    BY <1>3 DEF vested, Window
  <2> HIDE DEF d, e, n
  <2> QED
    BY <2>2, <2>3, DivAnti
<1> QED
  BY <1>2, <1>3 DEF Window

\* A larger total never lowers what has vested, and raises it by no more than
\* the increase.
LEMMA LargerTotalVestsMore ==
  ASSUME NEW s, Window(s), NEW t, Window(t), NEW now \in Nat, NEW amount \in Nat,
         t.total = s.total + amount, t.start = s.start, t.end = s.end
  PROVE  /\ vested(s, now) <= vested(t, now)
         /\ vested(t, now) <= vested(s, now) + amount
<1>1. CASE now <= s.start \/ now >= s.end
  BY <1>1 DEF vested, Window
<1>2. CASE s.start < now /\ now < s.end
  <2> DEFINE d == s.end - s.start
             x == now - s.start
             m == s.total * x
             n == (s.total + amount) * x
  <2>1. x \in Nat /\ d \in Nat \ {0} /\ x < d /\ s.total \in Nat
    BY <1>2 DEF Window
  <2>2. vested(s, now) = m \div d /\ vested(t, now) = n \div d
    BY <1>2 DEF vested, Window
  <2> HIDE DEF d, x
  <2>3. m \in Nat /\ amount * x \in Nat /\ n = m + amount * x
    BY <2>1
  <2>4. amount * x <= amount * d
    BY <2>1, MulMono
  <2> HIDE DEF m, n
  <2>5. n \in Nat /\ m <= n
    BY <2>3
  <2>6. /\ m \div d \in Nat /\ m < (m \div d) * d + d
        /\ n \div d \in Nat /\ (n \div d) * d <= n
    BY <2>1, <2>3, <2>5, DivFloor
  <2> DEFINE p == m \div d
             q == n \div d
  <2>7. p <= q
    BY <2>1, <2>3, <2>5, DivMono
  <2> HIDE DEF p, q
  <2>8. p \in Nat /\ q \in Nat /\ m < p * d + d /\ q * d <= n
    BY <2>6 DEF p, q
  <2>9. q <= p + amount
    <3>1. SUFFICES ASSUME q >= p + amount + 1 PROVE FALSE
      BY <2>8
    <3>2. d * (p + amount + 1) <= d * q
      BY <3>1, <2>1, <2>8, MulMono
    <3>3. d * (p + amount + 1) = p * d + amount * d + d /\ d * q = q * d
      BY <2>1, <2>8
    <3>4. amount * d \in Nat /\ p * d \in Nat /\ q * d \in Nat
      BY <2>1, <2>8
    <3> QED
      BY <2>1, <2>3, <2>4, <2>8, <3>2, <3>3, <3>4
  <2> QED
    BY <2>2, <2>7, <2>9 DEF p, q
<1> QED
  BY <1>1, <1>2 DEF Window

\* What a stream shows in tokens and in time differs by less than one unit.
LEMMA ViewsOfOneShare ==
  ASSUME NEW s, Window(s), NEW now \in Nat
  PROVE  ProgressAgrees(s, now)
<1>1. CASE now <= s.start
  BY <1>1 DEF ProgressAgrees, progress_bps, vested, BPS, Window
<1>2. CASE s.start < now /\ now >= s.end
  <2>1. vested(s, now) = s.total /\ progress_bps(s, now) = BPS
    BY <1>2 DEF vested, progress_bps, Window
  <2>2. s.total \in Nat \ {0} /\ BPS \in Nat \ {0}
    BY DEF Window, BPS
  <2>3. /\ (s.total + 1) * BPS = s.total * BPS + BPS
        /\ (BPS + 1) * s.total = s.total * BPS + s.total
        /\ BPS * s.total = s.total * BPS /\ s.total * BPS \in Nat
    BY <2>2
  <2> QED
    BY <2>1, <2>2, <2>3 DEF ProgressAgrees
<1>3. CASE s.start < now /\ now < s.end
  <2> DEFINE d == s.end - s.start
             x == now - s.start
  <2>1. x \in Nat /\ d \in Nat \ {0} /\ s.total \in Nat \ {0}
        /\ BPS \in Nat \ {0}
    BY <1>3 DEF Window, BPS
  <2>2. vested(s, now) = (s.total * x) \div d /\ progress_bps(s, now) = (x * BPS) \div d
    BY <1>3 DEF vested, progress_bps, Window
  <2> HIDE DEF d, x
  <2>3. x * BPS = BPS * x
    BY <2>1
  <2>4. /\ ((BPS * x) \div d) * s.total < ((s.total * x) \div d + 1) * BPS
        /\ ((s.total * x) \div d) * BPS < ((BPS * x) \div d + 1) * s.total
    BY <2>1, SharesAgree
  <2> QED
    BY <2>2, <2>3, <2>4 DEF ProgressAgrees
<1> QED
  BY <1>1, <1>2, <1>3 DEF Window

\* The figures of a summary are bounded and add up.
LEMMA SummaryOfOneStream ==
  ASSUME NEW s, Window(s), NEW now \in Nat, s.withdrawn \in 0..s.total
  PROVE  SummaryAdds(s, now)
<1>1. /\ vested(s, now) \in 0..s.total /\ s.total \in Nat
      /\ vested(s, now) + unvested(s, now) = s.total
  BY VestedBounds DEF Window
<1>2. withdrawable(s, now) \in 0..(s.total - s.withdrawn)
  BY WithdrawableBounds
<1>3. s.withdrawn <= vested(s, now) => s.withdrawn + withdrawable(s, now) = vested(s, now)
  BY <1>1 DEF withdrawable
<1>4. progress_bps(s, now) \in 0..BPS
  <2>1. CASE now <= s.start \/ now >= s.end
    <3>1. progress_bps(s, now) \in {0, BPS}
      BY <2>1 DEF progress_bps, Window
    <3>2. BPS \in Nat
      BY DEF BPS
    <3> QED
      BY <3>1, <3>2
  <2>2. CASE s.start < now /\ now < s.end
    <3> DEFINE d == s.end - s.start
               x == now - s.start
    <3>1. x \in Nat /\ d \in Nat \ {0} /\ x < d /\ BPS \in Nat \ {0}
      BY <2>2 DEF Window, BPS
    <3>2. progress_bps(s, now) = (x * BPS) \div d
      BY <2>2 DEF progress_bps, Window
    <3> HIDE DEF d, x
    <3>3. x * BPS = BPS * x
      BY <3>1
    <3>4. (BPS * x) \div d \in 0..(BPS - 1)
      BY <3>1, ShareBelow
    <3> QED
      BY <3>1, <3>2, <3>3, <3>4
  <2> QED
    BY <2>1, <2>2 DEF Window
<1> QED
  BY <1>1, <1>2, <1>3, <1>4 DEF SummaryAdds, get_summary

-----------------------------------------------------------------------------
(* The sums of module Sums, for every length.  They rest on the             *)
(* well-foundedness of < on the naturals: an induction principle for sets,  *)
(* the existence and uniqueness of partial sums, and from them the          *)
(* recurrence that defines SumTo.                                           *)

\* A nonempty set of naturals has a least element.
LEMMA NatLeast ==
  ASSUME NEW T, T \subseteq Nat, T # {}
  PROVE  \E x \in T : \A y \in T : ~(y < x)
<1>1. IsWellFoundedOn(OpToRel(<, Nat), Nat)
  BY NatLessThanWellFounded
<1>2. \E x \in T : \A y \in T : ~(<<y, x>> \in OpToRel(<, Nat))
  BY <1>1, WFMin
<1>3. \A x, y \in Nat : y < x => <<y, x>> \in OpToRel(<, Nat)
  BY DEF OpToRel
<1> QED
  BY <1>2, <1>3

\* Induction, for a set that holds 0 and the successor of each of its members.
LEMMA NatInd ==
  ASSUME NEW S, 0 \in S, \A n \in Nat : n \in S => n + 1 \in S
  PROVE  Nat \subseteq S
<1> DEFINE T == Nat \ S
<1>1. SUFFICES ASSUME T # {} PROVE FALSE
  OBVIOUS
<1>2. PICK x \in T : \A y \in T : ~(y < x)
  <2>1. T \subseteq Nat
    OBVIOUS
  <2> HIDE DEF T
  <2> QED
    BY <1>1, <2>1, NatLeast
<1>3. x # 0 /\ x \in Nat /\ x - 1 \in Nat
  OBVIOUS
<1>4. x - 1 \notin T
  BY <1>2, <1>3
<1> QED
  BY <1>3, <1>4, <1>2

-----------------------------------------------------------------------------
(* The recurrence of SumTo                                                 *)

IsSum(f, s) == s = [n \in Nat |-> IF n = 0 THEN 0 ELSE s[n - 1] + f[n - 1]]

\* s is the sequence of sums of f up to m.
IsPart(f, m, s) ==
  /\ s \in [0..m -> Int]
  /\ s[0] = 0
  /\ \A n \in 1..m : s[n] = s[n - 1] + f[n - 1]

\* Sums exist up to every length.
LEMMA PartExists ==
  ASSUME NEW f \in [Nat -> Int]
  PROVE  \A m \in Nat : \E s \in [0..m -> Int] : IsPart(f, m, s)
<1> DEFINE S == {m \in Nat : \E s \in [0..m -> Int] : IsPart(f, m, s)}
<1>1. 0 \in S
  <2> DEFINE s == [n \in 0..0 |-> 0]
  <2>1. s \in [0..0 -> Int] /\ IsPart(f, 0, s)
    BY DEF IsPart
  <2> QED
    BY <2>1
<1>2. ASSUME NEW m \in Nat, m \in S PROVE m + 1 \in S
  <2>1. PICK s \in [0..m -> Int] : IsPart(f, m, s)
    BY <1>2
  <2> DEFINE t == [n \in 0..(m + 1) |-> IF n = m + 1 THEN s[m] + f[m] ELSE s[n]]
  <2>2. t \in [0..(m + 1) -> Int]
    BY <2>1
  <2>3. t[0] = 0
    BY <2>1 DEF IsPart
  <2>4. ASSUME NEW n \in 1..(m + 1) PROVE t[n] = t[n - 1] + f[n - 1]
    BY <2>1 DEF IsPart
  <2>5. IsPart(f, m + 1, t)
    BY <2>2, <2>3, <2>4 DEF IsPart
  <2> QED
    BY <2>2, <2>5
<1>3. Nat \subseteq S
  <2> HIDE DEF S
  <2> QED
    BY <1>1, <1>2, NatInd
<1> QED
  BY <1>3

\* Sums up to two lengths agree where both are defined.
LEMMA PartUnique ==
  ASSUME NEW f \in [Nat -> Int], NEW m \in Nat, NEW k \in Nat,
         NEW s, NEW t, IsPart(f, m, s), IsPart(f, k, t)
  PROVE  \A n \in Nat : n <= m /\ n <= k => s[n] = t[n]
<1> DEFINE S == {n \in Nat : n <= m /\ n <= k => s[n] = t[n]}
<1>1. 0 \in S
  BY DEF IsPart
<1>2. ASSUME NEW n \in Nat, n \in S PROVE n + 1 \in S
  BY <1>2 DEF IsPart
<1>3. Nat \subseteq S
  <2> HIDE DEF S
  <2> QED
    BY <1>1, <1>2, NatInd
<1> QED
  BY <1>3

\* The definition of SumTo has a solution.
LEMMA SumExists ==
  ASSUME NEW f \in [Nat -> Int]
  PROVE  \E s : IsSum(f, s)
<1> DEFINE p(m) == CHOOSE s \in [0..m -> Int] : IsPart(f, m, s)
           s == [n \in Nat |-> p(n)[n]]
<1>1. \A m \in Nat : p(m) \in [0..m -> Int] /\ IsPart(f, m, p(m))
  BY PartExists
<1> HIDE DEF p
<1>2. s[0] = 0
  BY <1>1 DEF IsPart
<1>3. ASSUME NEW n \in Nat, n # 0 PROVE s[n] = s[n - 1] + f[n - 1]
  <2>1. IsPart(f, n, p(n)) /\ IsPart(f, n - 1, p(n - 1)) /\ n - 1 \in Nat
    BY <1>1, <1>3
  <2>2. p(n)[n] = p(n)[n - 1] + f[n - 1]
    <3>1. n \in 1..n
      BY <1>3
    <3> QED
      BY <2>1, <3>1 DEF IsPart
  <2>3. p(n)[n - 1] = p(n - 1)[n - 1]
    BY <2>1, PartUnique
  <2> QED
    BY <2>1, <2>2, <2>3
<1>4. s = [n \in Nat |-> IF n = 0 THEN 0 ELSE s[n - 1] + f[n - 1]]
  <2>1. \A n \in Nat : s[n] = IF n = 0 THEN 0 ELSE s[n - 1] + f[n - 1]
    BY <1>2, <1>3
  <2>2. s = [n \in Nat |-> s[n]]
    OBVIOUS
  <2> HIDE DEF s
  <2> QED
    BY <2>1, <2>2
<1> HIDE DEF s
<1> QED
  BY <1>4 DEF IsSum

\* SumTo is determined by its recurrence.
LEMMA SumStep ==
  ASSUME NEW f \in [Nat -> Int]
  PROVE  /\ SumTo(f)[0] = 0
         /\ \A n \in Nat : SumTo(f)[n + 1] = SumTo(f)[n] + f[n]
<1>1. IsSum(f, SumTo(f))
  <2>1. SumTo(f) = CHOOSE s : IsSum(f, s)
    BY DEF SumTo, IsSum
  <2> QED
    BY <2>1, SumExists
<1>2. ASSUME NEW s, IsSum(f, s), NEW n \in Nat
      PROVE  s[0] = 0 /\ s[n + 1] = s[n] + f[n]
  <2>1. n + 1 # 0 /\ n + 1 \in Nat /\ (n + 1) - 1 = n
    OBVIOUS
  <2> QED
    BY <1>2, <2>1 DEF IsSum
<1> QED
  BY <1>1, <1>2

\* Sums of integers are integers.
LEMMA SumType ==
  ASSUME NEW f \in [Nat -> Int]
  PROVE  \A n \in Nat : SumTo(f)[n] \in Int
<1> DEFINE S == {n \in Nat : SumTo(f)[n] \in Int}
<1>1. 0 \in S
  BY SumStep
<1>2. ASSUME NEW n \in Nat, n \in S PROVE n + 1 \in S
  BY <1>2, SumStep
<1>3. Nat \subseteq S
  <2> HIDE DEF S
  <2> QED
    BY <1>1, <1>2, NatInd
<1> QED
  BY <1>3

\* Sums of naturals are naturals, and no value exceeds a sum it is part of.
LEMMA SumNat ==
  ASSUME NEW f \in [Nat -> Int], NEW m \in Nat, \A i \in 0..(m - 1) : f[i] >= 0
  PROVE  /\ SumTo(f)[m] \in Nat
         /\ \A i \in 0..(m - 1) : f[i] <= SumTo(f)[m]
<1> DEFINE S == {n \in Nat : n <= m => /\ SumTo(f)[n] >= 0
                                       /\ \A i \in 0..(n - 1) : f[i] <= SumTo(f)[n]}
<1>1. 0 \in S
  BY SumStep
<1>2. ASSUME NEW n \in Nat, n \in S PROVE n + 1 \in S
  <2>1. SUFFICES ASSUME n + 1 <= m
                 PROVE  /\ SumTo(f)[n + 1] >= 0
                        /\ \A i \in 0..n : f[i] <= SumTo(f)[n + 1]
    OBVIOUS
  <2>2. /\ SumTo(f)[n] >= 0
        /\ \A i \in 0..(n - 1) : f[i] <= SumTo(f)[n]
    BY <1>2, <2>1
  <2>3. f[n] >= 0 /\ f[n] \in Int /\ SumTo(f)[n] \in Int
    BY <2>1, SumType
  <2>4. SumTo(f)[n + 1] = SumTo(f)[n] + f[n]
    BY SumStep
  <2> HIDE DEF S
  <2>5. ASSUME NEW i \in 0..n PROVE f[i] <= SumTo(f)[n + 1]
    <3>1. CASE i = n
      BY <3>1, <2>2, <2>3, <2>4
    <3>2. CASE i # n
      <4>1. i \in 0..(n - 1) /\ f[i] \in Int
        BY <3>2
      <4> QED
        BY <4>1, <2>2, <2>3, <2>4
    <3> QED
      BY <3>1, <3>2
  <2> QED
    BY <2>2, <2>3, <2>4, <2>5
<1>3. Nat \subseteq S
  <2> HIDE DEF S
  <2> QED
    BY <1>1, <1>2, NatInd
<1> QED
  BY <1>3, SumType

\* Larger values have the larger sum.
LEMMA SumMono ==
  ASSUME NEW f \in [Nat -> Int], NEW g \in [Nat -> Int], NEW m \in Nat,
         \A i \in 0..(m - 1) : f[i] <= g[i]
  PROVE  SumTo(f)[m] <= SumTo(g)[m]
<1> DEFINE S == {n \in Nat : n <= m => SumTo(f)[n] <= SumTo(g)[n]}
<1>1. 0 \in S
  BY SumStep
<1>2. ASSUME NEW n \in Nat, n \in S PROVE n + 1 \in S
  <2>1. /\ SumTo(f)[n + 1] = SumTo(f)[n] + f[n]
        /\ SumTo(g)[n + 1] = SumTo(g)[n] + g[n]
        /\ SumTo(f)[n] \in Int /\ SumTo(g)[n] \in Int /\ f[n] \in Int /\ g[n] \in Int
    BY SumStep, SumType
  <2>2. n + 1 <= m => n <= m /\ f[n] <= g[n]
    OBVIOUS
  <2> QED
    BY <1>2, <2>1, <2>2
<1>3. Nat \subseteq S
  <2> HIDE DEF S
  <2> QED
    BY <1>1, <1>2, NatInd
<1> QED
  BY <1>3

-----------------------------------------------------------------------------
(* How sums change                                                         *)

\* A sum depends on the values below its length only.
LEMMA SumSame ==
  ASSUME NEW f \in [Nat -> Int], NEW g \in [Nat -> Int], NEW m \in Nat,
         \A i \in 0..(m - 1) : f[i] = g[i]
  PROVE  SumTo(f)[m] = SumTo(g)[m]
<1> DEFINE S == {n \in Nat : n <= m => SumTo(f)[n] = SumTo(g)[n]}
<1>1. 0 \in S
  BY SumStep
<1>2. ASSUME NEW n \in Nat, n \in S PROVE n + 1 \in S
  <2>1. SumTo(f)[n + 1] = SumTo(f)[n] + f[n] /\ SumTo(g)[n + 1] = SumTo(g)[n] + g[n]
    BY SumStep
  <2>2. n + 1 <= m => n \in 0..(m - 1) /\ n <= m
    OBVIOUS
  <2> QED
    BY <1>2, <2>1, <2>2
<1>3. Nat \subseteq S
  <2> HIDE DEF S
  <2> QED
    BY <1>1, <1>2, NatInd
<1> QED
  BY <1>3

\* Changing one value changes the sum by the difference.
LEMMA SumUpdate ==
  ASSUME NEW f \in [Nat -> Int], NEW g \in [Nat -> Int], NEW m \in Nat,
         NEW k \in 0..(m - 1), \A i \in 0..(m - 1) : i # k => f[i] = g[i]
  PROVE  SumTo(g)[m] = SumTo(f)[m] + g[k] - f[k]
<1> DEFINE S == {n \in Nat : n <= m =>
                   SumTo(g)[n] = SumTo(f)[n] + IF k < n THEN g[k] - f[k] ELSE 0}
<1>0. k \in Nat /\ f[k] \in Int /\ g[k] \in Int
  OBVIOUS
<1>1. 0 \in S
  BY SumStep
<1>2. ASSUME NEW n \in Nat, n \in S PROVE n + 1 \in S
  <2>1. /\ SumTo(f)[n + 1] = SumTo(f)[n] + f[n]
        /\ SumTo(g)[n + 1] = SumTo(g)[n] + g[n]
        /\ SumTo(f)[n] \in Int /\ SumTo(g)[n] \in Int /\ f[n] \in Int /\ g[n] \in Int
    BY SumStep, SumType
  <2>2. n + 1 <= m => n \in 0..(m - 1) /\ n <= m
    OBVIOUS
  <2>3. n + 1 <= m /\ n # k => f[n] = g[n]
    BY <2>2
  <2>4. CASE n < k
    BY <1>0, <1>2, <2>1, <2>2, <2>3, <2>4
  <2>5. CASE n = k
    BY <1>0, <1>2, <2>1, <2>2, <2>5
  <2>6. CASE n > k
    BY <1>0, <1>2, <2>1, <2>2, <2>3, <2>6
  <2> QED
    BY <2>4, <2>5, <2>6, <1>0
<1>3. Nat \subseteq S
  <2> HIDE DEF S
  <2> QED
    BY <1>1, <1>2, NatInd
<1>4. m \in S /\ k < m
  BY <1>3
<1> QED
  BY <1>4, <1>0, SumType

\* g has the first m values of f, then the first n of h.
Appended(g, f, h, m, n) ==
  /\ \A i \in 0..(m - 1) : g[i] = f[i]
  /\ \A i \in m..(m + n - 1) : g[i] = h[i - m]

\* A sum splits into the sum of its first m values and of the n after them.
LEMMA SumAppend ==
  ASSUME NEW f \in [Nat -> Int], NEW g \in [Nat -> Int], NEW h \in [Nat -> Int],
         NEW m \in Nat, NEW n \in Nat, Appended(g, f, h, m, n)
  PROVE  SumTo(g)[m + n] = SumTo(f)[m] + SumTo(h)[n]
<1>0. /\ \A i \in 0..(m - 1) : g[i] = f[i]
      /\ \A i \in m..(m + n - 1) : g[i] = h[i - m]
  BY DEF Appended
<1> DEFINE S == {k \in Nat : k <= n => SumTo(g)[m + k] = SumTo(f)[m] + SumTo(h)[k]}
<1>1. 0 \in S
  <2>1. SumTo(g)[m] = SumTo(f)[m] /\ SumTo(h)[0] = 0 /\ SumTo(f)[m] \in Int
    BY <1>0, SumSame, SumStep, SumType
  <2> QED
    BY <2>1
<1>2. ASSUME NEW k \in Nat, k \in S PROVE k + 1 \in S
  <2>1. SUFFICES ASSUME k + 1 <= n
                 PROVE  SumTo(g)[m + (k + 1)] = SumTo(f)[m] + SumTo(h)[k + 1]
    OBVIOUS
  <2>2. SumTo(g)[m + k] = SumTo(f)[m] + SumTo(h)[k]
    BY <1>2, <2>1
  <2>3. SumTo(g)[(m + k) + 1] = SumTo(g)[m + k] + g[m + k]
    <3>1. m + k \in Nat
      OBVIOUS
    <3> QED
      BY <3>1, SumStep
  <2>4. SumTo(h)[k + 1] = SumTo(h)[k] + h[k] /\ g[m + k] = h[k]
    <3> DEFINE j == m + k
    <3>1. j \in m..(m + n - 1) /\ j - m = k
      BY <2>1
    <3> HIDE DEF j
    <3>2. g[j] = h[k]
      BY <1>0, <3>1
    <3> QED
      BY <3>2, SumStep DEF j
  <2>5. SumTo(f)[m] \in Int /\ SumTo(h)[k] \in Int /\ h[k] \in Int
    BY SumType
  <2>6. (m + k) + 1 = m + (k + 1)
    OBVIOUS
  <2> QED
    BY <2>2, <2>3, <2>4, <2>5, <2>6
<1>3. Nat \subseteq S
  <2> HIDE DEF S
  <2> QED
    BY <1>1, <1>2, NatInd
<1> QED
  BY <1>3
=============================================================================
