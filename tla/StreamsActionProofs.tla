------------------------- MODULE StreamsActionProofs -------------------------
(***************************************************************************)
(* What no step of module Streams may do: the action properties, from the  *)
(* invariants of StreamsProofs and AccountingProofs.                       *)
(***************************************************************************)
EXTENDS AccountingProofs

-----------------------------------------------------------------------------
(* Settled streams move nothing                                            *)

\* Cancelling a Completed stream releases nothing: its window has closed.
LEMMA CompletedReleasesNothing ==
  ASSUME Inv, NEW id \in DOMAIN streams, streams[id].status = "Completed"
  PROVE  /\ vested(streams[id], timestamp) = streams[id].withdrawn
         /\ unvested(streams[id], timestamp) = 0
<1> DEFINE s == streams[id]
<1>1. s.withdrawn = s.total /\ s.end <= timestamp
  BY DEF Inv, StreamsWellFormed
<1>2. Window(s) /\ timestamp \in Nat
  BY StoredStream
<1>3. vested(s, timestamp) = s.total
  BY <1>1, <1>2 DEF vested, Window
<1>4. s.total \in Nat
  BY <1>2 DEF Window
<1> QED
  BY <1>1, <1>3, <1>4 DEF unvested

SettledKept(id) ==
  streams[id].status # "Active" => paid'[id] = paid[id] /\ refunded'[id] = refunded[id]

LEMMA CancelSettledKept ==
  ASSUME Inv, NEW id \in DOMAIN streams, NEW caller \in Accounts, cancel(id, caller),
         NEW other \in DOMAIN streams
  PROVE  SettledKept(other)
<1> DEFINE s == streams[id]
           recipient_paid == vested(s, timestamp) - s.withdrawn
           payment == IF recipient_paid > 0 THEN recipient_paid ELSE 0
           refund == unvested(s, timestamp)
<1>1. /\ s.status # "Cancelled"
      /\ paid' = Plus(paid, id, payment) /\ refunded' = Plus(refunded, id, refund)
  BY DEF cancel
<1>2. /\ paid \in [0..(counter - 1) -> Nat] /\ refunded \in [0..(counter - 1) -> Nat]
      /\ id \in 0..(counter - 1) /\ other \in 0..(counter - 1)
  BY StateTypes
<1>3. CASE other # id
  <2> HIDE DEF payment, refund
  <2>1. other \in DOMAIN paid /\ other \in DOMAIN refunded
    BY <1>2
  <2>2. Plus(paid, id, payment)[other] = paid[other]
    BY <1>3, <2>1, PlusOthers
  <2>3. Plus(refunded, id, refund)[other] = refunded[other]
    BY <1>3, <2>1, PlusOthers
  <2> QED
    BY <1>1, <2>2, <2>3 DEF SettledKept
<1>4. CASE other = id /\ s.status = "Completed"
  <2>1. vested(s, timestamp) = s.withdrawn /\ refund = 0 /\ s.withdrawn \in Int
    BY <1>4, CompletedReleasesNothing, StoredStream
  <2>2. payment = 0
    BY <2>1
  <2>3. /\ paid'[id] = paid[id] + payment /\ refunded'[id] = refunded[id] + refund
        /\ paid[id] \in Nat /\ refunded[id] \in Nat
    <3> HIDE DEF payment, refund
    <3> QED
      BY <1>1, <1>2 DEF Plus
  <2> HIDE DEF payment, refund
  <2> QED
    BY <1>4, <2>1, <2>2, <2>3 DEF SettledKept
<1>5. CASE other = id /\ s.status = "Active"
  BY <1>5 DEF SettledKept
<1>6. s.status \in Status
  BY StoredStream DEF Stream
<1> QED
  BY <1>1, <1>3, <1>4, <1>5, <1>6 DEF Status

LEMMA SettledStep ==
  ASSUME Inv, [Next]_vars, NEW id \in DOMAIN streams
  PROVE  SettledKept(id)
<1>1. /\ paid \in [0..(counter - 1) -> Nat] /\ counter \in Nat
      /\ id \in 0..(counter - 1) /\ id \in DOMAIN paid
  BY StateTypes
<1>2. ASSUME NEW sender \in Accounts, NEW request \in Requests,
             create_stream(sender, request)
      PROVE  SettledKept(id)
  <2>1. /\ paid' = Opened(paid, counter + 1) /\ refunded' = Opened(refunded, counter + 1)
        /\ counter + 1 \in Nat /\ counter <= counter + 1
    BY <1>1, <1>2 DEF create_stream
  <2> QED
    BY <1>1, <2>1, OpenedHistory DEF SettledKept
<1>3. ASSUME NEW sender \in Accounts, NEW requests \in Batches,
             create_stream_batch(sender, requests)
      PROVE  SettledKept(id)
  <2> DEFINE n == counter + Len(requests)
  <2>1. paid' = Opened(paid, n) /\ refunded' = Opened(refunded, n)
    BY <1>3 DEF create_stream_batch
  <2>2. n \in Nat /\ counter <= n
    BY <1>1, StreamsAssumption
  <2> HIDE DEF n
  <2> QED
    BY <1>1, <2>1, <2>2, OpenedHistory DEF SettledKept
<1>4. ASSUME NEW j \in DOMAIN streams, NEW recipient \in Accounts, withdraw(j, recipient)
      PROVE  SettledKept(id)
  <2> DEFINE available == withdrawable(streams[j], timestamp)
  <2>1. /\ streams[j].status = "Active"
        /\ paid' = Plus(paid, j, available) /\ refunded' = refunded
    BY <1>4 DEF withdraw
  <2> HIDE DEF available
  <2> QED
    BY <1>1, <2>1, PlusOthers DEF SettledKept
<1>5. ASSUME NEW j \in DOMAIN streams, NEW caller \in Accounts, cancel(j, caller)
      PROVE  SettledKept(id)
  BY <1>5, CancelSettledKept
<1>6. CASE UNCHANGED <<paid, refunded>>
  BY <1>6 DEF SettledKept
<1>7. ASSUME NEW j \in DOMAIN streams, NEW sender \in Accounts, NEW amount \in Amounts,
             top_up(j, sender, amount)
      PROVE  UNCHANGED <<paid, refunded>>
  BY <1>7 DEF top_up
<1>8. ASSUME NEW j \in DOMAIN streams, NEW sender \in Accounts, NEW new_end \in 0..U64MAX,
             extend_stream(j, sender, new_end)
      PROVE  UNCHANGED <<paid, refunded>>
  BY <1>8 DEF extend_stream
<1>9. ASSUME \/ initialize
             \/ \E new_cap \in Caps : set_supply_cap(new_cap)
             \/ close_ledger
             \/ UNCHANGED vars
      PROVE  UNCHANGED <<paid, refunded>>
  BY <1>9 DEF initialize, set_supply_cap, close_ledger, vars
<1> QED
  BY <1>2, <1>3, <1>4, <1>5, <1>6, <1>7, <1>8, <1>9 DEF Next

\* Once a stream is Cancelled or Completed none of its tokens move again, not
\* even when a Completed stream is cancelled.
THEOREM SettledMoveNothing == Spec => SettledStreamsMoveNothing
<1>1. Inv /\ [Next]_vars => [\A id \in DOMAIN streams : SettledKept(id)]_vars
  BY SettledStep
<1>2. Spec => [][\A id \in DOMAIN streams : SettledKept(id)]_vars
  BY <1>1, Invariance, PTL DEF Spec
<1> QED
  BY <1>2 DEF SettledStreamsMoveNothing, SettledKept

-----------------------------------------------------------------------------
(* New streams are not vested                                              *)

NewNotVested ==
  \A id \in DOMAIN streams' \ DOMAIN streams :
    vested(streams'[id], timestamp') < streams'[id].total

\* A request that passes the checks ends after the ledger's time.
LEMMA NewStreamNotVested ==
  ASSUME Inv, NEW sender \in Accounts, NEW request \in StreamRequest,
         NEW start \in 0..U64MAX, valid_request(request, start),
         request.total_amount <= I128MAX
  PROVE  LET t == NewStream(sender, request, start)
         IN  vested(t, timestamp) < t.total
<1> DEFINE t == NewStream(sender, request, start)
<1>1. timestamp \in 0..U64MAX /\ timestamp \in Nat /\ U64MAX \in Nat
  BY StreamsAssumption DEF Inv, TypeOK
<1>2. t \in Stream /\ t.start < t.end /\ t.total \in Nat \ {0}
  BY <1>1, NewStreamType
<1>3. t.end = request.end_time /\ timestamp < t.end
  BY <1>1 DEF NewStream, valid_request, StreamRequest
<1> HIDE DEF t
<1>4. Window(t)
  BY <1>1, <1>2 DEF Window, Stream
<1>5. vested(t, timestamp) \in 0..t.total
  BY <1>1, <1>4, VestedBounds
<1>6. ~(t.end <= timestamp)
  BY <1>1, <1>3, <1>4 DEF Window
<1>7. ~(vested(t, timestamp) >= t.total)
  BY <1>1, <1>4, <1>6, VestedAtEnd
<1>8. vested(t, timestamp) < t.total
  BY <1>2, <1>5, <1>7
<1> QED
  BY <1>8 DEF t

LEMMA CreateStreamNotVested ==
  ASSUME Inv, NEW sender \in Accounts, NEW request \in Requests,
         create_stream(sender, request)
  PROVE  NewNotVested
<1> DEFINE start == normalize_start_time(timestamp, request.start_time)
           t == NewStream(sender, request, start)
<1>1. /\ valid_request(request, start)
      /\ streams' = write_stream(counter, t)
      /\ timestamp' = timestamp
  BY DEF create_stream
<1>2. request \in StreamRequest /\ start \in 0..U64MAX
  BY StreamsAssumption DEF Inv, TypeOK, normalize_start_time, StreamRequest
<1>3. request.total_amount <= I128MAX
  BY <1>2, VestingAssumption DEF StreamRequest, I128MIN
<1>4. vested(t, timestamp) < t.total
  BY <1>1, <1>2, <1>3, NewStreamNotVested
<1> HIDE DEF t
<1>5. ASSUME NEW id \in DOMAIN streams' \ DOMAIN streams
      PROVE  streams'[id] = t
  BY <1>1, <1>5 DEF write_stream
<1> QED
  BY <1>1, <1>4, <1>5 DEF NewNotVested

LEMMA CreateStreamBatchNotVested ==
  ASSUME Inv, NEW sender \in Accounts, NEW requests \in Batches,
         create_stream_batch(sender, requests)
  PROVE  NewNotVested
<1> DEFINE count == Len(requests)
<1>1. /\ \A i \in 1..count : valid_request(requests[i], requests[i].start_time)
      /\ streams' = [i \in 0..(counter + count - 1) |->
           IF i < counter THEN streams[i]
           ELSE NewStream(sender, requests[i - counter + 1],
                          requests[i - counter + 1].start_time)]
      /\ timestamp' = timestamp
  BY DEF create_stream_batch
<1>2. requests \in Seq(StreamRequest) /\ count \in Nat
  BY StreamsAssumption
<1>3. counter \in Nat /\ DOMAIN streams = 0..(counter - 1)
  BY StateTypes
<1>4. ASSUME NEW id \in DOMAIN streams' \ DOMAIN streams
      PROVE  vested(streams'[id], timestamp) < streams'[id].total
  <2> DEFINE k == id - counter + 1
             request == requests[k]
  <2>1. id \in 0..(counter + count - 1) /\ ~(id < counter) /\ k \in 1..count
    BY <1>1, <1>2, <1>3, <1>4
  <2>2. streams'[id] = NewStream(sender, request, request.start_time)
    BY <1>1, <2>1
  <2> HIDE DEF k
  <2>3. request \in StreamRequest /\ valid_request(request, request.start_time)
    BY <1>1, <1>2, <2>1
  <2> HIDE DEF request
  <2>4. request.start_time \in 0..U64MAX /\ request.total_amount <= I128MAX
    BY <2>3, VestingAssumption DEF StreamRequest, I128MIN
  <2> QED
    BY <2>2, <2>3, <2>4, NewStreamNotVested
<1> QED
  BY <1>1, <1>4 DEF NewNotVested

LEMMA NotVestedStep == Inv /\ [Next]_vars => [NewNotVested]_vars
<1> SUFFICES ASSUME Inv, [Next]_vars PROVE [NewNotVested]_vars
  OBVIOUS
<1>1. ASSUME NEW sender \in Accounts, NEW request \in Requests,
             create_stream(sender, request)
      PROVE  NewNotVested
  BY <1>1, CreateStreamNotVested
<1>2. ASSUME NEW sender \in Accounts, NEW requests \in Batches,
             create_stream_batch(sender, requests)
      PROVE  NewNotVested
  BY <1>2, CreateStreamBatchNotVested
<1>3. ASSUME DOMAIN streams' = DOMAIN streams PROVE NewNotVested
  BY <1>3 DEF NewNotVested
<1>4. ASSUME NEW id \in DOMAIN streams, NEW t, streams' = write_stream(id, t)
      PROVE  DOMAIN streams' = DOMAIN streams
  BY <1>4 DEF write_stream
<1>5. ASSUME NEW id \in DOMAIN streams, NEW sender \in Accounts, NEW amount \in Amounts,
             top_up(id, sender, amount)
      PROVE  NewNotVested
  BY <1>3, <1>4, <1>5 DEF top_up
<1>6. ASSUME NEW id \in DOMAIN streams, NEW sender \in Accounts,
             NEW new_end \in 0..U64MAX, extend_stream(id, sender, new_end)
      PROVE  NewNotVested
  BY <1>3, <1>4, <1>6 DEF extend_stream
<1>7. ASSUME NEW id \in DOMAIN streams, NEW recipient \in Accounts,
             withdraw(id, recipient)
      PROVE  NewNotVested
  BY <1>3, <1>4, <1>7 DEF withdraw
<1>8. ASSUME NEW id \in DOMAIN streams, NEW caller \in Accounts, cancel(id, caller)
      PROVE  NewNotVested
  BY <1>3, <1>4, <1>8 DEF cancel
<1>9. ASSUME \/ initialize
             \/ \E new_cap \in Caps : set_supply_cap(new_cap)
             \/ close_ledger
      PROVE  NewNotVested
  BY <1>3, <1>9 DEF initialize, set_supply_cap, close_ledger
<1> QED
  BY <1>1, <1>2, <1>5, <1>6, <1>7, <1>8, <1>9 DEF Next

\* Neither entrypoint opens a stream that has already vested in full.
THEOREM NothingOpensVested == Spec => NewStreamsNotVested
<1>1. Spec => [][NewNotVested]_vars
  BY Invariance, NotVestedStep, PTL DEF Spec
<1> QED
  BY <1>1 DEF NewStreamsNotVested, NewNotVested

-----------------------------------------------------------------------------
(* The cap bounds the tracked escrow                                       *)

CapKept ==
  Escrow' > Escrow /\ untracked' = untracked => Escrow' - untracked <= supply_cap

EscrowType == Escrow \in Int

LEMMA EscrowTyped == Inv => EscrowType
  BY SumsType DEF EscrowType

\* What is tracked of the escrow stays within a supply that passed the check.
LEMMA CheckedSupplyBounds ==
  ASSUME Inv', Accounted', within_cap(total_supply'), supply_cap \in Int
  PROVE  CapKept
<1>1. Escrow' \in Int
  <2>1. EscrowType'
    BY EscrowTyped, PTL
  <2> QED
    BY <2>1 DEF EscrowType
<1>2. Escrow' <= total_supply' + untracked'
  BY DEF Accounted, SupplyCovers
<1>3. total_supply' \in Int /\ untracked' \in Int
  BY VestingAssumption DEF Inv, TypeOK, I128MIN
<1>4. total_supply' <= supply_cap
  BY DEF within_cap
<1> DEFINE e == Escrow'
           t == total_supply'
           u == untracked'
<1>5. e \in Int /\ t \in Int /\ u \in Int /\ e <= t + u /\ t <= supply_cap
  BY <1>1, <1>2, <1>3, <1>4
<1> HIDE DEF e, t, u
<1>6. e - u <= supply_cap
  BY <1>5
<1> QED
  BY <1>6 DEF CapKept, e, u

LEMMA EscrowSame ==
  ASSUME UNCHANGED <<streams, counter>>
  PROVE  Escrow' = Escrow
<1>1. HeldAt' = HeldAt
  BY DEF HeldAt
<1>2. (Escrow = SumTo(HeldAt)[counter])'
  BY SumsOf, PTL
<1> QED
  BY <1>1, <1>2, SumsOf

\* Storing a stream that holds no more than before does not raise the escrow.
LEMMA EscrowNotRaised ==
  ASSUME Inv, Inv', NEW id \in DOMAIN streams, NEW t, streams' = write_stream(id, t),
         counter' = counter, \A i \in DOMAIN streams : i # id => paid'[i] = paid[i],
         Held(t) <= Held(streams[id])
  PROVE  CapKept
<1>1. streams'[id] = t
  BY DEF write_stream
<1>2. id \in DOMAIN streams'
  BY DEF write_stream
<1>3. t \in Stream
  <2>1. streams' \in [0..(counter' - 1) -> Stream]
    BY DEF Inv, TypeOK
  <2> QED
    BY <1>1, <1>2, <2>1
<1>4. Escrow' = Escrow + Held(t) - Held(streams[id])
  BY <1>3, SumsStored
<1>5. Held(t) \in Int /\ Held(streams[id]) \in Int
  <2>1. streams[id] \in Stream
    BY StoredStream
  <2> QED
    BY <1>3, <2>1 DEF Held, Stream
<1>6. Escrow \in Int
  BY SumsType
<1> QED
  BY <1>4, <1>5, <1>6 DEF CapKept

LEMMA WithdrawCapKept ==
  ASSUME Inv, Inv', NEW id \in DOMAIN streams, NEW recipient \in Accounts,
         withdraw(id, recipient)
  PROVE  CapKept
<1> DEFINE s == streams[id]
           available == withdrawable(s, timestamp)
           status == IF completes(s, s.withdrawn + available) THEN "Completed" ELSE s.status
           t == [s EXCEPT !.withdrawn = s.withdrawn + available, !.status = status]
<1>1. /\ s.status = "Active" /\ streams' = write_stream(id, t) /\ counter' = counter
      /\ paid' = Plus(paid, id, available)
  BY DEF withdraw
<1>2. /\ s \in Stream /\ Window(s) /\ s.withdrawn \in 0..s.total /\ timestamp \in Nat
      /\ DOMAIN streams = 0..(counter - 1)
  BY StoredStream
<1>3. available \in 0..(s.total - s.withdrawn) /\ s.total \in Nat
  BY <1>2, WithdrawableBounds DEF Window
<1> HIDE DEF available, status
<1>4. t.total = s.total /\ t.withdrawn = s.withdrawn + available
  BY <1>2 DEF Stream
<1>5. Held(t) <= Held(s)
  <2> HIDE DEF t
  <2> QED
    BY <1>1, <1>2, <1>3, <1>4 DEF Held
<1>6. \A i \in DOMAIN streams : i # id => paid'[i] = paid[i]
  <2>1. DOMAIN paid = DOMAIN streams
    BY StateTypes
  <2> QED
    BY <1>1, <2>1, PlusOthers
<1> QED
  BY <1>1, <1>5, <1>6, EscrowNotRaised

LEMMA CancelCapKept ==
  ASSUME Inv, Inv', NEW id \in DOMAIN streams, NEW caller \in Accounts,
         cancel(id, caller)
  PROVE  CapKept
<1> DEFINE s == streams[id]
           recipient_paid == vested(s, timestamp) - s.withdrawn
           payment == IF recipient_paid > 0 THEN recipient_paid ELSE 0
           t == [s EXCEPT !.withdrawn = vested(s, timestamp), !.status = "Cancelled"]
<1>1. /\ streams' = write_stream(id, t) /\ counter' = counter
      /\ paid' = Plus(paid, id, payment)
  BY DEF cancel
<1>2. s \in Stream /\ s.withdrawn \in 0..s.total /\ s.total \in 1..I128MAX /\ I128MAX \in Nat
  BY StoredStream
<1>3. t.status = "Cancelled"
  BY <1>2 DEF Stream
<1> HIDE DEF payment, t
<1>4. Held(t) <= Held(s)
  BY <1>2, <1>3 DEF Held
<1>5. \A i \in DOMAIN streams : i # id => paid'[i] = paid[i]
  <2>1. DOMAIN paid = DOMAIN streams
    BY StateTypes
  <2> QED
    BY <1>1, <2>1, PlusOthers
<1> QED
  BY <1>1, <1>4, <1>5, EscrowNotRaised

LEMMA BatchCapKept ==
  ASSUME Inv, NEW sender \in Accounts, NEW requests \in Batches,
         create_stream_batch(sender, requests)
  PROVE  CapKept
<1> DEFINE count == Len(requests)
           total == aggregate_amount(requests)
<1>1. /\ count > 0 /\ untracked' = untracked + total
      /\ \A i \in 1..count : valid_request(requests[i], requests[i].start_time)
  BY DEF create_stream_batch
<1>2. requests \in Seq(StreamRequest) /\ count \in Nat
  BY StreamsAssumption
<1>3. total \in Nat /\ requests[1].total_amount \in 1..total
  BY <1>1, <1>2, Aggregate
<1>4. untracked \in Nat
  BY DEF Inv, TypeOK
<1> HIDE DEF total
<1>5. untracked' # untracked
  BY <1>1, <1>3, <1>4
<1> QED
  BY <1>5 DEF CapKept

LEMMA ExtendCapKept ==
  ASSUME Inv, Inv', NEW id \in DOMAIN streams, NEW sender \in Accounts,
         NEW new_end \in 0..U64MAX, extend_stream(id, sender, new_end)
  PROVE  CapKept
<1> DEFINE s == streams[id]
           t == [s EXCEPT !.end = new_end]
<1>1. streams' = write_stream(id, t) /\ counter' = counter /\ paid' = paid
  BY DEF extend_stream
<1>2. s \in Stream
  BY StoredStream
<1>3. Held(t) = Held(s)
  BY <1>2 DEF Held, Stream
<1>4. Held(s) \in Int
  BY <1>2 DEF Held, Stream
<1> HIDE DEF t
<1>5. Held(t) <= Held(s)
  BY <1>3, <1>4
<1> QED
  BY <1>1, <1>5, EscrowNotRaised

LEMMA EscrowUntouchedCapKept ==
  ASSUME Inv, UNCHANGED <<streams, counter>>
  PROVE  CapKept
<1>1. Escrow' = Escrow /\ Escrow \in Int
  BY EscrowSame, SumsType
<1> QED
  BY <1>1 DEF CapKept

LEMMA CapStep == Inv /\ Inv' /\ Accounted' /\ [Next]_vars => [CapKept]_vars
<1> SUFFICES ASSUME Inv, Inv', Accounted', [Next]_vars PROVE [CapKept]_vars
  OBVIOUS
<1>1. supply_cap \in Int
  BY VestingAssumption DEF Inv, TypeOK
<1>2. ASSUME NEW sender \in Accounts, NEW request \in Requests,
             create_stream(sender, request)
      PROVE  CapKept
  <2>1. within_cap(total_supply')
    BY <1>2 DEF create_stream
  <2> QED
    BY <1>1, <2>1, CheckedSupplyBounds
<1>3. ASSUME NEW id \in DOMAIN streams, NEW sender \in Accounts, NEW amount \in Amounts,
             top_up(id, sender, amount)
      PROVE  CapKept
  <2>1. within_cap(total_supply')
    BY <1>3 DEF top_up
  <2> QED
    BY <1>1, <2>1, CheckedSupplyBounds
<1>4. ASSUME NEW sender \in Accounts, NEW requests \in Batches,
             create_stream_batch(sender, requests)
      PROVE  CapKept
  BY <1>4, BatchCapKept
<1>5. ASSUME NEW id \in DOMAIN streams, NEW sender \in Accounts,
             NEW new_end \in 0..U64MAX, extend_stream(id, sender, new_end)
      PROVE  CapKept
  BY <1>5, ExtendCapKept
<1>6. ASSUME NEW id \in DOMAIN streams, NEW recipient \in Accounts,
             withdraw(id, recipient)
      PROVE  CapKept
  BY <1>6, WithdrawCapKept
<1>7. ASSUME NEW id \in DOMAIN streams, NEW caller \in Accounts, cancel(id, caller)
      PROVE  CapKept
  BY <1>7, CancelCapKept
<1>8. CASE initialize
  <2>1. counter = 0
    BY <1>8 DEF Inv, NothingBeforeInitialize, initialize
  <2> QED
    BY <1>8, <2>1, EscrowUntouchedCapKept DEF initialize
<1>9. CASE (\E new_cap \in Caps : set_supply_cap(new_cap)) \/ close_ledger
  BY <1>9, EscrowUntouchedCapKept DEF set_supply_cap, close_ledger
<1> QED
  BY <1>2, <1>3, <1>4, <1>5, <1>6, <1>7, <1>8, <1>9 DEF Next

\* An invocation that adds to the escrow it tracks leaves no more of it than
\* the cap in force, whatever earlier caps and batches left in the contract.
THEOREM CapBoundsEscrow == Spec => CapBoundsTrackedEscrow
<1>1. Spec => [][CapKept]_vars
  BY Invariance, Accounting, CapStep, PTL DEF Spec
<1> QED
  BY <1>1 DEF CapBoundsTrackedEscrow, CapKept

-----------------------------------------------------------------------------
(* A recipient's claim is kept                                             *)

ClaimKeptOf(id) ==
  /\ streams'[id].status = "Active"
  /\ streams'[id].end = streams[id].end
  /\ paid'[id] = paid[id]
  => withdrawable(streams[id], timestamp) <= withdrawable(streams'[id], timestamp')

\* More vested and the same withdrawn is more to withdraw.
LEMMA ClaimOfVested ==
  ASSUME Inv, NEW id \in DOMAIN streams, Window(streams'[id]), timestamp' \in Nat,
         streams'[id].withdrawn = streams[id].withdrawn,
         vested(streams[id], timestamp) <= vested(streams'[id], timestamp')
  PROVE  ClaimKeptOf(id)
<1> DEFINE v == vested(streams[id], timestamp)
           w == vested(streams'[id], timestamp')
           d == streams[id].withdrawn
<1>1. v \in Int /\ w \in Int /\ d \in Int /\ v <= w
  <2>1. Window(streams[id]) /\ timestamp \in Nat /\ d \in Int
    BY StoredStream DEF Window
  <2>2. v \in 0..streams[id].total
    BY <2>1, VestedBounds
  <2>3. w \in 0..streams'[id].total
    BY VestedBounds
  <2> QED
    BY <2>1, <2>2, <2>3 DEF Window
<1>2. /\ withdrawable(streams[id], timestamp) = IF v > d THEN v - d ELSE 0
      /\ withdrawable(streams'[id], timestamp') = IF w > d THEN w - d ELSE 0
  BY DEF withdrawable
<1> HIDE DEF v, w, d
<1>3. (IF v > d THEN v - d ELSE 0) <= (IF w > d THEN w - d ELSE 0)
  BY <1>1
<1> QED
  BY <1>2, <1>3 DEF ClaimKeptOf

\* A stream left alone keeps its claim as time passes.
LEMMA ClaimUntouched ==
  ASSUME Inv, NEW id \in DOMAIN streams, streams'[id] = streams[id],
         timestamp' \in Nat, timestamp <= timestamp'
  PROVE  ClaimKeptOf(id)
<1>1. Window(streams[id]) /\ timestamp \in Nat
  BY StoredStream
<1>2. vested(streams[id], timestamp) <= vested(streams[id], timestamp')
  BY <1>1, VestedGrows DEF VestedMonotone
<1> QED
  BY <1>1, <1>2, ClaimOfVested

LEMMA TopUpClaimKept ==
  ASSUME Inv, NEW id \in DOMAIN streams, NEW sender \in Accounts, NEW amount \in Amounts,
         top_up(id, sender, amount)
  PROVE  ClaimKeptOf(id)
<1> DEFINE s == streams[id]
           t == [s EXCEPT !.total = s.total + amount]
<1>1. /\ is_valid_amount(amount)
      /\ streams' = write_stream(id, t)
      /\ timestamp' = timestamp
  BY DEF top_up
<1>2. s \in Stream /\ Window(s) /\ timestamp \in Nat
  BY StoredStream
<1>3. amount \in Nat
  BY <1>1, VestingAssumption, StreamsAssumption DEF is_valid_amount, I128MIN
<1>4. streams'[id] = t
  BY <1>1 DEF write_stream
<1>5. /\ t.total = s.total + amount /\ t.start = s.start /\ t.end = s.end
      /\ t.withdrawn = s.withdrawn
  BY <1>2 DEF Stream
<1> HIDE DEF t
<1>6. Window(t)
  BY <1>2, <1>3, <1>5 DEF Window
<1>7. vested(s, timestamp) <= vested(t, timestamp)
  BY <1>2, <1>3, <1>5, <1>6, LargerTotalVestsMore
<1> QED
  BY <1>1, <1>2, <1>4, <1>5, <1>6, <1>7, ClaimOfVested

LEMMA ClaimStep ==
  ASSUME Inv, [Next]_vars, NEW id \in DOMAIN streams
  PROVE  ClaimKeptOf(id)
<1>1. /\ counter \in Nat /\ id \in 0..(counter - 1) /\ DOMAIN streams = 0..(counter - 1)
      /\ timestamp \in Nat /\ streams[id] \in Stream
  BY StoredStream
<1>2. ASSUME streams'[id] = streams[id], timestamp' = timestamp
      PROVE  ClaimKeptOf(id)
  BY <1>1, <1>2, ClaimUntouched
<1>3. ASSUME NEW j, j # id, NEW t, streams' = write_stream(j, t), timestamp' = timestamp
      PROVE  ClaimKeptOf(id)
  BY <1>2, <1>3 DEF write_stream
<1>4. ASSUME NEW sender \in Accounts, NEW request \in Requests,
             create_stream(sender, request)
      PROVE  ClaimKeptOf(id)
  <2>1. counter # id
    BY <1>1
  <2> QED
    BY <1>3, <1>4, <2>1 DEF create_stream
<1>5. ASSUME NEW sender \in Accounts, NEW requests \in Batches,
             create_stream_batch(sender, requests)
      PROVE  ClaimKeptOf(id)
  <2>1. Len(requests) \in Nat
    BY StreamsAssumption
  <2>2. id \in 0..(counter + Len(requests) - 1) /\ id < counter
    BY <1>1, <2>1
  <2>3. streams'[id] = streams[id] /\ timestamp' = timestamp
    BY <1>5, <2>2 DEF create_stream_batch
  <2> QED
    BY <1>2, <2>3
<1>6. ASSUME NEW j \in DOMAIN streams, NEW sender \in Accounts, NEW amount \in Amounts,
             top_up(j, sender, amount)
      PROVE  ClaimKeptOf(id)
  <2>1. CASE j = id
    BY <1>6, <2>1, TopUpClaimKept
  <2>2. CASE j # id
    BY <1>3, <1>6, <2>2 DEF top_up
  <2> QED
    BY <2>1, <2>2
<1>7. ASSUME NEW j \in DOMAIN streams, NEW sender \in Accounts,
             NEW new_end \in 0..U64MAX, extend_stream(j, sender, new_end)
      PROVE  ClaimKeptOf(id)
  <2>1. CASE j = id
    <3>1. /\ streams' = write_stream(id, [streams[id] EXCEPT !.end = new_end])
          /\ new_end > streams[id].end
      BY <1>7, <2>1 DEF extend_stream
    <3>2. streams'[id].end = new_end
      BY <1>1, <3>1 DEF write_stream, Stream
    <3>3. new_end \in Int /\ streams[id].end \in Int
      BY <1>1, StreamsAssumption DEF Stream
    <3> QED
      BY <3>1, <3>2, <3>3 DEF ClaimKeptOf
  <2>2. CASE j # id
    BY <1>3, <1>7, <2>2 DEF extend_stream
  <2> QED
    BY <2>1, <2>2
<1>8. ASSUME NEW j \in DOMAIN streams, NEW recipient \in Accounts, withdraw(j, recipient)
      PROVE  ClaimKeptOf(id)
  <2>1. CASE j = id
    <3> DEFINE available == withdrawable(streams[id], timestamp)
    <3>1. available > 0 /\ paid' = Plus(paid, id, available)
      BY <1>8, <2>1 DEF withdraw
    <3>2. available \in Int
      BY StoredStream, WithdrawableBounds DEF Window
    <3>3. paid \in [0..(counter - 1) -> Nat]
      BY StateTypes
    <3> HIDE DEF available
    <3>4. paid'[id] = paid[id] + available /\ paid[id] \in Nat
      BY <1>1, <3>1, <3>3 DEF Plus
    <3> QED
      BY <3>1, <3>2, <3>4 DEF ClaimKeptOf
  <2>2. CASE j # id
    BY <1>3, <1>8, <2>2 DEF withdraw
  <2> QED
    BY <2>1, <2>2
<1>9. ASSUME NEW j \in DOMAIN streams, NEW caller \in Accounts, cancel(j, caller)
      PROVE  ClaimKeptOf(id)
  <2>1. CASE j = id
    <3>1. \E v : streams' = write_stream(id,
                    [streams[id] EXCEPT !.withdrawn = v, !.status = "Cancelled"])
      BY <1>9, <2>1 DEF cancel
    <3>2. streams'[id].status = "Cancelled"
      BY <1>1, <3>1 DEF write_stream, Stream
    <3> QED
      BY <3>2 DEF ClaimKeptOf
  <2>2. CASE j # id
    BY <1>3, <1>9, <2>2 DEF cancel
  <2> QED
    BY <2>1, <2>2
<1>10. CASE close_ledger
  <2>1. streams' = streams /\ timestamp' = timestamp + 1
    BY <1>10 DEF close_ledger
  <2>2. timestamp' \in Nat /\ timestamp <= timestamp'
    BY <1>1, <2>1
  <2> QED
    BY <2>1, <2>2, ClaimUntouched
<1>11. ASSUME \/ initialize
              \/ \E new_cap \in Caps : set_supply_cap(new_cap)
              \/ UNCHANGED vars
       PROVE  ClaimKeptOf(id)
  BY <1>2, <1>11 DEF initialize, set_supply_cap, vars
<1> QED
  BY <1>4, <1>5, <1>6, <1>7, <1>8, <1>9, <1>10, <1>11 DEF Next

\* What a recipient can withdraw is taken away by no one: it only shrinks by
\* being paid out, or when the sender extends the window or cancels.
THEOREM ClaimAlwaysKept == Spec => ClaimKept
<1>1. Inv /\ [Next]_vars => [\A id \in DOMAIN streams : ClaimKeptOf(id)]_vars
  BY ClaimStep
<1>2. Spec => [][\A id \in DOMAIN streams : ClaimKeptOf(id)]_vars
  BY <1>1, Invariance, PTL DEF Spec
<1> QED
  BY <1>2 DEF ClaimKept, ClaimKeptOf

-----------------------------------------------------------------------------
(* Streams implement escrows                                               *)

\* The escrows, and what one step does to them when it writes one stream.
LEMMA ViewTypes ==
  ASSUME Inv
  PROVE  /\ DOMAIN EscrowsView = DOMAIN streams
         /\ \A id \in DOMAIN streams : EscrowsView[id] = EscrowView(id)
  BY DEF EscrowsView

LEMMA ViewInit == Init => Ledger!Init
<1> SUFFICES ASSUME Init PROVE EscrowsView = [id \in {} |-> Ledger!NewEscrow(0)]
  BY DEF Ledger!Init
<1>1. DOMAIN streams = {}
  BY DEF Init
<1> QED
  BY <1>1 DEF EscrowsView

LEMMA ViewSame ==
  ASSUME UNCHANGED <<streams, paid, refunded>>
  PROVE  UNCHANGED EscrowsView
  BY DEF EscrowsView, EscrowView, PhaseOf

LEMMA ViewStored ==
  ASSUME Inv, NEW id \in DOMAIN streams, NEW stream, NEW e,
         streams' = write_stream(id, stream),
         \A i \in DOMAIN streams : i # id => paid'[i] = paid[i] /\ refunded'[i] = refunded[i],
         e = [phase |-> PhaseOf(stream), deposited |-> stream.total,
              released |-> paid'[id], returned |-> refunded'[id]]
  PROVE  EscrowsView' = [EscrowsView EXCEPT ![id] = e]
<1>1. /\ DOMAIN streams' = DOMAIN streams
      /\ streams'[id] = stream
      /\ \A i \in DOMAIN streams : i # id => streams'[i] = streams[i]
  BY DEF write_stream
<1>2. EscrowView(id)' = e
  BY <1>1 DEF EscrowView
<1>3. \A i \in DOMAIN streams : i # id => EscrowView(i)' = EscrowView(i)
  BY <1>1 DEF EscrowView
<1>4. EscrowsView' = [i \in DOMAIN streams |-> EscrowView(i)']
  BY <1>1 DEF EscrowsView
<1> QED
  BY <1>2, <1>3, <1>4 DEF EscrowsView

\* New escrows, at the ids that follow those in use.
LEMMA ViewOpened ==
  ASSUME Inv, NEW n \in Nat \ {0}, counter + n <= MaxStreams,
         streams' \in [0..(counter + n - 1) -> Stream],
         \A i \in 0..(counter - 1) : streams'[i] = streams[i],
         \A i \in counter..(counter + n - 1) : streams'[i].status = "Active",
         paid' = Opened(paid, counter + n), refunded' = Opened(refunded, counter + n)
  PROVE  Ledger!Open
<1> DEFINE m == counter + n - 1
           amounts == [i \in counter..m |-> streams'[i].total]
<1>1. counter \in Nat /\ DOMAIN streams = 0..(counter - 1) /\ counter + n \in Nat
  BY StateTypes
<1>2. /\ \A i \in 0..(counter - 1) : paid'[i] = paid[i] /\ refunded'[i] = refunded[i]
      /\ \A i \in counter..m : paid'[i] = 0 /\ refunded'[i] = 0
  <2> DEFINE next == counter + n
  <2>1. paid' = Opened(paid, next) /\ refunded' = Opened(refunded, next)
    OBVIOUS
  <2>2. next \in Nat /\ counter <= next
    BY <1>1
  <2> HIDE DEF next
  <2>3. /\ \A i \in 0..(counter - 1) : paid'[i] = paid[i] /\ refunded'[i] = refunded[i]
        /\ \A i \in counter..(next - 1) : paid'[i] = 0 /\ refunded'[i] = 0
    BY <2>1, <2>2, OpenedHistory
  <2> QED
    BY <1>1, <2>3 DEF next
<1>4. \A i \in counter..m : EscrowView(i)' = Ledger!NewEscrow(amounts[i])
  BY <1>2 DEF EscrowView, PhaseOf, Ledger!NewEscrow
<1>5. \A i \in 0..(counter - 1) : EscrowView(i)' = EscrowsView[i]
  BY <1>1, <1>2 DEF EscrowView, EscrowsView
<1>6. amounts \in [counter..m -> 1..I128MAX]
  BY <1>1 DEF Stream
<1>7. EscrowsView' = [i \in 0..m |-> IF i < counter THEN EscrowsView[i]
                                     ELSE Ledger!NewEscrow(amounts[i])]
  <2> HIDE DEF amounts
  <2>1. EscrowsView' = [i \in 0..m |-> EscrowView(i)']
    BY DEF EscrowsView
  <2>2. \A i \in 0..m : IF i < counter THEN i \in 0..(counter - 1)
                                       ELSE i \in counter..m
    BY <1>1
  <2>3. \A i \in 0..m : EscrowView(i)' = IF i < counter THEN EscrowsView[i]
                                         ELSE Ledger!NewEscrow(amounts[i])
    BY <1>4, <1>5, <2>2
  <2> QED
    BY <2>1, <2>3
<1>8. /\ counter \in 0..MaxStreams /\ n \in 1..MaxStreams
      /\ DOMAIN EscrowsView = 0..(counter - 1)
  BY <1>1, StreamsAssumption DEF EscrowsView
<1> HIDE DEF amounts
<1> QED
  BY <1>6, <1>7, <1>8 DEF Ledger!Open

LEMMA CreateStreamView ==
  ASSUME Inv, Inv', NEW sender \in Accounts, NEW request \in Requests,
         create_stream(sender, request)
  PROVE  Ledger!Open
<1> DEFINE start == normalize_start_time(timestamp, request.start_time)
           new == NewStream(sender, request, start)
<1>1. /\ streams' = write_stream(counter, new)
      /\ counter' = counter + 1 /\ counter < MaxStreams
      /\ paid' = Opened(paid, counter + 1) /\ refunded' = Opened(refunded, counter + 1)
  BY DEF create_stream
<1>2. counter \in Nat /\ DOMAIN streams = 0..(counter - 1)
  BY StateTypes
<1>3. streams' \in [0..(counter' - 1) -> Stream]
  BY StateTypes DEF Inv, TypeOK
<1>4. new.status = "Active"
  BY DEF NewStream
<1> HIDE DEF new
<1>5. /\ \A i \in 0..(counter - 1) : streams'[i] = streams[i]
      /\ \A i \in counter..(counter + 1 - 1) : streams'[i].status = "Active"
  BY <1>1, <1>2, <1>4 DEF write_stream
<1>6. counter + 1 <= MaxStreams
  BY <1>1, <1>2, StreamsAssumption
<1> DEFINE count == 1
<1>7. count \in Nat \ {0}
  OBVIOUS
<1>8. counter' = counter + count /\ counter + count <= MaxStreams
  BY <1>1, <1>6
<1>9. paid' = Opened(paid, counter + count) /\ refunded' = Opened(refunded, counter + count)
  BY <1>1
<1>10. \A i \in counter..(counter + count - 1) : streams'[i].status = "Active"
  BY <1>2, <1>5
<1> HIDE DEF count
<1>11. streams' \in [0..(counter + count - 1) -> Stream]
  BY <1>2, <1>3, <1>7, <1>8
<1> QED
  BY <1>5, <1>7, <1>8, <1>9, <1>10, <1>11, ViewOpened

LEMMA CreateStreamBatchView ==
  ASSUME Inv, Inv', NEW sender \in Accounts, NEW requests \in Batches,
         create_stream_batch(sender, requests)
  PROVE  Ledger!Open
<1> DEFINE count == Len(requests)
<1>1. /\ count > 0 /\ counter + count <= MaxStreams /\ counter' = counter + count
      /\ streams' = [i \in 0..(counter + count - 1) |->
           IF i < counter THEN streams[i]
           ELSE NewStream(sender, requests[i - counter + 1],
                          requests[i - counter + 1].start_time)]
      /\ paid' = Opened(paid, counter + count)
      /\ refunded' = Opened(refunded, counter + count)
  BY DEF create_stream_batch
<1>2. count \in Nat
  BY StreamsAssumption
<1>3. counter \in Nat
  BY StateTypes
<1>4. streams' \in [0..(counter' - 1) -> Stream]
  BY DEF Inv, TypeOK
<1> HIDE DEF count
<1>5. /\ \A i \in 0..(counter - 1) : streams'[i] = streams[i]
      /\ \A i \in counter..(counter + count - 1) : streams'[i].status = "Active"
  BY <1>1, <1>2, <1>3 DEF NewStream
<1>6. count \in Nat \ {0}
  BY <1>1, <1>2
<1> QED
  BY <1>1, <1>4, <1>5, <1>6, ViewOpened

LEMMA TopUpView ==
  ASSUME Inv, NEW id \in DOMAIN streams, NEW sender \in Accounts,
         NEW amount \in Amounts, top_up(id, sender, amount)
  PROVE  Ledger!Deposit(id)
<1> DEFINE s == streams[id]
           t == [s EXCEPT !.total = @ + amount]
           e == [EscrowsView[id] EXCEPT !.deposited = @ + amount]
<1>1. /\ is_valid_amount(amount) /\ s.status = "Active" /\ s.total + amount <= I128MAX
      /\ streams' = write_stream(id, t)
      /\ UNCHANGED <<paid, refunded>>
  BY DEF top_up
<1>2. s \in Stream /\ s.total \in 1..I128MAX /\ I128MAX \in Nat
  BY StoredStream
<1>3. amount \in Int
  BY StreamsAssumption, VestingAssumption DEF I128MIN
<1>4. amount \in 1..(I128MAX - s.total)
  BY <1>1, <1>2, <1>3, VestingAssumption DEF is_valid_amount
<1>5. EscrowsView[id] = EscrowView(id) /\ DOMAIN EscrowsView = DOMAIN streams
  BY ViewTypes
<1>6. t.status = "Active" /\ t.total = s.total + amount
  BY <1>1, <1>2 DEF Stream
<1>7. e = [phase |-> PhaseOf(t), deposited |-> t.total,
           released |-> paid'[id], returned |-> refunded'[id]]
  BY <1>1, <1>5, <1>6 DEF EscrowView, PhaseOf
<1> HIDE DEF t, e
<1>8. EscrowsView' = [EscrowsView EXCEPT ![id] = e]
  BY <1>1, <1>7, ViewStored
<1>9. EscrowsView' = [EscrowsView EXCEPT ![id].deposited = @ + amount]
  BY <1>8 DEF e
<1>10. EscrowsView[id].deposited = s.total /\ EscrowsView[id].phase = "open"
  BY <1>1, <1>5 DEF EscrowView, PhaseOf
<1> QED
  BY <1>4, <1>9, <1>10 DEF Ledger!Deposit

LEMMA ExtendStreamView ==
  ASSUME Inv, NEW id \in DOMAIN streams, NEW sender \in Accounts,
         NEW new_end \in 0..U64MAX, extend_stream(id, sender, new_end)
  PROVE  UNCHANGED EscrowsView
<1> DEFINE t == [streams[id] EXCEPT !.end = new_end]
<1>1. streams' = write_stream(id, t) /\ UNCHANGED <<paid, refunded>>
  BY DEF extend_stream
<1>2. t.status = streams[id].status /\ t.total = streams[id].total
  BY StoredStream DEF Stream
<1>3. EscrowsView[id] = EscrowView(id) /\ DOMAIN EscrowsView = DOMAIN streams
  BY ViewTypes
<1>4. EscrowsView[id] = [phase |-> PhaseOf(t), deposited |-> t.total,
                         released |-> paid'[id], returned |-> refunded'[id]]
  BY <1>1, <1>2, <1>3 DEF EscrowView, PhaseOf
<1> HIDE DEF t
<1>5. EscrowsView' = [EscrowsView EXCEPT ![id] = EscrowsView[id]]
  BY <1>1, <1>4, ViewStored
<1> QED
  BY <1>3, <1>5 DEF EscrowsView

LEMMA WithdrawView ==
  ASSUME Inv, NEW id \in DOMAIN streams, NEW recipient \in Accounts,
         withdraw(id, recipient)
  PROVE  Ledger!Release(id)
<1> DEFINE s == streams[id]
           available == withdrawable(s, timestamp)
           t == [s EXCEPT
                   !.withdrawn = s.withdrawn + available,
                   !.status = IF completes(s, s.withdrawn + available)
                              THEN "Completed" ELSE @]
           old == EscrowsView[id]
           e == [phase |-> IF old.released + available < old.deposited
                           THEN "open" ELSE "settled",
                 deposited |-> old.deposited,
                 released |-> old.released + available,
                 returned |-> old.returned]
<1>1. /\ s.status = "Active" /\ available > 0
      /\ streams' = write_stream(id, t)
      /\ paid' = Plus(paid, id, available) /\ refunded' = refunded
  BY DEF withdraw
<1>2. /\ s \in Stream /\ Window(s) /\ timestamp \in Nat
      /\ s.withdrawn \in 0..s.total /\ s.total \in Nat
  BY StoredStream
<1>3. available \in 0..(s.total - s.withdrawn)
  BY <1>2, WithdrawableBounds
<1>4. /\ id \in 0..(counter - 1) /\ paid \in [0..(counter - 1) -> Nat]
      /\ id \in DOMAIN paid
  BY StateTypes
<1>5. paid[id] = s.withdrawn
  BY <1>1 DEF Inv, PayoutsMatchRecord
<1>6. /\ old = EscrowView(id) /\ DOMAIN EscrowsView = DOMAIN streams
  BY ViewTypes
<1>7. /\ old.deposited = s.total /\ old.released = s.withdrawn
      /\ old.phase = "open" /\ old.returned = refunded[id]
  BY <1>1, <1>5, <1>6 DEF EscrowView, PhaseOf
<1> HIDE DEF available
<1>8. paid'[id] = s.withdrawn + available
  BY <1>1, <1>4, <1>5 DEF Plus
<1>9. /\ t.total = s.total
      /\ t.status = IF s.withdrawn + available >= s.total THEN "Completed" ELSE "Active"
  BY <1>1, <1>2 DEF Stream, completes
<1>10. PhaseOf(t) = IF s.withdrawn + available < s.total THEN "open" ELSE "settled"
  <2> HIDE DEF t
  <2> QED
    BY <1>2, <1>3, <1>9 DEF PhaseOf
<1>11. e = [phase |-> PhaseOf(t), deposited |-> t.total,
            released |-> paid'[id], returned |-> refunded'[id]]
  <2>1. e = [phase |-> IF s.withdrawn + available < s.total THEN "open" ELSE "settled",
             deposited |-> s.total, released |-> s.withdrawn + available,
             returned |-> refunded[id]]
    <3> HIDE DEF old
    <3> QED
      BY <1>2, <1>3, <1>7
  <2> HIDE DEF t, e
  <2> QED
    BY <2>1, <1>1, <1>8, <1>9, <1>10
<1>12. \A i \in DOMAIN streams : i # id => paid'[i] = paid[i] /\ refunded'[i] = refunded[i]
  BY <1>1, StateTypes, PlusOthers
<1> HIDE DEF t, e
<1>13. EscrowsView' = [EscrowsView EXCEPT ![id] = e]
  BY <1>1, <1>11, <1>12, ViewStored
<1>14. available \in 1..(old.deposited - old.released)
  BY <1>1, <1>2, <1>3, <1>7
<1> QED
  BY <1>7, <1>13, <1>14 DEF Ledger!Release, e

\* A cancelled stream's recipient has at least the vested share, its sender
\* exactly the rest.
LEMMA CancelView ==
  ASSUME Inv, NEW id \in DOMAIN streams, NEW caller \in Accounts, cancel(id, caller),
         streams[id].status = "Active"
  PROVE  Ledger!Split(id)
<1> DEFINE s == streams[id]
           share == vested(s, timestamp)
           payment == IF share - s.withdrawn > 0 THEN share - s.withdrawn ELSE 0
           refund == unvested(s, timestamp)
           t == [s EXCEPT !.withdrawn = share, !.status = "Cancelled"]
           old == EscrowsView[id]
           e == [phase |-> "settled",
                 deposited |-> old.deposited,
                 released |-> IF share > old.released THEN share ELSE old.released,
                 returned |-> old.deposited - share]
<1>1. /\ streams' = write_stream(id, t)
      /\ paid' = Plus(paid, id, payment) /\ refunded' = Plus(refunded, id, refund)
  BY DEF cancel
<1>2. /\ s \in Stream /\ Window(s) /\ timestamp \in Nat
      /\ s.withdrawn \in 0..s.total /\ s.total \in Nat
  BY StoredStream
<1>3. share \in 0..s.total /\ refund = s.total - share
  BY <1>2, VestedBounds DEF unvested
<1>4. /\ id \in DOMAIN paid /\ id \in DOMAIN refunded
  BY StateTypes
<1>5. paid[id] = s.withdrawn /\ refunded[id] = 0
  BY DEF Inv, PayoutsMatchRecord
<1>6. /\ old = EscrowView(id) /\ DOMAIN EscrowsView = DOMAIN streams
  BY ViewTypes
<1>7. old = [phase |-> "open", deposited |-> s.total,
             released |-> s.withdrawn, returned |-> 0]
  BY <1>5, <1>6 DEF EscrowView, PhaseOf
<1> HIDE DEF share, refund, payment
<1>8. paid'[id] = s.withdrawn + payment /\ refunded'[id] = refund
  BY <1>1, <1>3, <1>4, <1>5, <1>2 DEF Plus
<1>9. s.withdrawn + payment = IF share > s.withdrawn THEN share ELSE s.withdrawn
  BY <1>2, <1>3 DEF payment
<1>10. t.total = s.total /\ PhaseOf(t) = "settled"
  BY <1>2 DEF Stream, PhaseOf
<1>11. e = [phase |-> PhaseOf(t), deposited |-> t.total,
            released |-> paid'[id], returned |-> refunded'[id]]
  <2>1. e = [phase |-> "settled", deposited |-> s.total,
             released |-> IF share > s.withdrawn THEN share ELSE s.withdrawn,
             returned |-> s.total - share]
    <3> HIDE DEF old
    <3> QED
      BY <1>2, <1>3, <1>7
  <2> HIDE DEF t, e
  <2> QED
    BY <2>1, <1>3, <1>8, <1>9, <1>10
<1>12. \A i \in DOMAIN streams : i # id => paid'[i] = paid[i] /\ refunded'[i] = refunded[i]
  BY <1>1, StateTypes, PlusOthers
<1> HIDE DEF t, e
<1>13. EscrowsView' = [EscrowsView EXCEPT ![id] = e]
  BY <1>1, <1>11, <1>12, ViewStored
<1>14. old.phase = "open" /\ share \in 0..old.deposited
  BY <1>3, <1>7
<1> QED
  BY <1>13, <1>14 DEF Ledger!Split, e

\* Cancelling a Completed stream is a stutter: nothing is left to split.
LEMMA CancelCompletedView ==
  ASSUME Inv, NEW id \in DOMAIN streams, NEW caller \in Accounts, cancel(id, caller),
         streams[id].status = "Completed"
  PROVE  UNCHANGED EscrowsView
<1> DEFINE s == streams[id]
           t == [s EXCEPT !.withdrawn = vested(s, timestamp), !.status = "Cancelled"]
<1>1. streams' = write_stream(id, t)
  BY DEF cancel
<1>2. \A i \in DOMAIN streams : paid'[i] = paid[i] /\ refunded'[i] = refunded[i]
  <2>1. \A i \in DOMAIN streams : i # id => paid'[i] = paid[i] /\ refunded'[i] = refunded[i]
    BY StateTypes, PlusOthers DEF cancel
  <2>2. SettledKept(id)
    BY CancelSettledKept
  <2> QED
    BY <2>1, <2>2 DEF SettledKept
<1>3. t.total = s.total /\ t.status = "Cancelled"
  BY StoredStream DEF Stream
<1>4. EscrowsView[id] = EscrowView(id) /\ DOMAIN EscrowsView = DOMAIN streams
  BY ViewTypes
<1> HIDE DEF t
<1>5. EscrowsView[id] = [phase |-> PhaseOf(t), deposited |-> t.total,
                         released |-> paid'[id], returned |-> refunded'[id]]
  BY <1>2, <1>3, <1>4 DEF EscrowView, PhaseOf
<1>6. EscrowsView' = [EscrowsView EXCEPT ![id] = EscrowsView[id]]
  BY <1>1, <1>2, <1>5, ViewStored
<1> QED
  BY <1>4, <1>6 DEF EscrowsView

LEMMA ViewStep == Inv /\ Inv' /\ [Next]_vars => [Ledger!Next]_EscrowsView
<1> SUFFICES ASSUME Inv, Inv', [Next]_vars PROVE [Ledger!Next]_EscrowsView
  OBVIOUS
<1>1. DOMAIN EscrowsView = DOMAIN streams
  BY ViewTypes
<1>2. ASSUME NEW sender \in Accounts, NEW request \in Requests,
             create_stream(sender, request)
      PROVE  Ledger!Next
  BY <1>2, CreateStreamView DEF Ledger!Next
<1>3. ASSUME NEW sender \in Accounts, NEW requests \in Batches,
             create_stream_batch(sender, requests)
      PROVE  Ledger!Next
  BY <1>3, CreateStreamBatchView DEF Ledger!Next
<1>4. ASSUME NEW id \in DOMAIN streams, NEW sender \in Accounts, NEW amount \in Amounts,
             top_up(id, sender, amount)
      PROVE  Ledger!Next
  BY <1>1, <1>4, TopUpView DEF Ledger!Next
<1>5. ASSUME NEW id \in DOMAIN streams, NEW sender \in Accounts,
             NEW new_end \in 0..U64MAX, extend_stream(id, sender, new_end)
      PROVE  UNCHANGED EscrowsView
  BY <1>5, ExtendStreamView
<1>6. ASSUME NEW id \in DOMAIN streams, NEW recipient \in Accounts,
             withdraw(id, recipient)
      PROVE  Ledger!Next
  BY <1>1, <1>6, WithdrawView DEF Ledger!Next
<1>7. ASSUME NEW id \in DOMAIN streams, NEW caller \in Accounts, cancel(id, caller)
      PROVE  [Ledger!Next]_EscrowsView
  <2>1. streams[id].status \in {"Active", "Completed"}
    BY <1>7, StoredStream DEF cancel, Stream, Status
  <2>2. CASE streams[id].status = "Active"
    BY <1>1, <1>7, <2>2, CancelView DEF Ledger!Next
  <2>3. CASE streams[id].status = "Completed"
    BY <1>7, <2>3, CancelCompletedView
  <2> QED
    BY <2>1, <2>2, <2>3
<1>8. ASSUME \/ initialize
             \/ \E new_cap \in Caps : set_supply_cap(new_cap)
             \/ close_ledger
             \/ UNCHANGED vars
      PROVE  UNCHANGED EscrowsView
  <2>1. UNCHANGED <<streams, paid, refunded>>
    BY <1>8 DEF initialize, set_supply_cap, close_ledger, vars
  <2> QED
    BY <2>1, ViewSame
<1> QED
  BY <1>2, <1>3, <1>4, <1>5, <1>6, <1>7, <1>8 DEF Next

\* The streams implement the abstract escrows: whatever is called, in any
\* order, each stream's deposit is released to its recipient or split once
\* between its two parties.
THEOREM StreamsImplementEscrow == Spec => StreamsAreEscrows
<1>1. Inv /\ Inv' /\ [Next]_vars => [Ledger!Next]_EscrowsView
  BY ViewStep
<1>2. Spec => Ledger!Spec
  BY <1>1, ViewInit, Invariance, PTL DEF Spec, Ledger!Spec
<1> QED
  BY <1>2 DEF StreamsAreEscrows
=============================================================================
