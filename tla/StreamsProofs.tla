---------------------------- MODULE StreamsProofs ----------------------------
(***************************************************************************)
(* Theorems of module Streams.                                             *)
(***************************************************************************)
EXTENDS Streams, ArithmeticProofs

\* Nothing happens before initialize: it cannot reset a counter that streams
\* rely on, nor a supply that covers them.
NothingBeforeInitialize ==
  ~initialized => counter = 0 /\ total_supply = 0 /\ untracked = 0

\* The invariant the others rest on: it is inductive.
Inv ==
  /\ TypeOK
  /\ StreamsWellFormed
  /\ PayoutsMatchRecord
  /\ NothingBeforeInitialize

-----------------------------------------------------------------------------
(* The helpers of the actions                                              *)

\* The functions of the state, with the ids in storage.
LEMMA StateTypes ==
  ASSUME Inv
  PROVE  /\ counter \in Nat
         /\ streams \in [0..(counter - 1) -> Stream]
         /\ DOMAIN streams = 0..(counter - 1)
         /\ paid \in [0..(counter - 1) -> Nat]
         /\ refunded \in [0..(counter - 1) -> Nat]
         /\ balance \in [Addresses -> Nat]
<1>1. TypeOK
  BY DEF Inv
<1>2. /\ streams \in [0..(counter - 1) -> Stream]
      /\ paid \in [0..(counter - 1) -> Nat]
      /\ refunded \in [0..(counter - 1) -> Nat]
      /\ balance \in [Addresses -> Nat]
      /\ counter \in 0..U64MAX
  BY <1>1, Zenon DEF TypeOK
<1>3. counter \in Nat
  BY <1>2, StreamsAssumption
<1>4. DOMAIN streams = 0..(counter - 1)
  BY <1>2, Zenon
<1> QED
  BY <1>2, <1>3, <1>4, Zenon

\* A stored stream fits the lemmas about vesting.
LEMMA StoredStream ==
  ASSUME Inv, NEW id \in DOMAIN streams
  PROVE  /\ id \in 0..(counter - 1)
         /\ counter \in Nat
         /\ DOMAIN streams = 0..(counter - 1)
         /\ streams[id] \in Stream
         /\ Window(streams[id])
         /\ streams[id].withdrawn \in 0..streams[id].total
         /\ streams[id].total \in 1..I128MAX
         /\ timestamp \in Nat
         /\ I128MAX \in Nat
<1>1. /\ DOMAIN streams = 0..(counter - 1)
      /\ streams[id] \in Stream
      /\ counter \in Nat /\ timestamp \in Nat /\ I128MAX \in Nat
  BY VestingAssumption, StreamsAssumption DEF Inv, TypeOK
<1>2. streams[id].start < streams[id].end /\ streams[id].withdrawn <= streams[id].total
  BY DEF Inv, StreamsWellFormed
<1> QED
  BY <1>1, <1>2, StreamsAssumption DEF Stream, Window

\* A transfer the token contract accepts keeps every balance a natural.
LEMMA TransferType ==
  ASSUME NEW bal \in [Addresses -> Nat], NEW from \in Addresses, NEW to \in Addresses,
         NEW amount \in Nat, CanPay(bal, from, amount)
  PROVE  Transfer(bal, from, to, amount) \in [Addresses -> Nat]
  BY DEF Transfer, CanPay

LEMMA PayOutType ==
  ASSUME NEW bal \in [Addresses -> Nat], NEW to \in Addresses,
         NEW amount \in Int, CanPayOut(bal, amount)
  PROVE  PayOut(bal, to, amount) \in [Addresses -> Nat]
<1>1. Contract \in Addresses
  BY DEF Addresses
<1> QED
  BY <1>1, TransferType DEF PayOut, CanPayOut

\* Storing a stream, at an id in storage or at the next one.
LEMMA WriteStream ==
  ASSUME Inv, NEW id \in 0..counter, NEW stream \in Stream, NEW n \in Nat,
         n = IF id = counter THEN counter + 1 ELSE counter
  PROVE  /\ write_stream(id, stream) \in [0..(n - 1) -> Stream]
         /\ write_stream(id, stream)[id] = stream
         /\ \A i \in 0..(n - 1) : i # id => write_stream(id, stream)[i] = streams[i]
<1>1. counter \in Nat /\ streams \in [0..(counter - 1) -> Stream]
  BY StateTypes
<1>2. DOMAIN streams \cup {id} = 0..(n - 1)
  BY <1>1
<1> QED
  BY <1>1, <1>2 DEF write_stream

\* The history of every stream but one is kept by a payout to that one.
LEMMA PlusOthers ==
  ASSUME NEW history, NEW id, NEW other \in DOMAIN history, other # id, NEW amount
  PROVE  Plus(history, id, amount)[other] = history[other]
  BY DEF Plus

\* The history of a new stream starts at 0, the others' is kept.
LEMMA OpenedHistory ==
  ASSUME Inv, NEW n \in Nat, counter <= n
  PROVE  /\ Opened(paid, n) \in [0..(n - 1) -> Nat]
         /\ Opened(refunded, n) \in [0..(n - 1) -> Nat]
         /\ \A i \in 0..(counter - 1) : /\ Opened(paid, n)[i] = paid[i]
                                       /\ Opened(refunded, n)[i] = refunded[i]
         /\ \A i \in counter..(n - 1) : /\ Opened(paid, n)[i] = 0
                                       /\ Opened(refunded, n)[i] = 0
<1>1. /\ counter \in Nat
      /\ paid \in [0..(counter - 1) -> Nat] /\ refunded \in [0..(counter - 1) -> Nat]
  BY StateTypes
<1>2. /\ Opened(paid, n) \in [0..(n - 1) -> Nat]
      /\ \A i \in 0..(counter - 1) : Opened(paid, n)[i] = paid[i]
      /\ \A i \in counter..(n - 1) : Opened(paid, n)[i] = 0
  BY <1>1 DEF Opened
<1>3. /\ Opened(refunded, n) \in [0..(n - 1) -> Nat]
      /\ \A i \in 0..(counter - 1) : Opened(refunded, n)[i] = refunded[i]
      /\ \A i \in counter..(n - 1) : Opened(refunded, n)[i] = 0
  BY <1>1 DEF Opened
<1> QED
  BY <1>2, <1>3

\* A request that passes the checks becomes a stream in order.
LEMMA NewStreamType ==
  ASSUME NEW sender \in Accounts, NEW request \in StreamRequest,
         NEW start \in 0..U64MAX, timestamp \in 0..U64MAX,
         valid_request(request, start), request.total_amount <= I128MAX
  PROVE  LET s == NewStream(sender, request, start)
         IN  /\ s \in Stream
             /\ s.start < s.end
             /\ s.withdrawn = 0
             /\ s.status = "Active"
             /\ s.total = request.total_amount
             /\ s.total \in Nat \ {0}
             /\ s.recipient = request.recipient
  BY VestingAssumption, StreamsAssumption
  DEF NewStream, StreamRequest, valid_request, is_valid_amount, Stream, Status

\* The supply saturates at 0 instead of leaving the i128.
LEMMA ReducedSupply ==
  ASSUME Inv, NEW amount \in Nat
  PROVE  reduced_supply(amount) \in I128MIN..I128MAX
  BY VestingAssumption DEF Inv, TypeOK, reduced_supply, I128MIN

\* The amounts of a batch, as aggregate_amount sums them.
BatchAmounts(requests) ==
  [i \in Nat |-> IF i < Len(requests) THEN requests[i + 1].total_amount ELSE 0]

LEMMA Aggregate ==
  ASSUME NEW requests \in Seq(StreamRequest),
         \A i \in 1..Len(requests) :
           valid_request(requests[i], requests[i].start_time)
  PROVE  /\ BatchAmounts(requests) \in [Nat -> Int]
         /\ aggregate_amount(requests) = SumTo(BatchAmounts(requests))[Len(requests)]
         /\ aggregate_amount(requests) \in Nat
         /\ \A i \in 1..Len(requests) :
              requests[i].total_amount \in 1..aggregate_amount(requests)
<1> DEFINE n == Len(requests)
           f == BatchAmounts(requests)
<1>1. n \in Nat /\ \A i \in 1..n : requests[i] \in StreamRequest
  OBVIOUS
<1>2. f \in [Nat -> Int]
  <2>1. \A i \in Nat : i < n => i + 1 \in 1..n
    BY <1>1
  <2>2. \A i \in 1..n : requests[i].total_amount \in Int
    BY <1>1 DEF StreamRequest
  <2> QED
    BY <2>1, <2>2 DEF BatchAmounts
<1>3. aggregate_amount(requests) = SumTo(f)[n]
  BY DEF aggregate_amount, BatchAmounts
<1>4. \A i \in 1..n : requests[i].total_amount \in Int /\ requests[i].total_amount >= 1
  <2>1. MIN_VALID_AMOUNT >= 1 /\ MIN_VALID_AMOUNT \in Int
    BY VestingAssumption
  <2> QED
    BY <1>1, <2>1 DEF valid_request, is_valid_amount, StreamRequest
<1>5. \A i \in 0..(n - 1) : f[i] = requests[i + 1].total_amount /\ f[i] >= 0
  BY <1>1, <1>4 DEF BatchAmounts
<1> HIDE DEF f
<1>6. SumTo(f)[n] \in Nat /\ \A i \in 0..(n - 1) : f[i] <= SumTo(f)[n]
  BY <1>1, <1>2, <1>5, SumNat
<1>7. ASSUME NEW i \in 1..n
      PROVE  requests[i].total_amount \in 1..aggregate_amount(requests)
  <2>1. i - 1 \in 0..(n - 1) /\ (i - 1) + 1 = i
    BY <1>1
  <2>2. requests[i].total_amount <= SumTo(f)[n]
    BY <1>5, <1>6, <2>1
  <2> QED
    BY <2>2, <1>3, <1>4, <1>6
<1> QED
  BY <1>2, <1>3, <1>6, <1>7 DEF f

-----------------------------------------------------------------------------
(* Inv is inductive                                                        *)

\* What StreamsWellFormed and PayoutsMatchRecord say of one stream s, of which
\* p tokens went to the recipient and r back to the sender.
InOrder(s, p, r, now) ==
  /\ s.start < s.end
  /\ s.withdrawn <= s.total
  /\ s.status = "Completed" => s.withdrawn = s.total /\ s.end <= now
  /\ s.status = "Active" => p = s.withdrawn /\ r = 0
  /\ s.status = "Completed" => p = s.total /\ r = 0
  /\ s.status = "Cancelled" => s.withdrawn <= p /\ s.withdrawn + r = s.total

LEMMA InvIsInOrder ==
  Inv <=> /\ TypeOK
          /\ NothingBeforeInitialize
          /\ \A id \in DOMAIN streams :
               InOrder(streams[id], paid[id], refunded[id], timestamp)
  BY DEF Inv, StreamsWellFormed, PayoutsMatchRecord, InOrder

LEMMA InvInit == Init => Inv
<1> SUFFICES ASSUME Init PROVE Inv
  OBVIOUS
<1>1. DOMAIN streams = {} /\ streams \in [0..(counter - 1) -> Stream]
  BY DEF Init
<1>2. balance \in [Addresses -> Nat]
  BY StreamsAssumption DEF Init, Addresses
<1>3. paid \in [0..(counter - 1) -> Nat] /\ refunded \in [0..(counter - 1) -> Nat]
  BY DEF Init
<1>4. /\ counter \in 0..U64MAX
      /\ total_supply \in I128MIN..I128MAX
      /\ supply_cap \in 1..I128MAX
      /\ timestamp \in 0..U64MAX
      /\ untracked \in Nat
  BY VestingAssumption, StreamsAssumption DEF Init, I128MIN
<1>5. initialized \in BOOLEAN
  BY DEF Init
<1>6. TypeOK
  BY <1>1, <1>2, <1>3, <1>4, <1>5 DEF TypeOK
<1>7. NothingBeforeInitialize
  BY DEF Init, NothingBeforeInitialize
<1> QED
  BY <1>1, <1>6, <1>7, InvIsInOrder

\* A step that leaves the streams and their payouts alone, while time may pass.
LEMMA InvKept ==
  ASSUME Inv, TypeOK', NothingBeforeInitialize',
         UNCHANGED <<streams, paid, refunded>>, timestamp <= timestamp'
  PROVE  Inv'
<1>1. ASSUME NEW id \in DOMAIN streams
      PROVE  InOrder(streams[id], paid[id], refunded[id], timestamp')
  <2>1. InOrder(streams[id], paid[id], refunded[id], timestamp)
    BY InvIsInOrder
  <2>2. streams[id].end \in Nat /\ timestamp \in Nat
    BY StoredStream DEF Window
  <2>3. timestamp' \in 0..U64MAX
    BY DEF TypeOK
  <2>4. timestamp' \in Nat
    BY <2>3, StreamsAssumption
  <2> QED
    BY <2>1, <2>2, <2>4 DEF InOrder
<1> QED
  BY <1>1 DEF Inv, StreamsWellFormed, PayoutsMatchRecord, InOrder

\* A step that stores a single stream, in order, at an id in storage.
LEMMA InvStored ==
  ASSUME Inv, TypeOK', NEW id \in DOMAIN streams, NEW stream \in Stream,
         streams' = write_stream(id, stream), UNCHANGED <<initialized, counter, timestamp>>,
         \A i \in DOMAIN streams : i # id => paid'[i] = paid[i] /\ refunded'[i] = refunded[i],
         InOrder(stream, paid'[id], refunded'[id], timestamp)
  PROVE  Inv'
<1>1. /\ counter \in Nat /\ id \in 0..counter /\ id # counter
      /\ DOMAIN streams = 0..(counter - 1)
  BY StoredStream
<1>2. /\ streams' \in [0..(counter - 1) -> Stream]
      /\ streams'[id] = stream
      /\ \A i \in 0..(counter - 1) : i # id => streams'[i] = streams[i]
  BY <1>1, WriteStream
<1>3. \A i \in DOMAIN streams : InOrder(streams[i], paid[i], refunded[i], timestamp)
  BY InvIsInOrder
<1>4. \A i \in DOMAIN streams' :
        InOrder(streams'[i], paid'[i], refunded'[i], timestamp')
  <2> SUFFICES ASSUME NEW i \in DOMAIN streams'
               PROVE  InOrder(streams'[i], paid'[i], refunded'[i], timestamp')
    OBVIOUS
  <2>1. i \in DOMAIN streams
    BY <1>1, <1>2
  <2>2. CASE i = id
    BY <1>2, <2>2
  <2>3. CASE i # id
    BY <1>1, <1>2, <1>3, <2>1, <2>3
  <2> QED
    BY <2>2, <2>3
<1>5. NothingBeforeInitialize'
  BY <1>1 DEF Inv, NothingBeforeInitialize
<1> QED
  BY <1>4, <1>5 DEF Inv, StreamsWellFormed, PayoutsMatchRecord, InOrder

\* A step that opens streams: nothing is vested, withdrawn or paid yet.
LEMMA InvOpened ==
  ASSUME Inv, TypeOK', initialized', NEW n \in Nat, counter <= n, UNCHANGED timestamp,
         streams' \in [0..(n - 1) -> Stream],
         \A i \in 0..(counter - 1) : streams'[i] = streams[i],
         \A i \in counter..(n - 1) : /\ streams'[i].start < streams'[i].end
                                     /\ streams'[i].withdrawn = 0
                                     /\ streams'[i].status = "Active"
                                     /\ streams'[i].total \in Nat,
         paid' = Opened(paid, n), refunded' = Opened(refunded, n)
  PROVE  Inv'
<1>1. /\ counter \in Nat /\ DOMAIN streams = 0..(counter - 1)
      /\ paid \in [0..(counter - 1) -> Nat] /\ refunded \in [0..(counter - 1) -> Nat]
  BY StateTypes
<1>2. /\ \A i \in 0..(counter - 1) : paid'[i] = paid[i] /\ refunded'[i] = refunded[i]
      /\ \A i \in counter..(n - 1) : paid'[i] = 0 /\ refunded'[i] = 0
  BY <1>1, OpenedHistory
<1>3. ASSUME NEW i \in DOMAIN streams'
      PROVE  InOrder(streams'[i], paid'[i], refunded'[i], timestamp')
  <2>1. i \in 0..(n - 1)
    OBVIOUS
  <2>2. CASE i \in 0..(counter - 1)
    BY <1>1, <1>2, <2>2, InvIsInOrder
  <2>3. CASE i \in counter..(n - 1)
    BY <1>2, <2>3 DEF InOrder
  <2> QED
    BY <1>1, <2>1, <2>2, <2>3
<1>4. NothingBeforeInitialize'
  BY DEF NothingBeforeInitialize
<1> QED
  BY <1>3, <1>4 DEF Inv, StreamsWellFormed, PayoutsMatchRecord, InOrder

LEMMA CreateStreamStep ==
  ASSUME Inv, NEW sender \in Accounts, NEW request \in Requests,
         create_stream(sender, request)
  PROVE  Inv'
<1> DEFINE start == normalize_start_time(timestamp, request.start_time)
           stream == NewStream(sender, request, start)
           amount == request.total_amount
<1>1. /\ counter \in Nat /\ counter \in 0..U64MAX /\ U64MAX \in Nat
      /\ timestamp \in 0..U64MAX
      /\ balance \in [Addresses -> Nat]
      /\ total_supply \in I128MIN..I128MAX /\ I128MAX \in Nat
      /\ untracked \in Nat /\ supply_cap \in 1..I128MAX
      /\ paid \in [0..(counter - 1) -> Nat] /\ refunded \in [0..(counter - 1) -> Nat]
  BY StreamsAssumption, VestingAssumption DEF Inv, TypeOK
<1>2. request \in StreamRequest /\ start \in 0..U64MAX
      /\ amount \in Int /\ amount <= I128MAX
  BY <1>1, StreamsAssumption DEF normalize_start_time, StreamRequest, I128MIN
<1>3. /\ initialized
      /\ valid_request(request, start)
      /\ within_cap(total_supply + amount)
      /\ CanPay(balance, sender, amount)
      /\ counter + 1 <= U64MAX
      /\ balance' = Transfer(balance, sender, Contract, amount)
      /\ streams' = write_stream(counter, stream)
      /\ counter' = counter + 1
      /\ total_supply' = total_supply + amount
      /\ paid' = Opened(paid, counter + 1)
      /\ refunded' = Opened(refunded, counter + 1)
      /\ UNCHANGED <<initialized, supply_cap, timestamp, untracked>>
  BY DEF create_stream
<1>4. amount >= 1
  <2>1. MIN_VALID_AMOUNT \in Nat \ {0}
    BY VestingAssumption
  <2> QED
    BY <1>2, <1>3, <2>1 DEF valid_request, is_valid_amount
<1> HIDE DEF start, amount
<1>5. total_supply + amount \in I128MIN..I128MAX
  <2>1. total_supply + amount <= I128MAX
    BY <1>3 DEF within_cap
  <2> QED
    BY <1>1, <1>2, <1>4, <2>1 DEF I128MIN
<1>6. /\ stream \in Stream /\ stream.start < stream.end /\ stream.withdrawn = 0
      /\ stream.status = "Active" /\ stream.total \in Nat
  BY <1>1, <1>2, <1>3, NewStreamType DEF amount
<1> HIDE DEF stream
<1>7. /\ streams' \in [0..((counter + 1) - 1) -> Stream]
      /\ streams'[counter] = stream
      /\ \A i \in 0..(counter - 1) : streams'[i] = streams[i]
  <2>1. counter \in 0..counter /\ counter + 1 \in Nat
    BY <1>1
  <2>2. /\ write_stream(counter, stream) \in [0..((counter + 1) - 1) -> Stream]
        /\ write_stream(counter, stream)[counter] = stream
        /\ \A i \in 0..((counter + 1) - 1) :
             i # counter => write_stream(counter, stream)[i] = streams[i]
    BY <2>1, <1>6, WriteStream
  <2>3. \A i \in 0..(counter - 1) : i \in 0..((counter + 1) - 1) /\ i # counter
    BY <1>1
  <2> QED
    BY <1>3, <2>2, <2>3
<1>8. balance' \in [Addresses -> Nat]
  <2>1. sender \in Addresses /\ Contract \in Addresses /\ amount \in Nat
    BY <1>2, <1>4 DEF Addresses
  <2> QED
    BY <1>1, <1>3, <2>1, TransferType
<1>9. paid' \in [0..((counter + 1) - 1) -> Nat] /\ refunded' \in [0..((counter + 1) - 1) -> Nat]
  <2>1. counter + 1 \in Nat /\ counter <= counter + 1
    BY <1>1
  <2> QED
    BY <1>3, <2>1, OpenedHistory
<1>10. TypeOK'
  <2>1. initialized \in BOOLEAN
    BY DEF Inv, TypeOK
  <2>2. counter' \in 0..U64MAX /\ counter' = counter + 1
    BY <1>1, <1>3
  <2> QED
    BY <1>1, <1>3, <1>5, <1>7, <1>8, <1>9, <2>1, <2>2 DEF TypeOK
<1> DEFINE n == counter + 1
<1>11. n \in Nat /\ counter <= n /\ \A i \in counter..(n - 1) : i = counter
  BY <1>1
<1>12. /\ streams' \in [0..(n - 1) -> Stream]
       /\ \A i \in 0..(counter - 1) : streams'[i] = streams[i]
       /\ paid' = Opened(paid, n) /\ refunded' = Opened(refunded, n)
       /\ UNCHANGED timestamp /\ initialized'
  BY <1>3, <1>7
<1> HIDE DEF n
<1>13. \A i \in counter..(n - 1) : /\ streams'[i].start < streams'[i].end
                                   /\ streams'[i].withdrawn = 0
                                   /\ streams'[i].status = "Active"
                                   /\ streams'[i].total \in Nat
  BY <1>6, <1>7, <1>11
<1> QED
  BY <1>10, <1>11, <1>12, <1>13, InvOpened

LEMMA CreateStreamBatchStep ==
  ASSUME Inv, NEW sender \in Accounts, NEW requests \in Batches,
         create_stream_batch(sender, requests)
  PROVE  Inv'
<1> DEFINE count == Len(requests)
           total == aggregate_amount(requests)
           n == counter + count
           stream(i) == NewStream(sender, requests[i - counter + 1],
                                  requests[i - counter + 1].start_time)
<1>1. /\ counter \in Nat /\ counter \in 0..U64MAX /\ U64MAX \in Nat
      /\ timestamp \in 0..U64MAX
      /\ balance \in [Addresses -> Nat]
      /\ total_supply \in I128MIN..I128MAX /\ I128MAX \in Nat
      /\ untracked \in Nat /\ supply_cap \in 1..I128MAX
      /\ paid \in [0..(counter - 1) -> Nat] /\ refunded \in [0..(counter - 1) -> Nat]
      /\ streams \in [0..(counter - 1) -> Stream]
      /\ initialized \in BOOLEAN
  BY StreamsAssumption, VestingAssumption DEF Inv, TypeOK
<1>2. /\ requests \in Seq(StreamRequest) /\ count \in Nat
      /\ \A i \in 1..count : requests[i] \in StreamRequest
  BY StreamsAssumption
<1>3. /\ initialized
      /\ \A i \in 1..count : valid_request(requests[i], requests[i].start_time)
      /\ CanPay(balance, sender, total)
      /\ counter + count <= U64MAX
      /\ balance' = Transfer(balance, sender, Contract, total)
      /\ streams' = [i \in 0..(counter + count - 1) |->
                      IF i < counter THEN streams[i] ELSE stream(i)]
      /\ counter' = counter + count
      /\ paid' = Opened(paid, counter + count)
      /\ refunded' = Opened(refunded, counter + count)
      /\ untracked' = untracked + total
      /\ UNCHANGED <<initialized, total_supply, supply_cap, timestamp>>
  BY DEF create_stream_batch
<1>4. /\ total \in Nat /\ \A i \in 1..count : requests[i].total_amount \in 1..total
      /\ total <= I128MAX
  BY <1>2, <1>3, Aggregate DEF create_stream_batch
<1>5. n \in Nat /\ counter <= n /\ n \in 0..U64MAX
  BY <1>1, <1>2, <1>3
<1>6. ASSUME NEW i \in counter..(n - 1)
      PROVE  /\ stream(i) \in Stream
             /\ stream(i).start < stream(i).end
             /\ stream(i).withdrawn = 0
             /\ stream(i).status = "Active"
             /\ stream(i).total \in Nat
  <2> DEFINE request == requests[i - counter + 1]
  <2>1. i - counter + 1 \in 1..count
    BY <1>1, <1>2
  <2>2. request \in StreamRequest /\ valid_request(request, request.start_time)
    BY <1>2, <1>3, <2>1, SMTT(30)
  <2>3. request.total_amount \in 1..total
    BY <1>4, <2>1, SMTT(30)
  <2>4. request.total_amount <= I128MAX /\ request.start_time \in 0..U64MAX
    BY <1>1, <1>4, <2>2, <2>3 DEF StreamRequest
  <2> HIDE DEF request
  <2>5. LET t == NewStream(sender, request, request.start_time)
        IN  /\ t \in Stream /\ t.start < t.end /\ t.withdrawn = 0
            /\ t.status = "Active" /\ t.total \in Nat \ {0}
    BY <1>1, <2>2, <2>4, NewStreamType
  <2> QED
    BY <2>5 DEF request
<1> HIDE DEF stream
<1>7. /\ streams' \in [0..(n - 1) -> Stream]
      /\ \A i \in 0..(counter - 1) : streams'[i] = streams[i]
      /\ \A i \in counter..(n - 1) : streams'[i] = stream(i)
  <2>1. n = counter + count
    OBVIOUS
  <2>2. \A i \in 0..(n - 1) : i < counter => i \in 0..(counter - 1)
    BY <1>1
  <2>3. \A i \in 0..(n - 1) : ~(i < counter) => i \in counter..(n - 1)
    BY <1>1, <1>5
  <2>4. \A i \in 0..(counter - 1) : i \in 0..(n - 1) /\ i < counter
    BY <1>1, <1>5
  <2>5. \A i \in counter..(n - 1) : i \in 0..(n - 1) /\ ~(i < counter)
    BY <1>1, <1>5
  <2> HIDE DEF n
  <2> QED
    BY <1>1, <1>3, <1>6, <2>1, <2>2, <2>3, <2>4, <2>5
<1>8. balance' \in [Addresses -> Nat]
  <2>1. sender \in Addresses /\ Contract \in Addresses
    BY DEF Addresses
  <2> QED
    BY <1>1, <1>3, <1>4, <2>1, TransferType
<1>9. /\ counter' = n /\ paid' = Opened(paid, n) /\ refunded' = Opened(refunded, n)
      /\ timestamp' = timestamp /\ initialized' = initialized /\ initialized'
      /\ total_supply' = total_supply /\ supply_cap' = supply_cap
      /\ untracked' = untracked + total
  BY <1>3
<1> HIDE DEF n, total
<1>10. paid' \in [0..(n - 1) -> Nat] /\ refunded' \in [0..(n - 1) -> Nat]
  BY <1>1, <1>5, <1>9, OpenedHistory
<1>11. untracked' \in Nat
  BY <1>1, <1>4, <1>9
<1>12. TypeOK'
  BY <1>1, <1>5, <1>7, <1>8, <1>9, <1>10, <1>11 DEF TypeOK
<1>13. \A i \in counter..(n - 1) : /\ streams'[i].start < streams'[i].end
                                   /\ streams'[i].withdrawn = 0
                                   /\ streams'[i].status = "Active"
                                   /\ streams'[i].total \in Nat
  BY <1>6, <1>7
<1> QED
  BY <1>5, <1>7, <1>9, <1>12, <1>13, InvOpened

LEMMA TopUpStep ==
  ASSUME Inv, NEW id \in DOMAIN streams, NEW sender \in Accounts,
         NEW amount \in Amounts, top_up(id, sender, amount)
  PROVE  Inv'
<1> DEFINE s == streams[id]
           stream == [s EXCEPT !.total = @ + amount]
<1>1. /\ is_valid_amount(amount)
      /\ s.status = "Active"
      /\ s.total + amount <= I128MAX
      /\ within_cap(total_supply + amount)
      /\ CanPay(balance, sender, amount)
      /\ balance' = Transfer(balance, sender, Contract, amount)
      /\ streams' = write_stream(id, stream)
      /\ total_supply' = total_supply + amount
      /\ UNCHANGED <<initialized, counter, supply_cap, timestamp, paid, refunded,
                     untracked>>
  BY DEF top_up
<1>2. /\ id \in 0..(counter - 1) /\ counter \in Nat
      /\ s \in Stream /\ s.total \in 1..I128MAX /\ I128MAX \in Nat
  BY StoredStream
<1>3. amount \in Nat \ {0}
  BY <1>1, VestingAssumption, StreamsAssumption DEF is_valid_amount, I128MIN
<1>4. /\ stream \in Stream /\ stream.total = s.total + amount
      /\ stream.start = s.start /\ stream.end = s.end /\ stream.status = s.status
      /\ stream.withdrawn = s.withdrawn
  BY <1>1, <1>2, <1>3 DEF Stream
<1>5. InOrder(s, paid[id], refunded[id], timestamp)
  BY InvIsInOrder
<1> HIDE DEF stream, s
<1>6. InOrder(stream, paid'[id], refunded'[id], timestamp)
  <2>1. s.withdrawn \in Nat
    BY <1>2 DEF Stream
  <2> QED
    BY <1>1, <1>2, <1>3, <1>4, <1>5, <2>1 DEF InOrder
<1>7. balance' \in [Addresses -> Nat]
  <2>1. sender \in Addresses /\ Contract \in Addresses /\ balance \in [Addresses -> Nat]
    BY DEF Addresses, Inv, TypeOK
  <2> QED
    BY <1>1, <1>3, <2>1, TransferType
<1>8. streams' \in [0..(counter - 1) -> Stream]
  <2>1. id \in 0..counter /\ id # counter
    BY <1>2
  <2> QED
    BY <1>1, <1>2, <1>4, <2>1, WriteStream
<1>9. total_supply' \in I128MIN..I128MAX
  <2>1. total_supply \in I128MIN..I128MAX /\ total_supply + amount <= I128MAX
    BY <1>1 DEF Inv, TypeOK, within_cap
  <2> QED
    BY <1>1, <1>2, <1>3, <2>1 DEF I128MIN
<1>10. TypeOK'
  BY <1>1, <1>7, <1>8, <1>9 DEF Inv, TypeOK
<1> QED
  BY <1>1, <1>4, <1>6, <1>10, InvStored

LEMMA ExtendStreamStep ==
  ASSUME Inv, NEW id \in DOMAIN streams, NEW sender \in Accounts,
         NEW new_end \in 0..U64MAX, extend_stream(id, sender, new_end)
  PROVE  Inv'
<1> DEFINE s == streams[id]
           stream == [s EXCEPT !.end = new_end]
<1>1. /\ s.status = "Active"
      /\ new_end > s.end
      /\ streams' = write_stream(id, stream)
      /\ UNCHANGED <<initialized, counter, total_supply, supply_cap, balance,
                     timestamp, paid, refunded, untracked>>
  BY DEF extend_stream
<1>2. /\ id \in 0..(counter - 1) /\ counter \in Nat
      /\ s \in Stream /\ Window(s) /\ new_end \in Nat
  BY StoredStream, StreamsAssumption
<1>3. /\ stream \in Stream /\ stream.end = new_end /\ stream.total = s.total
      /\ stream.start = s.start /\ stream.status = s.status
      /\ stream.withdrawn = s.withdrawn
  BY <1>2 DEF Stream
<1>4. InOrder(s, paid[id], refunded[id], timestamp)
  BY InvIsInOrder
<1> HIDE DEF stream, s
<1>5. InOrder(stream, paid'[id], refunded'[id], timestamp)
  BY <1>1, <1>2, <1>3, <1>4 DEF InOrder, Window
<1>6. streams' \in [0..(counter - 1) -> Stream]
  <2>1. id \in 0..counter /\ id # counter
    BY <1>2
  <2> QED
    BY <1>1, <1>2, <1>3, <2>1, WriteStream
<1>7. TypeOK'
  BY <1>1, <1>6 DEF Inv, TypeOK
<1> QED
  BY <1>1, <1>3, <1>5, <1>7, InvStored

LEMMA WithdrawStep ==
  ASSUME Inv, NEW id \in DOMAIN streams, NEW recipient \in Accounts,
         withdraw(id, recipient)
  PROVE  Inv'
<1> DEFINE s == streams[id]
           available == withdrawable(s, timestamp)
           withdrawn == s.withdrawn + available
           status == IF completes(s, withdrawn) THEN "Completed" ELSE s.status
           stream == [s EXCEPT !.withdrawn = withdrawn, !.status = status]
<1>1. /\ s.status = "Active"
      /\ available > 0
      /\ CanPay(balance, Contract, available)
      /\ streams' = write_stream(id, stream)
      /\ balance' = Transfer(balance, Contract, recipient, available)
      /\ total_supply' = reduced_supply(available)
      /\ paid' = Plus(paid, id, available)
      /\ UNCHANGED <<initialized, counter, supply_cap, timestamp, refunded, untracked>>
  BY DEF withdraw
<1>2. /\ id \in 0..(counter - 1) /\ counter \in Nat /\ timestamp \in Nat
      /\ s \in Stream /\ Window(s) /\ s.withdrawn \in 0..s.total
      /\ s.total \in 1..I128MAX /\ I128MAX \in Nat
  BY StoredStream
<1>3. /\ available \in 0..(s.total - s.withdrawn) /\ available \in Nat
      /\ withdrawn = vested(s, timestamp)
      /\ withdrawn \in 0..s.total
  <2>1. /\ available \in 0..(s.total - s.withdrawn)
        /\ available > 0 => withdrawn = vested(s, timestamp)
    BY <1>2, WithdrawableBounds
  <2> HIDE DEF available, s
  <2> QED
    BY <1>1, <1>2, <2>1
<1>4. InOrder(s, paid[id], refunded[id], timestamp)
  BY InvIsInOrder
<1>5. withdrawn >= s.total => s.end <= timestamp
  BY <1>2, <1>3, VestedAtEnd
<1>6. status \in {"Active", "Completed"} /\ (status = "Completed" <=> withdrawn >= s.total)
  BY <1>1 DEF completes
<1> HIDE DEF available, withdrawn, status, s
<1>7. /\ stream \in Stream /\ stream.total = s.total /\ stream.start = s.start
      /\ stream.end = s.end /\ stream.withdrawn = withdrawn /\ stream.status = status
  <2>1. s \in Stream /\ withdrawn \in 0..I128MAX /\ status \in Status
    BY <1>2, <1>3, <1>6 DEF Status
  <2> QED
    BY <2>1 DEF Stream
<1> HIDE DEF stream
<1>8. /\ paid \in [0..(counter - 1) -> Nat] /\ balance \in [Addresses -> Nat]
      /\ refunded' = refunded
  BY <1>1 DEF Inv, TypeOK
<1>9. /\ paid' \in [0..(counter - 1) -> Nat]
      /\ paid'[id] = paid[id] + available
      /\ \A i \in 0..(counter - 1) : i # id => paid'[i] = paid[i]
  <2>1. available \in Nat /\ id \in 0..(counter - 1) /\ paid' = Plus(paid, id, available)
    BY <1>1, <1>2, <1>3
  <2> QED
    BY <1>8, <2>1 DEF Plus
<1>10. InOrder(stream, paid'[id], refunded'[id], timestamp)
  <2>1. paid'[id] = withdrawn /\ refunded'[id] = 0
    BY <1>1, <1>4, <1>8, <1>9 DEF InOrder, withdrawn
  <2> QED
    BY <1>2, <1>3, <1>4, <1>5, <1>6, <1>7, <2>1 DEF InOrder, Window
<1>11. balance' \in [Addresses -> Nat]
  <2>1. recipient \in Addresses /\ Contract \in Addresses
    BY DEF Addresses
  <2> QED
    BY <1>1, <1>3, <1>8, <2>1, TransferType
<1>12. streams' \in [0..(counter - 1) -> Stream]
  <2>1. id \in 0..counter /\ id # counter
    BY <1>2
  <2> QED
    BY <1>1, <1>2, <1>7, <2>1, WriteStream
<1>13. total_supply' \in I128MIN..I128MAX
  BY <1>1, <1>3, ReducedSupply
<1>14. TypeOK'
  BY <1>1, <1>9, <1>11, <1>12, <1>13 DEF Inv, TypeOK
<1>15. \A i \in DOMAIN streams : i # id => paid'[i] = paid[i] /\ refunded'[i] = refunded[i]
  BY <1>1, <1>9, StoredStream
<1> QED
  BY <1>1, <1>7, <1>10, <1>14, <1>15, InvStored

LEMMA CancelStep ==
  ASSUME Inv, NEW id \in DOMAIN streams, NEW caller \in Accounts,
         cancel(id, caller)
  PROVE  Inv'
<1> DEFINE s == streams[id]
           v == vested(s, timestamp)
           recipient_paid == v - s.withdrawn
           sender_refund == unvested(s, timestamp)
           after_payout == PayOut(balance, s.recipient, recipient_paid)
           payment == IF recipient_paid > 0 THEN recipient_paid ELSE 0
           stream == [s EXCEPT !.withdrawn = v, !.status = "Cancelled"]
<1>1. /\ s.status # "Cancelled"
      /\ CanPayOut(balance, recipient_paid)
      /\ CanPayOut(after_payout, sender_refund)
      /\ streams' = write_stream(id, stream)
      /\ balance' = PayOut(after_payout, s.sender, sender_refund)
      /\ total_supply' = reduced_supply(recipient_paid + sender_refund)
      /\ paid' = Plus(paid, id, payment)
      /\ refunded' = Plus(refunded, id, sender_refund)
      /\ UNCHANGED <<initialized, counter, supply_cap, timestamp, untracked>>
  BY DEF cancel
<1>2. /\ id \in 0..(counter - 1) /\ counter \in Nat /\ timestamp \in Nat
      /\ s \in Stream /\ Window(s) /\ s.withdrawn \in 0..s.total
      /\ s.total \in 1..I128MAX /\ I128MAX \in Nat
  BY StoredStream
<1>3. v \in 0..s.total /\ sender_refund \in 0..s.total /\ v + sender_refund = s.total
  BY <1>2, VestedBounds
<1>4. InOrder(s, paid[id], refunded[id], timestamp)
  BY InvIsInOrder
<1>5. s.status = "Completed" => v = s.total
  <2>1. s.status = "Completed" => s.end <= timestamp
    BY <1>4 DEF InOrder
  <2> QED
    BY <1>2, <2>1 DEF vested, Window
<1>6. s.status \in Status /\ s.sender \in Addresses /\ s.recipient \in Addresses
  BY <1>2 DEF Stream, Addresses
<1>7. /\ paid \in [0..(counter - 1) -> Nat] /\ balance \in [Addresses -> Nat]
      /\ refunded \in [0..(counter - 1) -> Nat]
  BY StateTypes
<1>8. balance' \in [Addresses -> Nat]
  <2>1. recipient_paid \in Int /\ sender_refund \in Int
    BY <1>2, <1>3
  <2> HIDE DEF recipient_paid, sender_refund, s
  <2>2. after_payout \in [Addresses -> Nat]
    BY <1>1, <1>6, <1>7, <2>1, PayOutType
  <2> HIDE DEF after_payout
  <2> QED
    BY <1>1, <1>6, <2>1, <2>2, PayOutType
<1> HIDE DEF v, sender_refund, s
<1>9. /\ stream \in Stream /\ stream.total = s.total /\ stream.start = s.start
      /\ stream.end = s.end /\ stream.withdrawn = v /\ stream.status = "Cancelled"
  <2>1. s \in Stream /\ v \in 0..I128MAX /\ "Cancelled" \in Status
    BY <1>2, <1>3 DEF Status
  <2> QED
    BY <2>1 DEF Stream
<1> HIDE DEF stream
<1>10. payment \in Nat /\ sender_refund \in Nat /\ recipient_paid + sender_refund \in Nat
  BY <1>2, <1>3
<1> HIDE DEF recipient_paid, payment
<1>11. /\ paid' \in [0..(counter - 1) -> Nat]
       /\ paid'[id] = paid[id] + payment
       /\ \A i \in 0..(counter - 1) : i # id => paid'[i] = paid[i]
  <2>1. payment \in Nat /\ id \in 0..(counter - 1) /\ paid' = Plus(paid, id, payment)
    BY <1>1, <1>2, <1>10
  <2> QED
    BY <1>7, <2>1, SMTT(30) DEF Plus
<1>12. /\ refunded' \in [0..(counter - 1) -> Nat]
       /\ refunded'[id] = refunded[id] + sender_refund
       /\ \A i \in 0..(counter - 1) : i # id => refunded'[i] = refunded[i]
  <2>1. sender_refund \in Nat /\ id \in 0..(counter - 1) /\ refunded' = Plus(refunded, id, sender_refund)
    BY <1>1, <1>2, <1>10
  <2> QED
    BY <1>7, <2>1, SMTT(30) DEF Plus
<1>13. v <= paid'[id] /\ v + refunded'[id] = s.total
  <2>1. CASE s.status = "Active"
    <3>1. paid[id] = s.withdrawn /\ refunded[id] = 0
      BY <1>4, <2>1 DEF InOrder
    <3> QED
      BY <1>2, <1>3, <1>11, <1>12, <3>1, SMTT(30) DEF payment, recipient_paid
  <2>2. CASE s.status = "Completed"
    <3>1. paid[id] = s.total /\ refunded[id] = 0 /\ s.withdrawn = s.total
      BY <1>4, <2>2 DEF InOrder
    <3> QED
      BY <1>2, <1>3, <1>5, <1>11, <1>12, <2>2, <3>1, SMTT(30) DEF payment, recipient_paid
  <2> QED
    BY <1>1, <1>6, <2>1, <2>2 DEF Status
<1>14. InOrder(stream, paid'[id], refunded'[id], timestamp)
  BY <1>2, <1>3, <1>9, <1>13 DEF InOrder, Window
<1>15. streams' \in [0..(counter - 1) -> Stream]
  <2>1. id \in 0..counter /\ id # counter
    BY <1>2
  <2> QED
    BY <1>1, <1>2, <1>9, <2>1, WriteStream
<1>16. total_supply' \in I128MIN..I128MAX
  BY <1>1, <1>10, ReducedSupply
<1>17. TypeOK'
  BY <1>1, <1>8, <1>11, <1>12, <1>15, <1>16 DEF Inv, TypeOK
<1>18. \A i \in DOMAIN streams : i # id => paid'[i] = paid[i] /\ refunded'[i] = refunded[i]
  BY <1>11, <1>12, StoredStream
<1> QED
  BY <1>1, <1>9, <1>14, <1>17, <1>18, InvStored

LEMMA InitializeStep ==
  ASSUME Inv, initialize
  PROVE  Inv'
<1>1. /\ counter' = 0 /\ total_supply' = 0 /\ supply_cap' = I128MAX /\ initialized'
      /\ UNCHANGED <<streams, balance, timestamp, paid, refunded, untracked>>
  BY DEF initialize, DEFAULT_SUPPLY_CAP
<1>2. counter = 0
  BY DEF Inv, NothingBeforeInitialize, initialize
<1>3. /\ total_supply' \in I128MIN..I128MAX /\ supply_cap' \in 1..I128MAX
      /\ counter' \in 0..U64MAX
  BY <1>1, VestingAssumption, StreamsAssumption DEF I128MIN
<1>4. initialized' \in BOOLEAN
  BY DEF initialize
<1>5. TypeOK'
  BY <1>1, <1>2, <1>3, <1>4 DEF Inv, TypeOK
<1>6. NothingBeforeInitialize'
  BY <1>1 DEF NothingBeforeInitialize
<1>7. timestamp <= timestamp'
  BY <1>1, StreamsAssumption DEF Inv, TypeOK
<1> QED
  BY <1>1, <1>5, <1>6, <1>7, InvKept

LEMMA SetSupplyCapStep ==
  ASSUME Inv, NEW new_cap \in Caps, set_supply_cap(new_cap)
  PROVE  Inv'
<1>1. supply_cap' \in 1..I128MAX
  BY VestingAssumption, StreamsAssumption DEF set_supply_cap, I128MIN
<1>2. TypeOK'
  BY <1>1 DEF Inv, TypeOK, set_supply_cap
<1>3. NothingBeforeInitialize'
  BY DEF Inv, NothingBeforeInitialize, set_supply_cap
<1>4. timestamp <= timestamp' /\ UNCHANGED <<streams, paid, refunded>>
  BY StreamsAssumption DEF Inv, TypeOK, set_supply_cap
<1> QED
  BY <1>2, <1>3, <1>4, InvKept

LEMMA CloseLedgerStep ==
  ASSUME Inv, close_ledger
  PROVE  Inv'
<1>1. timestamp \in 0..U64MAX /\ timestamp < U64MAX /\ timestamp' = timestamp + 1
  BY DEF Inv, TypeOK, close_ledger
<1>2. timestamp' \in 0..U64MAX /\ timestamp <= timestamp'
  BY <1>1, StreamsAssumption
<1>3. TypeOK'
  BY <1>2 DEF Inv, TypeOK, close_ledger
<1>4. NothingBeforeInitialize' /\ UNCHANGED <<streams, paid, refunded>>
  BY DEF Inv, NothingBeforeInitialize, close_ledger
<1> QED
  BY <1>2, <1>3, <1>4, InvKept

LEMMA InvStep == Inv /\ [Next]_vars => Inv'
<1> SUFFICES ASSUME Inv, [Next]_vars PROVE Inv'
  OBVIOUS
<1>1. CASE initialize
  BY <1>1, InitializeStep
<1>2. ASSUME NEW sender \in Accounts, NEW request \in Requests,
             create_stream(sender, request)
      PROVE  Inv'
  BY <1>2, CreateStreamStep
<1>3. ASSUME NEW sender \in Accounts, NEW requests \in Batches,
             create_stream_batch(sender, requests)
      PROVE  Inv'
  BY <1>3, CreateStreamBatchStep
<1>4. ASSUME NEW id \in DOMAIN streams, NEW sender \in Accounts,
             NEW amount \in Amounts, top_up(id, sender, amount)
      PROVE  Inv'
  BY <1>4, TopUpStep
<1>5. ASSUME NEW id \in DOMAIN streams, NEW sender \in Accounts,
             NEW new_end \in 0..U64MAX, extend_stream(id, sender, new_end)
      PROVE  Inv'
  BY <1>5, ExtendStreamStep
<1>6. ASSUME NEW id \in DOMAIN streams, NEW recipient \in Accounts,
             withdraw(id, recipient)
      PROVE  Inv'
  BY <1>6, WithdrawStep
<1>7. ASSUME NEW id \in DOMAIN streams, NEW caller \in Accounts, cancel(id, caller)
      PROVE  Inv'
  BY <1>7, CancelStep
<1>8. ASSUME NEW new_cap \in Caps, set_supply_cap(new_cap) PROVE Inv'
  BY <1>8, SetSupplyCapStep
<1>9. CASE close_ledger
  BY <1>9, CloseLedgerStep
<1>10. CASE UNCHANGED vars
  BY <1>10 DEF vars, Inv, TypeOK, StreamsWellFormed, PayoutsMatchRecord,
               NothingBeforeInitialize
<1> QED
  BY <1>1, <1>2, <1>3, <1>4, <1>5, <1>6, <1>7, <1>8, <1>9, <1>10 DEF Next

\* The invariant the other theorems rest on, after any sequence of calls.
THEOREM Invariance == Spec => []Inv
  BY InvInit, InvStep, PTL DEF Spec

\* The types of the storage entries, of every balance and of the token ledger:
\* no entrypoint stores a value its type cannot hold.
THEOREM TypeCorrect == Spec => []TypeOK
<1>1. Inv => TypeOK
  BY DEF Inv
<1> QED
  BY <1>1, Invariance, PTL

\* A stored stream has a window, is never overdrawn by withdrawals, and is
\* Completed only when everything was pulled after the end.
THEOREM StreamsStayWellFormed == Spec => []StreamsWellFormed
<1>1. Inv => StreamsWellFormed
  BY DEF Inv
<1> QED
  BY <1>1, Invariance, PTL

\* The tokens moved for a stream agree with its record, in every status.
THEOREM PayoutsAgree == Spec => []PayoutsMatchRecord
<1>1. Inv => PayoutsMatchRecord
  BY DEF Inv
<1> QED
  BY <1>1, Invariance, PTL
=============================================================================
