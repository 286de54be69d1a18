-------------------------- MODULE AccountingProofs --------------------------
(***************************************************************************)
(* The two sums of module Streams: total_supply and the contract's token   *)
(* balance, accounted for stream by stream.  Each action opens streams at  *)
(* the end of the storage or changes a single one, so each sum changes by  *)
(* what the action adds or by the difference it makes to one stream.  From *)
(* both follows when the contract covers its active streams.               *)
(***************************************************************************)
EXTENDS StreamsProofs

\* What the contract holds for stream i of the escrow, and what stream i
\* accounts for in the contract's balance.
HeldAt == [i \in Nat |-> IF i < counter THEN Held(streams[i]) ELSE 0]

Owed(i) == Held(streams[i]) + Stranded(i) - Clawback(i)

OwedAt == [i \in Nat |-> IF i < counter THEN Owed(i) ELSE 0]

LEMMA SumsOf ==
  /\ Escrow = SumTo(HeldAt)[counter]
  /\ BalanceAccounted <=> balance[Contract] = SumTo(OwedAt)[counter]
  BY DEF Escrow, HeldAt, BalanceAccounted, OwedAt, Owed

Summands ==
  /\ counter \in Nat
  /\ HeldAt \in [Nat -> Int]
  /\ OwedAt \in [Nat -> Int]
  /\ \A i \in 0..(counter - 1) : /\ HeldAt[i] = Held(streams[i])
                                 /\ HeldAt[i] \in Nat
                                 /\ OwedAt[i] = Owed(i)

LEMMA HeldType == Inv => Summands
<1> SUFFICES ASSUME Inv PROVE Summands
  OBVIOUS
<1>1. counter \in Nat /\ DOMAIN streams = 0..(counter - 1)
  BY StreamsAssumption DEF Inv, TypeOK
<1>2. ASSUME NEW i \in 0..(counter - 1)
      PROVE  Held(streams[i]) \in Nat /\ Owed(i) \in Int
  <2>1. /\ streams[i].total \in Nat /\ streams[i].withdrawn \in 0..streams[i].total
    BY <1>1, StoredStream DEF Window
  <2>2. paid[i] \in Nat
    BY DEF Inv, TypeOK
  <2>3. Held(streams[i]) \in Nat
    BY <2>1 DEF Held
  <2>4. Stranded(i) \in Int /\ Clawback(i) \in Int
    BY <2>1, <2>2 DEF Stranded, Clawback
  <2> QED
    BY <2>3, <2>4 DEF Owed
<1>3. \A i \in Nat : i < counter => i \in 0..(counter - 1)
  BY <1>1
<1>4. HeldAt \in [Nat -> Int]
  BY <1>2, <1>3 DEF HeldAt
<1>5. OwedAt \in [Nat -> Int]
  BY <1>2, <1>3 DEF OwedAt
<1>6. ASSUME NEW i \in 0..(counter - 1)
      PROVE  HeldAt[i] = Held(streams[i]) /\ OwedAt[i] = Owed(i)
  <2>1. i \in Nat /\ i < counter
    BY <1>1
  <2> QED
    BY <2>1 DEF HeldAt, OwedAt
<1> QED
  BY <1>1, <1>2, <1>4, <1>5, <1>6 DEF Summands

\* The escrow is at least what it holds for each of its streams.
LEMMA EscrowCovers ==
  ASSUME Inv, NEW id \in DOMAIN streams
  PROVE  Escrow \in Nat /\ Held(streams[id]) <= Escrow
<1>1. id \in 0..(counter - 1)
  BY StoredStream
<1>2. \A i \in 0..(counter - 1) : HeldAt[i] >= 0
  BY HeldType DEF Summands
<1>3. SumTo(HeldAt)[counter] \in Nat /\ HeldAt[id] <= SumTo(HeldAt)[counter]
  BY <1>1, <1>2, HeldType, SumNat DEF Summands
<1> QED
  BY <1>1, <1>3, HeldType, SumsOf DEF Summands

LEMMA SumsType ==
  ASSUME Inv
  PROVE  Escrow \in Int /\ SumTo(OwedAt)[counter] \in Int
  BY HeldType, SumsOf, SumType DEF Summands

-----------------------------------------------------------------------------
(* How the sums change                                                     *)

LEMMA SumsInit ==
  ASSUME Init
  PROVE  Escrow = 0 /\ SumTo(OwedAt)[counter] = 0
<1>1. counter = 0 /\ Inv
  BY InvInit DEF Init
<1> QED
  BY <1>1, HeldType, SumsOf, SumStep DEF Summands

\* Storing one stream changes both sums by the difference to that stream.
LEMMA SumsStored ==
  ASSUME Inv, Inv', NEW id \in DOMAIN streams, NEW stream \in Stream,
         streams' = write_stream(id, stream), counter' = counter,
         \A i \in DOMAIN streams : i # id => paid'[i] = paid[i]
  PROVE  /\ streams'[id] = stream
         /\ Escrow' = Escrow + Held(stream) - Held(streams[id])
         /\ SumTo(OwedAt)[counter]' = SumTo(OwedAt)[counter] + Owed(id)' - Owed(id)
<1>1. /\ counter \in Nat /\ id \in 0..(counter - 1) /\ id \in 0..counter /\ id # counter
      /\ DOMAIN streams = 0..(counter - 1)
  BY StoredStream
<1>2. /\ streams'[id] = stream
      /\ \A i \in 0..(counter - 1) : i # id => streams'[i] = streams[i]
  <2>1. DOMAIN streams \cup {id} = 0..(counter - 1)
    BY <1>1
  <2>2. streams' = [i \in 0..(counter - 1) |-> IF i = id THEN stream ELSE streams[i]]
    BY <2>1 DEF write_stream
  <2> QED
    BY <1>1, <2>2
<1>3. /\ HeldAt \in [Nat -> Int] /\ OwedAt \in [Nat -> Int]
      /\ \A i \in 0..(counter - 1) : HeldAt[i] = Held(streams[i]) /\ OwedAt[i] = Owed(i)
  BY HeldType DEF Summands
<1>4. /\ HeldAt' \in [Nat -> Int] /\ OwedAt' \in [Nat -> Int]
      /\ \A i \in 0..(counter - 1) : HeldAt'[i] = Held(streams'[i]) /\ OwedAt'[i] = Owed(i)'
  <2>1. /\ HeldAt' \in [Nat -> Int] /\ OwedAt' \in [Nat -> Int]
        /\ \A i \in 0..(counter' - 1) : HeldAt'[i] = Held(streams'[i]) /\ OwedAt'[i] = Owed(i)'
    <3>1. Summands'
      BY HeldType, PTL
    <3> QED
      BY <3>1 DEF Summands
  <2> QED
    BY <2>1
<1>5. ASSUME NEW i \in 0..(counter - 1), i # id
      PROVE  HeldAt[i] = HeldAt'[i] /\ OwedAt[i] = OwedAt'[i]
  <2>1. streams'[i] = streams[i] /\ paid'[i] = paid[i]
    BY <1>1, <1>2, <1>5
  <2>2. Owed(i)' = Owed(i)
    BY <2>1 DEF Owed, Stranded, Clawback
  <2> QED
    BY <1>3, <1>4, <2>1, <2>2
<1>6. SumTo(HeldAt')[counter] = SumTo(HeldAt)[counter] + HeldAt'[id] - HeldAt[id]
  BY <1>1, <1>3, <1>4, <1>5, SumUpdate
<1>7. SumTo(OwedAt')[counter] = SumTo(OwedAt)[counter] + OwedAt'[id] - OwedAt[id]
  BY <1>1, <1>3, <1>4, <1>5, SumUpdate
<1>8. Escrow' = SumTo(HeldAt')[counter]
  <2>1. (Escrow = SumTo(HeldAt)[counter])'
    BY SumsOf, PTL
  <2> QED
    BY <2>1
<1>9. SumTo(OwedAt)[counter]' = SumTo(OwedAt')[counter]
  OBVIOUS
<1> QED
  BY <1>1, <1>2, <1>3, <1>4, <1>6, <1>7, <1>8, <1>9, SumsOf

\* Opening n streams adds what they hold to both sums.
LEMMA SumsOpened ==
  ASSUME Inv, Inv', NEW n \in Nat, counter' = counter + n, NEW h \in [Nat -> Int],
         \A i \in 0..(counter - 1) : streams'[i] = streams[i] /\ paid'[i] = paid[i],
         \A i \in counter..(counter + n - 1) : /\ Held(streams'[i]) = h[i - counter]
                                              /\ Owed(i)' = h[i - counter]
  PROVE  /\ Escrow' = Escrow + SumTo(h)[n]
         /\ SumTo(OwedAt)[counter]' = SumTo(OwedAt)[counter] + SumTo(h)[n]
<1>1. /\ counter \in Nat
      /\ HeldAt \in [Nat -> Int] /\ OwedAt \in [Nat -> Int]
      /\ \A i \in 0..(counter - 1) : HeldAt[i] = Held(streams[i]) /\ OwedAt[i] = Owed(i)
  BY HeldType DEF Summands
<1>2. /\ HeldAt' \in [Nat -> Int] /\ OwedAt' \in [Nat -> Int]
      /\ \A i \in 0..(counter + n - 1) :
           HeldAt'[i] = Held(streams'[i]) /\ OwedAt'[i] = Owed(i)'
  <2>1. Summands'
    BY HeldType, PTL
  <2>2. /\ HeldAt' \in [Nat -> Int] /\ OwedAt' \in [Nat -> Int]
        /\ \A i \in 0..(counter' - 1) :
             HeldAt'[i] = Held(streams'[i]) /\ OwedAt'[i] = Owed(i)'
    BY <2>1 DEF Summands
  <2>3. counter' - 1 = counter + n - 1
    BY <1>1
  <2> QED
    BY <2>2, <2>3
<1>3. ASSUME NEW i \in 0..(counter - 1)
      PROVE  HeldAt'[i] = HeldAt[i] /\ OwedAt'[i] = OwedAt[i]
  <2>1. i \in 0..(counter + n - 1)
    BY <1>1
  <2>2. streams'[i] = streams[i] /\ Owed(i)' = Owed(i)
    BY DEF Owed, Stranded, Clawback
  <2> QED
    BY <1>1, <1>2, <2>1, <2>2
<1>4. ASSUME NEW i \in counter..(counter + n - 1)
      PROVE  HeldAt'[i] = h[i - counter] /\ OwedAt'[i] = h[i - counter]
  <2>1. i \in 0..(counter + n - 1)
    BY <1>1
  <2> QED
    BY <1>2, <2>1
<1>5. SumTo(HeldAt')[counter + n] = SumTo(HeldAt)[counter] + SumTo(h)[n]
  <2> DEFINE f == HeldAt
             g == HeldAt'
  <2>1. counter \in Nat /\ f \in [Nat -> Int] /\ g \in [Nat -> Int]
    BY <1>1, <1>2
  <2>2. Appended(g, f, h, counter, n)
    BY <1>3, <1>4 DEF Appended
  <2> HIDE DEF f, g
  <2>3. SumTo(g)[counter + n] = SumTo(f)[counter] + SumTo(h)[n]
    BY <2>1, <2>2, SumAppend, SMTT(30)
  <2> QED
    BY <2>3 DEF f, g
<1>6. SumTo(OwedAt')[counter + n] = SumTo(OwedAt)[counter] + SumTo(h)[n]
  <2> DEFINE f == OwedAt
             g == OwedAt'
  <2>1. counter \in Nat /\ f \in [Nat -> Int] /\ g \in [Nat -> Int]
    BY <1>1, <1>2
  <2>2. Appended(g, f, h, counter, n)
    BY <1>3, <1>4 DEF Appended
  <2> HIDE DEF f, g
  <2>3. SumTo(g)[counter + n] = SumTo(f)[counter] + SumTo(h)[n]
    BY <2>1, <2>2, SumAppend, SMTT(30)
  <2> QED
    BY <2>3 DEF f, g
<1>7. (Escrow = SumTo(HeldAt)[counter])'
  BY SumsOf, PTL
<1> QED
  BY <1>5, <1>6, <1>7, SumsOf

-----------------------------------------------------------------------------
(* Both sums are kept by every action                                      *)

\* A supply that saturated is only ever set higher: what is tracked of the
\* escrow stays within total_supply however much batches brought in.
SupplyCovers == Escrow <= total_supply + untracked

\* And it never counts more than the escrow: a reduction that underflows the
\* i128 leaves 0, which is no more than what the other streams hold.
SupplyWithinEscrow == total_supply <= Escrow

\* SupplyAccounted and BalanceAccounted, over the sums named above.
Accounted ==
  /\ SupplyAccounted
  /\ SupplyCovers
  /\ SupplyWithinEscrow
  /\ balance[Contract] = SumTo(OwedAt)[counter]

LEMMA AccountedIsBoth == Accounted => SupplyAccounted /\ BalanceAccounted
  BY SumsOf DEF Accounted

\* What opening streams of n tokens in all does, tracked or untracked.
LEMMA AccountedOpened ==
  ASSUME Inv, Accounted, NEW n \in Nat,
         Escrow' = Escrow + n,
         SumTo(OwedAt)[counter]' = SumTo(OwedAt)[counter] + n,
         balance'[Contract] = balance[Contract] + n,
         \/ total_supply' = total_supply + n /\ untracked' = untracked
         \/ total_supply' = total_supply /\ untracked' = untracked + n
  PROVE  Accounted'
<1>1. /\ Escrow \in Int /\ SumTo(OwedAt)[counter] \in Int
      /\ total_supply \in Int /\ untracked \in Nat /\ I128MAX \in Nat
  BY SumsType, VestingAssumption, SMTT(30) DEF Inv, TypeOK, I128MIN
<1>2. untracked' <= I128MAX => total_supply' + untracked' = Escrow'
  BY <1>1, SMTT(30) DEF Accounted, SupplyAccounted
<1>3. Escrow' <= total_supply' + untracked'
  BY <1>1, SMTT(30) DEF Accounted, SupplyCovers
<1>4. balance'[Contract] = SumTo(OwedAt)[counter]'
  BY <1>1 DEF Accounted
<1>5. total_supply' <= Escrow'
  BY <1>1, SMTT(30) DEF Accounted, SupplyWithinEscrow
<1> QED
  BY <1>2, <1>3, <1>4, <1>5 DEF Accounted, SupplyAccounted, SupplyCovers, SupplyWithinEscrow

\* What releasing tokens of a stream does: amount from the escrow, of which
\* out leave the contract.
LEMMA AccountedReleased ==
  ASSUME Inv, Accounted, NEW id \in DOMAIN streams, NEW amount \in Nat,
         amount <= Held(streams[id]), NEW out \in Int,
         Escrow' = Escrow - amount,
         SumTo(OwedAt)[counter]' = SumTo(OwedAt)[counter] - out,
         balance'[Contract] = balance[Contract] - out,
         total_supply' = reduced_supply(amount), untracked' = untracked
  PROVE  Accounted'
<1>1. /\ Escrow \in Nat /\ SumTo(OwedAt)[counter] \in Int
      /\ total_supply \in Int /\ untracked \in Nat /\ I128MAX \in Nat
      /\ amount <= Escrow
  <2>1. Held(streams[id]) \in Int
    BY StoredStream DEF Held, Window
  <2>2. Escrow \in Nat /\ Held(streams[id]) <= Escrow /\ SumTo(OwedAt)[counter] \in Int
    BY EscrowCovers, SumsType
  <2>3. total_supply \in Int /\ untracked \in Nat /\ I128MAX \in Nat
    BY VestingAssumption DEF Inv, TypeOK, I128MIN
  <2> QED
    BY <2>1, <2>2, <2>3
<1>2. ASSUME untracked <= I128MAX
      PROVE  total_supply' + untracked = Escrow'
  <2>1. total_supply + untracked = Escrow
    BY <1>2 DEF Accounted, SupplyAccounted
  <2>2. ~(total_supply - amount < I128MIN)
    BY <1>1, <1>2, <2>1 DEF I128MIN
  <2>3. total_supply' = total_supply - amount
    BY <2>2 DEF reduced_supply
  <2>4. (total_supply - amount) + untracked = Escrow - amount
    BY <1>1, <2>1
  <2> QED
    BY <2>3, <2>4
<1>3. Escrow' <= total_supply' + untracked'
  <2>1. Escrow <= total_supply + untracked
    BY DEF Accounted, SupplyCovers
  <2>2. total_supply' \in Int /\ total_supply' >= total_supply - amount
    BY <1>1 DEF reduced_supply, I128MIN
  <2> QED
    BY <1>1, <2>1, <2>2
<1>4. balance'[Contract] = SumTo(OwedAt)[counter]'
  BY <1>1 DEF Accounted
<1>5. total_supply' <= Escrow'
  <2>1. total_supply <= Escrow
    BY DEF Accounted, SupplyWithinEscrow
  <2>2. total_supply' \in {0, total_supply - amount}
    BY DEF reduced_supply
  <2> QED
    BY <1>1, <2>1, <2>2
<1> QED
  BY <1>2, <1>3, <1>4, <1>5 DEF Accounted, SupplyAccounted, SupplyCovers, SupplyWithinEscrow

LEMMA AccountedInit == Init => Accounted
<1> SUFFICES ASSUME Init PROVE Accounted
  OBVIOUS
<1>1. balance[Contract] = 0
  BY DEF Init, Addresses
<1>2. total_supply = 0 /\ untracked = 0
  BY DEF Init
<1> QED
  BY <1>1, <1>2, SumsInit
  DEF Accounted, SupplyAccounted, SupplyCovers, SupplyWithinEscrow

LEMMA AccountedKept ==
  ASSUME Inv, Accounted,
         UNCHANGED <<streams, counter, balance, paid, total_supply, untracked>>
  PROVE  Accounted'
<1>1. OwedAt' = OwedAt /\ HeldAt' = HeldAt
  BY DEF OwedAt, HeldAt, Owed, Stranded, Clawback
<1>2. Escrow' = Escrow
  <2>1. (Escrow = SumTo(HeldAt)[counter])'
    BY SumsOf, PTL
  <2> QED
    BY <1>1, <2>1, SumsOf
<1> QED
  BY <1>1, <1>2 DEF Accounted, SupplyAccounted, SupplyCovers, SupplyWithinEscrow

\* What a new stream accounts for: its whole amount.
LEMMA OwedNew ==
  ASSUME NEW i, paid'[i] = 0, streams'[i].status = "Active", streams'[i].withdrawn = 0,
         streams'[i].total \in Nat
  PROVE  Held(streams'[i]) = streams'[i].total /\ Owed(i)' = streams'[i].total
<1>1. Held(streams'[i]) = streams'[i].total
  BY DEF Held
<1>2. Stranded(i)' = 0 /\ Clawback(i)' = 0
  BY DEF Stranded, Clawback
<1>3. Owed(i)' = Held(streams'[i]) + Stranded(i)' - Clawback(i)'
  BY DEF Owed
<1> QED
  BY <1>1, <1>2, <1>3

LEMMA CreateStreamAccounted ==
  ASSUME Inv, Inv', Accounted, NEW sender \in Accounts, NEW request \in Requests,
         create_stream(sender, request)
  PROVE  Accounted'
<1> DEFINE start == normalize_start_time(timestamp, request.start_time)
           stream == NewStream(sender, request, start)
           amount == request.total_amount
           h == [i \in Nat |-> amount]
<1>1. /\ valid_request(request, start)
      /\ balance' = Transfer(balance, sender, Contract, amount)
      /\ streams' = write_stream(counter, stream)
      /\ counter' = counter + 1
      /\ total_supply' = total_supply + amount
      /\ paid' = Opened(paid, counter + 1)
      /\ untracked' = untracked
  BY DEF create_stream
<1>2. /\ counter \in Nat /\ balance \in [Addresses -> Nat]
      /\ streams \in [0..(counter - 1) -> Stream]
      /\ paid \in [0..(counter - 1) -> Nat]
      /\ sender \in Addresses /\ Contract \in Addresses /\ sender # Contract
  <2>1. sender \in Addresses /\ Contract \in Addresses /\ sender # Contract
    BY StreamsAssumption DEF Addresses
  <2>2. /\ counter \in Nat /\ balance \in [Addresses -> Nat]
        /\ streams \in [0..(counter - 1) -> Stream]
        /\ paid \in [0..(counter - 1) -> Nat]
    BY StateTypes
  <2> QED
    BY <2>1, <2>2
<1>3. amount \in Nat
  <2>1. MIN_VALID_AMOUNT \in Nat /\ amount \in Int
    BY VestingAssumption, StreamsAssumption DEF StreamRequest, I128MIN
  <2> QED
    BY <1>1, <2>1 DEF valid_request, is_valid_amount
<1>4. stream.status = "Active" /\ stream.withdrawn = 0 /\ stream.total = amount
  BY DEF NewStream
<1> HIDE DEF start, stream, amount
<1>5. /\ streams'[counter] = stream /\ paid'[counter] = 0
      /\ \A i \in 0..(counter - 1) : streams'[i] = streams[i] /\ paid'[i] = paid[i]
  BY <1>1, <1>2 DEF write_stream, Opened
<1>6. Held(streams'[counter]) = amount /\ \A i : i = counter => Owed(i)' = amount
  BY <1>3, <1>4, <1>5, OwedNew
<1>7. h \in [Nat -> Int] /\ \A i \in Nat : h[i] = amount
  BY <1>3
<1> HIDE DEF h
<1>8. SumTo(h)[1] = amount
  <2>1. SumTo(h)[0] = 0 /\ SumTo(h)[0 + 1] = SumTo(h)[0] + h[0]
    BY <1>7, SumStep
  <2> QED
    BY <1>3, <1>7, <2>1
<1>9. ASSUME NEW i \in counter..(counter + 1 - 1)
      PROVE  Held(streams'[i]) = h[i - counter] /\ Owed(i)' = h[i - counter]
  <2>1. i = counter /\ i - counter = 0
    BY <1>2
  <2> QED
    BY <1>6, <1>7, <2>1
<1>10. /\ Escrow' = Escrow + amount
       /\ SumTo(OwedAt)[counter]' = SumTo(OwedAt)[counter] + amount
  <2>1. /\ Escrow' = Escrow + SumTo(h)[1]
        /\ SumTo(OwedAt)[counter]' = SumTo(OwedAt)[counter] + SumTo(h)[1]
    BY <1>1, <1>5, <1>7, <1>9, SumsOpened
  <2> QED
    BY <1>8, <2>1
<1>11. balance'[Contract] = balance[Contract] + amount
  BY <1>1, <1>2, <1>3 DEF Transfer
<1> QED
  BY <1>1, <1>3, <1>10, <1>11, AccountedOpened

LEMMA CreateStreamBatchAccounted ==
  ASSUME Inv, Inv', Accounted, NEW sender \in Accounts, NEW requests \in Batches,
         create_stream_batch(sender, requests)
  PROVE  Accounted'
<1> DEFINE count == Len(requests)
           total == aggregate_amount(requests)
           h == BatchAmounts(requests)
<1>1. /\ \A i \in 1..count : valid_request(requests[i], requests[i].start_time)
      /\ balance' = Transfer(balance, sender, Contract, total)
      /\ streams' = [i \in 0..(counter + count - 1) |->
           IF i < counter THEN streams[i]
           ELSE NewStream(sender, requests[i - counter + 1],
                          requests[i - counter + 1].start_time)]
      /\ counter' = counter + count
      /\ paid' = Opened(paid, counter + count)
      /\ total_supply' = total_supply
      /\ untracked' = untracked + total
  BY DEF create_stream_batch
<1>2. /\ counter \in Nat /\ balance \in [Addresses -> Nat]
      /\ streams \in [0..(counter - 1) -> Stream]
      /\ paid \in [0..(counter - 1) -> Nat]
      /\ sender \in Addresses /\ Contract \in Addresses /\ sender # Contract
  <2>1. sender \in Addresses /\ Contract \in Addresses /\ sender # Contract
    BY StreamsAssumption DEF Addresses
  <2>2. /\ counter \in Nat /\ balance \in [Addresses -> Nat]
        /\ streams \in [0..(counter - 1) -> Stream]
        /\ paid \in [0..(counter - 1) -> Nat]
    BY StateTypes
  <2> QED
    BY <2>1, <2>2
<1>3. requests \in Seq(StreamRequest) /\ count \in Nat
  BY StreamsAssumption
<1>4. /\ h \in [Nat -> Int] /\ total = SumTo(h)[count] /\ total \in Nat
      /\ \A i \in 1..count : requests[i].total_amount \in 1..total
  BY <1>1, <1>3, Aggregate
<1>5. \A i \in 0..(counter - 1) : streams'[i] = streams[i] /\ paid'[i] = paid[i]
  BY <1>1, <1>2, <1>3 DEF Opened
<1>6. ASSUME NEW i \in counter..(counter + count - 1)
      PROVE  Held(streams'[i]) = h[i - counter] /\ Owed(i)' = h[i - counter]
  <2> DEFINE k == i - counter
  <2>1. /\ k \in Nat /\ k < count /\ k + 1 \in 1..count /\ ~(i < counter)
        /\ i \in 0..(counter + count - 1)
    BY <1>2, <1>3
  <2>2. streams'[i] = NewStream(sender, requests[k + 1], requests[k + 1].start_time)
    BY <1>1, <2>1
  <2>3. h[k] = requests[k + 1].total_amount
    BY <2>1 DEF BatchAmounts
  <2>4. paid'[i] = 0
    <3> DEFINE n == counter + count
    <3>1. n \in Nat /\ counter <= n /\ i \in counter..(n - 1) /\ paid' = Opened(paid, n)
      BY <1>1, <1>2, <1>3
    <3> HIDE DEF n
    <3>2. \A j \in counter..(n - 1) : Opened(paid, n)[j] = 0
      BY <3>1, OpenedHistory
    <3> QED
      BY <3>1, <3>2
  <2>5. requests[k + 1].total_amount \in Nat
    BY <1>4, <2>1, SMTT(30)
  <2> HIDE DEF k, h
  <2>6. /\ streams'[i].status = "Active" /\ streams'[i].withdrawn = 0
        /\ streams'[i].total = h[k] /\ h[k] \in Nat
    BY <2>2, <2>3, <2>5 DEF NewStream
  <2>7. Held(streams'[i]) = h[k] /\ Owed(i)' = h[k]
    BY <2>4, <2>6, OwedNew
  <2> QED
    BY <2>7 DEF k
<1> HIDE DEF h, total, count
<1>7. /\ Escrow' = Escrow + total
      /\ SumTo(OwedAt)[counter]' = SumTo(OwedAt)[counter] + total
  BY <1>1, <1>3, <1>4, <1>5, <1>6, SumsOpened
<1>8. balance'[Contract] = balance[Contract] + total
  BY <1>1, <1>2, <1>4 DEF Transfer
<1> QED
  BY <1>1, <1>4, <1>7, <1>8, AccountedOpened

LEMMA TopUpAccounted ==
  ASSUME Inv, Inv', Accounted, NEW id \in DOMAIN streams, NEW sender \in Accounts,
         NEW amount \in Amounts, top_up(id, sender, amount)
  PROVE  Accounted'
<1> DEFINE s == streams[id]
           stream == [s EXCEPT !.total = @ + amount]
<1>1. /\ is_valid_amount(amount)
      /\ s.status = "Active"
      /\ s.total + amount <= I128MAX
      /\ balance' = Transfer(balance, sender, Contract, amount)
      /\ streams' = write_stream(id, stream)
      /\ total_supply' = total_supply + amount
      /\ UNCHANGED <<counter, paid, untracked>>
  BY DEF top_up
<1>2. /\ s \in Stream /\ s.total \in 1..I128MAX /\ I128MAX \in Nat
      /\ s.withdrawn \in 0..s.total
  BY StoredStream
<1>3. amount \in Nat
  BY <1>1, VestingAssumption, StreamsAssumption DEF is_valid_amount, I128MIN
<1>4. /\ stream \in Stream /\ stream.total = s.total + amount
      /\ stream.status = "Active" /\ stream.withdrawn = s.withdrawn
      /\ stream.recipient = s.recipient
  BY <1>1, <1>2, <1>3 DEF Stream
<1> HIDE DEF stream
<1>5. /\ streams'[id] = stream
      /\ Escrow' = Escrow + Held(stream) - Held(s)
      /\ SumTo(OwedAt)[counter]' = SumTo(OwedAt)[counter] + Owed(id)' - Owed(id)
  BY <1>1, <1>4, SumsStored
<1>6. Held(s) \in Int /\ Held(stream) = Held(s) + amount
  BY <1>1, <1>2, <1>3, <1>4 DEF Held
<1>7. Owed(id) \in Int /\ Owed(id)' = Owed(id) + amount
  <2>1. paid[id] \in Nat
    BY StoredStream DEF Inv, TypeOK
  <2>2. Stranded(id) \in Int /\ Clawback(id) = 0
    BY <1>1, <2>1 DEF Stranded, Clawback
  <2>3. Stranded(id)' = Stranded(id) /\ Clawback(id)' = 0
    BY <1>1, <1>4, <1>5 DEF Stranded, Clawback
  <2>4. /\ Owed(id)' = Held(stream) + Stranded(id)' - Clawback(id)'
        /\ Owed(id) = Held(s) + Stranded(id) - Clawback(id)
    BY <1>5 DEF Owed
  <2> HIDE DEF s
  <2> QED
    BY <1>3, <1>6, <2>2, <2>3, <2>4
<1>8. balance'[Contract] = balance[Contract] + amount
  <2>1. /\ sender \in Addresses /\ Contract \in Addresses /\ sender # Contract
    BY StreamsAssumption DEF Addresses
  <2>2. balance \in [Addresses -> Nat]
    BY DEF Inv, TypeOK
  <2> QED
    BY <1>1, <1>3, <2>1, <2>2 DEF Transfer
<1> HIDE DEF s
<1>9. Escrow' = Escrow + amount /\ SumTo(OwedAt)[counter]' = SumTo(OwedAt)[counter] + amount
  BY <1>3, <1>5, <1>6, <1>7, SumsType
<1> QED
  BY <1>1, <1>3, <1>8, <1>9, AccountedOpened

LEMMA ExtendStreamAccounted ==
  ASSUME Inv, Inv', Accounted, NEW id \in DOMAIN streams, NEW sender \in Accounts,
         NEW new_end \in 0..U64MAX, extend_stream(id, sender, new_end)
  PROVE  Accounted'
<1> DEFINE s == streams[id]
           stream == [s EXCEPT !.end = new_end]
<1>1. /\ s.status = "Active"
      /\ streams' = write_stream(id, stream)
      /\ UNCHANGED <<counter, balance, paid, total_supply, untracked>>
  BY DEF extend_stream
<1>2. s \in Stream
  BY StoredStream
<1>3. /\ stream \in Stream /\ stream.total = s.total /\ stream.status = s.status
      /\ stream.withdrawn = s.withdrawn /\ stream.recipient = s.recipient
  BY <1>2 DEF Stream
<1> HIDE DEF stream
<1>4. /\ streams'[id] = stream
      /\ Escrow' = Escrow + Held(stream) - Held(s)
      /\ SumTo(OwedAt)[counter]' = SumTo(OwedAt)[counter] + Owed(id)' - Owed(id)
  BY <1>1, <1>3, SumsStored
<1>5. Held(stream) = Held(s) /\ Owed(id)' = Owed(id)
  BY <1>1, <1>3, <1>4 DEF Owed, Held, Stranded, Clawback
<1>6. Held(s) \in Int /\ Owed(id) \in Int
  <2>1. /\ id \in 0..(counter - 1)
    BY StoredStream
  <2> QED
    BY <2>1, HeldType DEF Summands
<1> HIDE DEF s
<1>7. Escrow' = Escrow + 0 /\ SumTo(OwedAt)[counter]' = SumTo(OwedAt)[counter] + 0
  BY <1>4, <1>5, <1>6, SumsType
<1>8. balance'[Contract] = balance[Contract] + 0 /\ total_supply' = total_supply + 0
  <2>1. balance \in [Addresses -> Nat] /\ Contract \in Addresses
    BY DEF Inv, TypeOK, Addresses
  <2>2. total_supply \in Int
    BY VestingAssumption DEF Inv, TypeOK, I128MIN
  <2> QED
    BY <1>1, <2>1, <2>2
<1> QED
  BY <1>1, <1>7, <1>8, AccountedOpened

LEMMA WithdrawAccounted ==
  ASSUME Inv, Inv', Accounted, NEW id \in DOMAIN streams, NEW recipient \in Accounts,
         withdraw(id, recipient)
  PROVE  Accounted'
<1> DEFINE s == streams[id]
           available == withdrawable(s, timestamp)
           withdrawn == s.withdrawn + available
           status == IF completes(s, withdrawn) THEN "Completed" ELSE s.status
           stream == [s EXCEPT !.withdrawn = withdrawn, !.status = status]
<1>1. /\ recipient = s.recipient
      /\ s.status = "Active"
      /\ streams' = write_stream(id, stream)
      /\ balance' = Transfer(balance, Contract, recipient, available)
      /\ total_supply' = reduced_supply(available)
      /\ paid' = Plus(paid, id, available)
      /\ UNCHANGED <<counter, untracked>>
  BY DEF withdraw
<1>2. /\ id \in 0..(counter - 1) /\ timestamp \in Nat /\ I128MAX \in Nat
      /\ s \in Stream /\ Window(s) /\ s.total \in 1..I128MAX
      /\ s.withdrawn \in 0..s.total
  BY StoredStream
<1>3. available \in 0..(s.total - s.withdrawn)
  BY <1>2, WithdrawableBounds
<1>4. recipient \in Addresses /\ Contract \in Addresses /\ recipient # Contract
  BY StreamsAssumption DEF Addresses
<1>5. status \in {"Active", "Completed"} /\ (status = "Completed" <=> withdrawn >= s.total)
  BY <1>1 DEF completes
<1> HIDE DEF available, status
<1>6. withdrawn \in 0..s.total /\ available \in Nat
  BY <1>2, <1>3
<1>7. /\ stream \in Stream /\ stream.total = s.total /\ stream.withdrawn = withdrawn
      /\ stream.status = status /\ stream.recipient = s.recipient
  <2>1. withdrawn \in 0..I128MAX /\ status \in Status
    BY <1>2, <1>5, <1>6 DEF Status
  <2> HIDE DEF withdrawn
  <2> QED
    BY <1>2, <2>1 DEF Stream
<1> HIDE DEF stream
<1>8. /\ paid \in [0..(counter - 1) -> Nat] /\ balance \in [Addresses -> Nat]
  BY DEF Inv, TypeOK
<1>9. \A i \in DOMAIN streams : i # id => paid'[i] = paid[i]
  BY <1>1, <1>8 DEF Plus
<1>10. /\ streams'[id] = stream
       /\ Escrow' = Escrow + Held(stream) - Held(s)
       /\ SumTo(OwedAt)[counter]' = SumTo(OwedAt)[counter] + Owed(id)' - Owed(id)
  BY <1>1, <1>7, <1>9, SumsStored
<1>11. Held(s) \in Nat /\ available <= Held(s) /\ Held(stream) = Held(s) - available
  BY <1>1, <1>2, <1>3, <1>5, <1>6, <1>7 DEF Held
<1>12. Owed(id) = Held(s) /\ Owed(id)' = Held(stream)
  <2>1. Stranded(id) = 0 /\ Clawback(id) = 0
    BY <1>1, <1>4 DEF Stranded, Clawback
  <2>2. Stranded(id)' = 0 /\ Clawback(id)' = 0
    BY <1>1, <1>4, <1>5, <1>7, <1>10 DEF Stranded, Clawback
  <2>3. /\ Owed(id)' = Held(stream) + Stranded(id)' - Clawback(id)'
        /\ Owed(id) = Held(s) + Stranded(id) - Clawback(id)
    BY <1>10 DEF Owed
  <2> HIDE DEF s
  <2> QED
    BY <1>6, <1>11, <2>1, <2>2, <2>3
<1>13. balance'[Contract] = balance[Contract] - available
  BY <1>1, <1>4, <1>6, <1>8 DEF Transfer
<1>14. /\ Escrow' = Escrow - available
       /\ SumTo(OwedAt)[counter]' = SumTo(OwedAt)[counter] - available
  <2> HIDE DEF s
  <2> QED
    BY <1>6, <1>10, <1>11, <1>12, SumsType
<1> QED
  BY <1>1, <1>6, <1>11, <1>13, <1>14, AccountedReleased

\* What a cancellation moves out of the contract: payment to the recipient,
\* unless that is the contract itself, and refund to the sender.
LEMMA PayOutTwice ==
  ASSUME NEW bal \in [Addresses -> Nat], NEW to \in Addresses, NEW sender \in Accounts,
         NEW due \in Int, NEW refund \in Nat
  PROVE  PayOut(PayOut(bal, to, due), sender, refund)[Contract] =
           bal[Contract] - refund
             - IF to # Contract /\ due > 0 THEN due ELSE 0
<1>1. sender \in Addresses /\ Contract \in Addresses /\ sender # Contract
  BY StreamsAssumption DEF Addresses
<1> DEFINE after == PayOut(bal, to, due)
<1>2. after \in [Addresses -> Int]
  BY <1>1 DEF PayOut, Transfer
<1>3. after[Contract] = bal[Contract] - IF to # Contract /\ due > 0 THEN due ELSE 0
  <2>1. CASE due > 0 /\ to # Contract
    BY <1>1, <2>1 DEF PayOut, Transfer
  <2>2. CASE due > 0 /\ to = Contract
    <3>1. after[Contract] = (bal[Contract] - due) + due
      BY <1>1, <2>2 DEF PayOut, Transfer
    <3>2. bal[Contract] \in Int
      BY <1>1
    <3> HIDE DEF after
    <3> QED
      BY <2>2, <3>1, <3>2
  <2>3. CASE ~(due > 0)
    BY <1>1, <2>3 DEF PayOut
  <2> QED
    BY <2>1, <2>2, <2>3
<1> HIDE DEF after
<1>4. PayOut(after, sender, refund)[Contract] = after[Contract] - refund
  <2>1. CASE refund > 0
    BY <1>1, <1>2, <2>1 DEF PayOut, Transfer
  <2>2. CASE ~(refund > 0)
    BY <1>1, <1>2, <2>2 DEF PayOut
  <2> QED
    BY <2>1, <2>2
<1>5. bal[Contract] \in Int /\ after[Contract] \in Int
  BY <1>1, <1>2
<1> QED
  BY <1>3, <1>4, <1>5 DEF after

LEMMA CancelAccounted ==
  ASSUME Inv, Inv', Accounted, NEW id \in DOMAIN streams, NEW caller \in Accounts,
         cancel(id, caller)
  PROVE  Accounted'
<1> DEFINE s == streams[id]
           v == vested(s, timestamp)
           recipient_paid == v - s.withdrawn
           sender_refund == unvested(s, timestamp)
           payment == IF recipient_paid > 0 THEN recipient_paid ELSE 0
           amount == recipient_paid + sender_refund
           left == IF s.recipient # Contract THEN payment ELSE 0
           stream == [s EXCEPT !.withdrawn = v, !.status = "Cancelled"]
<1>1. /\ s.status # "Cancelled"
      /\ streams' = write_stream(id, stream)
      /\ balance' = PayOut(PayOut(balance, s.recipient, recipient_paid), s.sender,
                           sender_refund)
      /\ total_supply' = reduced_supply(amount)
      /\ paid' = Plus(paid, id, payment)
      /\ UNCHANGED <<counter, untracked>>
  BY DEF cancel
<1>2. /\ id \in 0..(counter - 1) /\ timestamp \in Nat /\ I128MAX \in Nat
      /\ s \in Stream /\ Window(s) /\ s.total \in 1..I128MAX
      /\ s.withdrawn \in 0..s.total
  BY StoredStream
<1>3. v \in 0..s.total /\ sender_refund \in 0..s.total /\ v + sender_refund = s.total
  BY <1>2, VestedBounds
<1>4. InOrder(s, paid[id], refunded[id], timestamp)
  BY InvIsInOrder
<1>5. /\ s.status \in Status /\ s.sender \in Accounts /\ s.recipient \in Addresses
  BY <1>2 DEF Stream
<1>6. s.status = "Completed" => v = s.total
  <2>1. s.status = "Completed" => s.end <= timestamp
    BY <1>4 DEF InOrder
  <2> QED
    BY <1>2, <2>1 DEF vested, Window
<1>7. paid \in [0..(counter - 1) -> Nat] /\ balance \in [Addresses -> Nat]
  BY DEF Inv, TypeOK
<1> HIDE DEF v, sender_refund, s
<1>8. /\ stream \in Stream /\ stream.total = s.total /\ stream.withdrawn = v
      /\ stream.status = "Cancelled" /\ stream.recipient = s.recipient
  <2>1. v \in 0..I128MAX /\ "Cancelled" \in Status
    BY <1>2, <1>3 DEF Status
  <2> QED
    BY <1>2, <2>1 DEF Stream
<1> HIDE DEF stream
<1>9. payment \in Nat /\ amount \in Nat /\ recipient_paid \in Int /\ sender_refund \in Nat
  BY <1>2, <1>3
<1>10. /\ \A i \in DOMAIN streams : i # id => paid'[i] = paid[i]
       /\ paid'[id] = paid[id] + payment
       /\ paid[id] \in Nat
  <2> HIDE DEF payment
  <2> QED
    BY <1>1, <1>2, <1>7, <1>9 DEF Plus
<1>11. /\ streams'[id] = stream
       /\ Escrow' = Escrow + Held(stream) - Held(s)
       /\ SumTo(OwedAt)[counter]' = SumTo(OwedAt)[counter] + Owed(id)' - Owed(id)
  BY <1>1, <1>8, <1>10, SumsStored DEF s
<1>12. Held(s) = amount /\ Held(stream) = 0
  <2>1. CASE s.status = "Active"
    BY <1>2, <1>3, <1>8, <2>1 DEF Held
  <2>2. CASE s.status = "Completed"
    <3>1. s.withdrawn = s.total
      BY <1>4, <2>2 DEF InOrder
    <3> QED
      BY <1>2, <1>3, <1>8, <2>2, <3>1 DEF Held
  <2> QED
    BY <1>1, <1>5, <2>1, <2>2 DEF Status
<1>13. Owed(id) \in Int /\ Owed(id)' = Owed(id) - sender_refund - left
  <2>1. /\ Owed(id)' = Held(stream) + Stranded(id)' - Clawback(id)'
        /\ Owed(id) = Held(s) + Stranded(id) - Clawback(id)
    BY <1>11 DEF Owed, s
  <2>2. /\ Clawback(id) = 0
        /\ Stranded(id) = IF s.recipient = Contract THEN paid[id] ELSE 0
    BY <1>1 DEF Stranded, Clawback, s
  <2>3. /\ Clawback(id)' = (paid[id] + payment) - v
        /\ Stranded(id)' = IF s.recipient = Contract THEN paid[id] + payment ELSE 0
    <3> HIDE DEF payment
    <3> QED
      BY <1>8, <1>10, <1>11 DEF Stranded, Clawback
  <2>4. paid[id] = s.withdrawn
    BY <1>1, <1>4, <1>5 DEF InOrder, Status
  <2>5. CASE s.recipient = Contract
    BY <1>2, <1>3, <1>9, <1>10, <1>12, <2>1, <2>2, <2>3, <2>4, <2>5
  <2>6. CASE s.recipient # Contract
    BY <1>2, <1>3, <1>9, <1>10, <1>12, <2>1, <2>2, <2>3, <2>4, <2>6
  <2> QED
    BY <2>5, <2>6
<1> DEFINE out == sender_refund + left
<1>14. out \in Int /\ left \in Int
  BY <1>9
<1>15. balance'[Contract] = balance[Contract] - out
  <2> HIDE DEF recipient_paid
  <2>1. balance'[Contract] = balance[Contract] - sender_refund
           - IF s.recipient # Contract /\ recipient_paid > 0 THEN recipient_paid ELSE 0
    BY <1>1, <1>5, <1>7, <1>9, PayOutTwice
  <2>2. balance[Contract] \in Int
    BY <1>7 DEF Addresses
  <2> QED
    BY <1>9, <2>1, <2>2
<1> HIDE DEF amount, left
<1>16. /\ Escrow' = Escrow - amount
       /\ SumTo(OwedAt)[counter]' = SumTo(OwedAt)[counter] - out
  BY <1>9, <1>11, <1>12, <1>13, <1>14, SumsType
<1> HIDE DEF out
<1>17. amount <= Held(streams[id])
  BY <1>9, <1>12 DEF s
<1> QED
  BY <1>1, <1>9, <1>14, <1>15, <1>16, <1>17, AccountedReleased

LEMMA InitializeAccounted ==
  ASSUME Inv, Accounted, initialize
  PROVE  Accounted'
<1>1. counter = 0 /\ total_supply = 0
  BY DEF Inv, NothingBeforeInitialize, initialize
<1>2. UNCHANGED <<streams, counter, balance, paid, total_supply, untracked>>
  BY <1>1 DEF initialize
<1> QED
  BY <1>2, AccountedKept

LEMMA AccountedStep == Inv /\ Inv' /\ Accounted /\ [Next]_vars => Accounted'
<1> SUFFICES ASSUME Inv, Inv', Accounted, [Next]_vars PROVE Accounted'
  OBVIOUS
<1>1. CASE initialize
  BY <1>1, InitializeAccounted
<1>2. ASSUME NEW sender \in Accounts, NEW request \in Requests,
             create_stream(sender, request)
      PROVE  Accounted'
  BY <1>2, CreateStreamAccounted
<1>3. ASSUME NEW sender \in Accounts, NEW requests \in Batches,
             create_stream_batch(sender, requests)
      PROVE  Accounted'
  BY <1>3, CreateStreamBatchAccounted
<1>4. ASSUME NEW id \in DOMAIN streams, NEW sender \in Accounts,
             NEW amount \in Amounts, top_up(id, sender, amount)
      PROVE  Accounted'
  BY <1>4, TopUpAccounted
<1>5. ASSUME NEW id \in DOMAIN streams, NEW sender \in Accounts,
             NEW new_end \in 0..U64MAX, extend_stream(id, sender, new_end)
      PROVE  Accounted'
  BY <1>5, ExtendStreamAccounted
<1>6. ASSUME NEW id \in DOMAIN streams, NEW recipient \in Accounts,
             withdraw(id, recipient)
      PROVE  Accounted'
  BY <1>6, WithdrawAccounted
<1>7. ASSUME NEW id \in DOMAIN streams, NEW caller \in Accounts, cancel(id, caller)
      PROVE  Accounted'
  BY <1>7, CancelAccounted
<1>8. ASSUME NEW new_cap \in Caps, set_supply_cap(new_cap) PROVE Accounted'
  BY <1>8, AccountedKept DEF set_supply_cap
<1>9. CASE close_ledger
  BY <1>9, AccountedKept DEF close_ledger
<1>10. CASE UNCHANGED vars
  BY <1>10, AccountedKept DEF vars
<1> QED
  BY <1>1, <1>2, <1>3, <1>4, <1>5, <1>6, <1>7, <1>8, <1>9, <1>10 DEF Next

\* The invariant of the two sums: every later theorem about them rests on it.
THEOREM Accounting == Spec => []Accounted
<1>1. Inv /\ Accounted /\ [Next]_vars => (Inv /\ Accounted)'
  BY InvStep, AccountedStep
<1> QED
  BY InvInit, AccountedInit, <1>1, PTL DEF Spec

\* total_supply and what batches escrowed add up to the escrow of the active
\* streams, after any sequence of calls.
THEOREM SupplyIsAccounted == Spec => []SupplyAccounted
  BY Accounting, AccountedIsBoth, PTL

\* The contract's token balance is the escrow of its active streams, plus what
\* it paid to itself, minus the clawbacks: no call loses or creates a token.
THEOREM BalanceIsAccounted == Spec => []BalanceAccounted
  BY Accounting, AccountedIsBoth, PTL

-----------------------------------------------------------------------------
(* Solvency, when no stream is extended after a withdrawal                 *)

\* A stream that has paid p to its recipient has paid no more than it vested,
\* now or when it was cancelled.
Earned(s, p, now) ==
  IF s.status = "Cancelled" THEN p = s.withdrawn ELSE s.withdrawn <= vested(s, now)

AllEarned == \A id \in DOMAIN streams : Earned(streams[id], paid[id], timestamp)

\* No step moves the end of a stream its recipient has withdrawn from.
NoLateExtension ==
  \A id \in DOMAIN streams :
    streams'[id].end # streams[id].end => streams[id].withdrawn = 0

\* What was earned stays so as time passes.
LEMMA EarnedLater ==
  ASSUME NEW s, Window(s), NEW now \in Nat, NEW later \in Nat, now <= later,
         NEW p, Earned(s, p, now), s.withdrawn \in 0..s.total
  PROVE  Earned(s, p, later)
<1>1. vested(s, now) <= vested(s, later)
  BY VestedGrows DEF VestedMonotone
<1>2. vested(s, now) \in 0..s.total /\ vested(s, later) \in 0..s.total /\ s.total \in Nat
  BY VestedBounds DEF Window
<1> QED
  BY <1>1, <1>2 DEF Earned

\* A step that leaves most streams alone keeps the others' earnings in order.
LEMMA EarnedKept ==
  ASSUME Inv, AllEarned, timestamp' \in Nat, timestamp <= timestamp',
         \A id \in DOMAIN streams' :
           \/ /\ id \in DOMAIN streams
              /\ streams'[id] = streams[id] /\ paid'[id] = paid[id]
           \/ Earned(streams'[id], paid'[id], timestamp')
  PROVE  AllEarned'
<1>1. ASSUME NEW id \in DOMAIN streams
      PROVE  Earned(streams[id], paid[id], timestamp')
  BY <1>1, StoredStream, EarnedLater DEF AllEarned
<1> QED
  BY <1>1 DEF AllEarned

\* The same, for a step that writes the one stream id.
LEMMA EarnedStored ==
  ASSUME Inv, AllEarned, NEW id \in DOMAIN streams, NEW t,
         streams' = write_stream(id, t), timestamp' = timestamp,
         paid' = paid \/ \E amount : paid' = Plus(paid, id, amount),
         Earned(t, paid'[id], timestamp)
  PROVE  AllEarned'
<1>1. timestamp \in Nat /\ DOMAIN paid = DOMAIN streams
  BY StoredStream, StateTypes
<1>2. DOMAIN streams' = DOMAIN streams /\ streams'[id] = t
  BY DEF write_stream
<1>3. ASSUME NEW i \in DOMAIN streams, i # id
      PROVE  streams'[i] = streams[i] /\ paid'[i] = paid[i]
  BY <1>1, <1>3, PlusOthers DEF write_stream
<1> QED
  BY <1>1, <1>2, <1>3, EarnedKept

\* A stream nothing was withdrawn from has paid no more than it vested.
LEMMA UntouchedEarned ==
  ASSUME NEW s, Window(s), NEW now \in Nat, NEW p, s.status = "Active", s.withdrawn = 0
  PROVE  Earned(s, p, now)
  BY VestedBounds DEF Earned, Window

LEMMA OpenedEarned ==
  ASSUME Inv, Inv', AllEarned, NEW n \in Nat, counter <= n,
         DOMAIN streams' = 0..(n - 1), paid' = Opened(paid, n), timestamp' = timestamp,
         \A i \in 0..(counter - 1) : streams'[i] = streams[i],
         \A i \in counter..(n - 1) :
           streams'[i].status = "Active" /\ streams'[i].withdrawn = 0
  PROVE  AllEarned'
<1>1. /\ counter \in Nat /\ DOMAIN streams = 0..(counter - 1)
      /\ timestamp \in Nat
  BY StateTypes, StreamsAssumption DEF Inv, TypeOK
<1>2. ASSUME NEW i \in 0..(counter - 1)
      PROVE  streams'[i] = streams[i] /\ paid'[i] = paid[i]
  BY <1>2, OpenedHistory
<1>3. ASSUME NEW i \in counter..(n - 1)
      PROVE  Earned(streams'[i], paid'[i], timestamp')
  <2>1. i \in DOMAIN streams'
    BY <1>1
  <2>2. Window(streams'[i])
    <3>1. streams' \in [0..(counter' - 1) -> Stream]
      BY DEF Inv, TypeOK
    <3>2. streams'[i] \in Stream /\ streams'[i].start < streams'[i].end
      BY <2>1, <3>1 DEF Inv, StreamsWellFormed
    <3> QED
      BY <3>2, VestingAssumption, StreamsAssumption DEF Stream, Window
  <2> QED
    BY <1>1, <1>3, <2>2, UntouchedEarned
<1> QED
  BY <1>1, <1>2, <1>3, EarnedKept

LEMMA CreateStreamEarned ==
  ASSUME Inv, Inv', AllEarned, NEW sender \in Accounts, NEW request \in Requests,
         create_stream(sender, request)
  PROVE  AllEarned'
<1>1. /\ \E start : streams' = write_stream(counter, NewStream(sender, request, start))
      /\ paid' = Opened(paid, counter + 1)
      /\ timestamp' = timestamp
  BY DEF create_stream
<1>2. counter \in Nat /\ DOMAIN streams = 0..(counter - 1)
  BY StateTypes
<1>3. PICK start : streams' = write_stream(counter, NewStream(sender, request, start))
  BY <1>1
<1>4. /\ DOMAIN streams' = 0..(counter + 1 - 1)
      /\ \A i \in 0..(counter - 1) : streams'[i] = streams[i]
      /\ streams'[counter] = NewStream(sender, request, start)
  BY <1>2, <1>3 DEF write_stream
<1>5. streams'[counter].status = "Active" /\ streams'[counter].withdrawn = 0
  BY <1>4 DEF NewStream
<1>6. counter..(counter + 1 - 1) = {counter} /\ counter + 1 \in Nat /\ counter <= counter + 1
  BY <1>2
<1> QED
  BY <1>1, <1>4, <1>5, <1>6, OpenedEarned

LEMMA CreateStreamBatchEarned ==
  ASSUME Inv, Inv', AllEarned, NEW sender \in Accounts, NEW requests \in Batches,
         create_stream_batch(sender, requests)
  PROVE  AllEarned'
<1> DEFINE count == Len(requests)
           n == counter + count
<1>1. /\ streams' = [i \in 0..(counter + count - 1) |->
           IF i < counter THEN streams[i]
           ELSE NewStream(sender, requests[i - counter + 1],
                          requests[i - counter + 1].start_time)]
      /\ paid' = Opened(paid, counter + count)
      /\ timestamp' = timestamp
  BY DEF create_stream_batch
<1>2. counter \in Nat /\ count \in Nat /\ n \in Nat /\ counter <= n
  <2>1. counter \in Nat
    BY StateTypes
  <2>2. count \in Nat
    BY StreamsAssumption
  <2> QED
    BY <2>1, <2>2
<1>3. /\ DOMAIN streams' = 0..(n - 1)
      /\ \A i \in 0..(counter - 1) : streams'[i] = streams[i]
  <2>1. \A i \in 0..(counter - 1) : i \in 0..(counter + count - 1) /\ i < counter
    BY <1>2
  <2>2. DOMAIN streams' = 0..(counter + count - 1)
    BY <1>1
  <2>3. \A i \in 0..(counter - 1) : streams'[i] = streams[i]
    BY <1>1, <2>1
  <2> QED
    BY <1>2, <2>2, <2>3
<1>4. ASSUME NEW i \in counter..(n - 1)
      PROVE  streams'[i].status = "Active" /\ streams'[i].withdrawn = 0
  <2>1. i \in 0..(counter + count - 1) /\ ~(i < counter)
    BY <1>2
  <2> DEFINE request == requests[i - counter + 1]
  <2>2. streams'[i] = NewStream(sender, request, request.start_time)
    BY <1>1, <2>1
  <2> HIDE DEF request
  <2> QED
    BY <2>2 DEF NewStream
<1>5. paid' = Opened(paid, n) /\ timestamp' = timestamp
  BY <1>1, Zenon
<1> HIDE DEF n
<1> QED
  BY <1>2, <1>3, <1>4, <1>5, OpenedEarned

LEMMA TopUpEarned ==
  ASSUME Inv, AllEarned, NEW id \in DOMAIN streams, NEW sender \in Accounts,
         NEW amount \in Amounts, top_up(id, sender, amount)
  PROVE  AllEarned'
<1> DEFINE s == streams[id]
           t == [s EXCEPT !.total = s.total + amount]
<1>1. /\ is_valid_amount(amount) /\ s.status = "Active"
      /\ streams' = write_stream(id, t)
      /\ timestamp' = timestamp /\ paid' = paid
  BY DEF top_up
<1>2. s \in Stream /\ Window(s) /\ timestamp \in Nat /\ s.withdrawn \in Int
  BY StoredStream
<1>3. amount \in Nat
  BY <1>1, VestingAssumption, StreamsAssumption DEF is_valid_amount, I128MIN
<1>4. /\ t.total = s.total + amount /\ t.start = s.start /\ t.end = s.end
      /\ t.withdrawn = s.withdrawn /\ t.status = "Active"
  BY <1>1, <1>2 DEF Stream
<1> HIDE DEF t
<1>5. Window(t)
  BY <1>2, <1>3, <1>4 DEF Window
<1>6. vested(s, timestamp) <= vested(t, timestamp)
  BY <1>2, <1>3, <1>4, <1>5, LargerTotalVestsMore
<1>7. vested(s, timestamp) \in Int /\ vested(t, timestamp) \in Int
  BY <1>2, <1>5, VestedBounds DEF Window
<1>8. s.withdrawn <= vested(s, timestamp)
  BY <1>1 DEF AllEarned, Earned
<1>9. Earned(t, paid'[id], timestamp)
  BY <1>2, <1>4, <1>6, <1>7, <1>8 DEF Earned
<1> QED
  BY <1>1, <1>9, EarnedStored

LEMMA ExtendStreamEarned ==
  ASSUME Inv, AllEarned, NoLateExtension, NEW id \in DOMAIN streams,
         NEW sender \in Accounts, NEW new_end \in 0..U64MAX,
         extend_stream(id, sender, new_end)
  PROVE  AllEarned'
<1> DEFINE s == streams[id]
           t == [s EXCEPT !.end = new_end]
<1>1. /\ s.status = "Active" /\ new_end > s.end
      /\ streams' = write_stream(id, t)
      /\ timestamp' = timestamp /\ paid' = paid
  BY DEF extend_stream
<1>2. s \in Stream /\ Window(s) /\ timestamp \in Nat /\ new_end \in Nat
  BY StoredStream, StreamsAssumption
<1>3. /\ t.total = s.total /\ t.start = s.start /\ t.end = new_end
      /\ t.withdrawn = s.withdrawn /\ t.status = "Active"
  BY <1>1, <1>2 DEF Stream
<1>4. streams'[id] = t
  BY <1>1 DEF write_stream
<1> HIDE DEF t
<1>5. Window(t)
  BY <1>1, <1>2, <1>3 DEF Window
<1>6. new_end # s.end
  BY <1>1, <1>2 DEF Window
<1>7. t.withdrawn = 0
  BY <1>3, <1>4, <1>6 DEF NoLateExtension
<1>8. Earned(t, paid'[id], timestamp)
  BY <1>2, <1>3, <1>5, <1>7, UntouchedEarned
<1> QED
  BY <1>1, <1>8, EarnedStored

LEMMA WithdrawEarned ==
  ASSUME Inv, AllEarned, NEW id \in DOMAIN streams, NEW recipient \in Accounts,
         withdraw(id, recipient)
  PROVE  AllEarned'
<1> DEFINE s == streams[id]
           available == withdrawable(s, timestamp)
           status == IF completes(s, s.withdrawn + available) THEN "Completed" ELSE s.status
           t == [s EXCEPT !.withdrawn = s.withdrawn + available, !.status = status]
<1>1. /\ s.status = "Active" /\ available > 0
      /\ streams' = write_stream(id, t)
      /\ timestamp' = timestamp /\ paid' = Plus(paid, id, available)
  BY DEF withdraw
<1>2. s \in Stream /\ Window(s) /\ timestamp \in Nat /\ s.withdrawn \in 0..s.total
  BY StoredStream
<1>3. s.withdrawn + available = vested(s, timestamp)
  BY <1>1, <1>2, WithdrawableBounds
<1>4. vested(s, timestamp) \in Int
  BY <1>2, VestedBounds DEF Window
<1>5. status # "Cancelled"
  BY <1>1
<1> HIDE DEF available, status
<1>6. /\ t.total = s.total /\ t.start = s.start /\ t.end = s.end
      /\ t.withdrawn = vested(s, timestamp) /\ t.status # "Cancelled"
  BY <1>2, <1>3, <1>5 DEF Stream
<1> HIDE DEF t
<1>7. vested(t, timestamp) = vested(s, timestamp)
  BY <1>6 DEF vested
<1>8. Earned(t, paid'[id], timestamp)
  BY <1>4, <1>6, <1>7 DEF Earned
<1> QED
  BY <1>1, <1>8, EarnedStored

LEMMA CancelEarned ==
  ASSUME Inv, AllEarned, NEW id \in DOMAIN streams, NEW caller \in Accounts,
         cancel(id, caller)
  PROVE  AllEarned'
<1> DEFINE s == streams[id]
           v == vested(s, timestamp)
           payment == IF v - s.withdrawn > 0 THEN v - s.withdrawn ELSE 0
           t == [s EXCEPT !.withdrawn = v, !.status = "Cancelled"]
<1>1. /\ s.status # "Cancelled"
      /\ streams' = write_stream(id, t)
      /\ timestamp' = timestamp /\ paid' = Plus(paid, id, payment)
  BY DEF cancel
<1>2. /\ s \in Stream /\ Window(s) /\ timestamp \in Nat /\ s.withdrawn \in Nat
      /\ s.total \in Nat
  BY StoredStream
<1>3. s.withdrawn <= v /\ v \in Nat
  BY <1>1, <1>2, VestedBounds DEF AllEarned, Earned
<1>4. paid[id] = s.withdrawn
  <2>1. InOrder(s, paid[id], refunded[id], timestamp)
    BY InvIsInOrder
  <2>2. s.status \in Status
    BY <1>2 DEF Stream
  <2> QED
    BY <1>1, <2>1, <2>2 DEF InOrder, Status
<1> HIDE DEF v
<1>5. payment = v - s.withdrawn
  BY <1>2, <1>3
<1> HIDE DEF payment
<1>6. paid'[id] = v
  <2>1. id \in DOMAIN paid
    BY StateTypes
  <2>2. paid'[id] = paid[id] + payment
    BY <1>1, <2>1 DEF Plus
  <2> QED
    BY <1>2, <1>3, <1>4, <1>5, <2>2
<1>7. t.withdrawn = v /\ t.status = "Cancelled"
  BY <1>2 DEF Stream
<1> HIDE DEF t
<1>8. Earned(t, paid'[id], timestamp)
  BY <1>6, <1>7 DEF Earned
<1> QED
  BY <1>1, <1>8, EarnedStored DEF v

LEMMA EarnedInit == Init => AllEarned
  BY DEF Init, AllEarned

LEMMA EarnedStep ==
  Inv /\ Inv' /\ AllEarned /\ [Next]_vars /\ [NoLateExtension]_vars => AllEarned'
<1> SUFFICES ASSUME Inv, Inv', AllEarned, [Next]_vars, [NoLateExtension]_vars
             PROVE  AllEarned'
  OBVIOUS
<1>1. ASSUME UNCHANGED <<streams, paid>>, timestamp' \in Nat, timestamp <= timestamp'
      PROVE  AllEarned'
  BY <1>1, EarnedKept
<1>2. timestamp \in Nat
  BY StreamsAssumption DEF Inv, TypeOK
<1>3. CASE UNCHANGED vars
  BY <1>1, <1>2, <1>3 DEF vars
<1>4. ASSUME NEW sender \in Accounts, NEW request \in Requests,
             create_stream(sender, request)
      PROVE  AllEarned'
  BY <1>4, CreateStreamEarned
<1>5. ASSUME NEW sender \in Accounts, NEW requests \in Batches,
             create_stream_batch(sender, requests)
      PROVE  AllEarned'
  BY <1>5, CreateStreamBatchEarned
<1>6. ASSUME NEW id \in DOMAIN streams, NEW sender \in Accounts,
             NEW amount \in Amounts, top_up(id, sender, amount)
      PROVE  AllEarned'
  BY <1>6, TopUpEarned
<1>7. ASSUME NEW id \in DOMAIN streams, NEW sender \in Accounts,
             NEW new_end \in 0..U64MAX, extend_stream(id, sender, new_end), NoLateExtension
      PROVE  AllEarned'
  BY <1>7, ExtendStreamEarned
<1>8. ASSUME NEW id \in DOMAIN streams, NEW recipient \in Accounts,
             withdraw(id, recipient)
      PROVE  AllEarned'
  BY <1>8, WithdrawEarned
<1>9. ASSUME NEW id \in DOMAIN streams, NEW caller \in Accounts, cancel(id, caller)
      PROVE  AllEarned'
  BY <1>9, CancelEarned
<1>10. CASE initialize \/ (\E new_cap \in Caps : set_supply_cap(new_cap)) \/ close_ledger
  BY <1>1, <1>2, <1>10 DEF initialize, set_supply_cap, close_ledger
<1> QED
  BY <1>3, <1>4, <1>5, <1>6, <1>7, <1>8, <1>9, <1>10 DEF Next

\* Streams that paid no more than they vested leave the escrow in the contract.
LEMMA EarnedIsSolvent == Inv /\ Accounted /\ AllEarned => Solvent
<1> SUFFICES ASSUME Inv, Accounted, AllEarned PROVE Escrow <= balance[Contract]
  BY DEF Solvent
<1>1. ASSUME NEW i \in 0..(counter - 1) PROVE HeldAt[i] <= OwedAt[i]
  <2>1. HeldAt[i] = Held(streams[i]) /\ HeldAt[i] \in Nat /\ OwedAt[i] = Owed(i)
    BY HeldType DEF Summands
  <2>2. i \in DOMAIN streams /\ paid[i] \in Nat
    BY StateTypes
  <2>3. Clawback(i) = 0
    BY <2>2 DEF AllEarned, Earned, Clawback
  <2>4. Stranded(i) \in Nat
    BY <2>2 DEF Stranded
  <2>5. Owed(i) = Held(streams[i]) + Stranded(i) - Clawback(i)
    BY DEF Owed
  <2> QED
    BY <2>1, <2>3, <2>4, <2>5
<1>2. counter \in Nat /\ HeldAt \in [Nat -> Int] /\ OwedAt \in [Nat -> Int]
  BY HeldType DEF Summands
<1>3. SumTo(HeldAt)[counter] <= SumTo(OwedAt)[counter]
  BY <1>1, <1>2, SumMono
<1> QED
  BY <1>3, SumsOf DEF Accounted

\* The contract always covers its active streams, provided that no stream is
\* extended after a withdrawal: that is the only way to lose another stream's
\* tokens.
THEOREM SolventWithoutLateExtension ==
  Spec /\ [][NoLateExtension]_vars => []Solvent
<1>1. Spec /\ [][NoLateExtension]_vars => []AllEarned
  BY Invariance, EarnedInit, EarnedStep, PTL DEF Spec
<1> QED
  BY <1>1, Invariance, Accounting, EarnedIsSolvent, PTL
=============================================================================
