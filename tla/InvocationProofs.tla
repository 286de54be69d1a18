--------------------------- MODULE InvocationProofs ---------------------------
(***************************************************************************)
(* Theorems of module Invocation.  What the copy of a running invocation   *)
(* holds is said by a stage: one predicate per entrypoint, over the ledger *)
(* it started from, its statements and the statement it stands before.     *)
(* Each statement moves a stage on (the Steps), the checks that let the    *)
(* call through are the guards of module Streams (the Passed), and the     *)
(* last stage is that module's action (the Returns).  So the invariant     *)
(* IInv is inductive, and an invocation is a step of module Streams.       *)
(***************************************************************************)
EXTENDS Invocation, StreamsActionProofs
LOCAL INSTANCE FiniteSetsExt

-----------------------------------------------------------------------------
(* What one statement does to the copy                                     *)

\* The fields of the copy.
Fields ==
  {"initialized", "streams", "counter", "total_supply", "supply_cap", "balance",
   "paid", "refunded", "untracked", "book", "timestamp"}

\* A statement that goes on and changes no field but these.
Changes(fields) ==
  /\ pc' = pc + 1
  /\ DOMAIN working' = Fields
  /\ \A f \in Fields \ fields : working'[f] = working[f]
  /\ UNCHANGED <<ledger, timestamp, call, outcome, earlier>>

\* The transfer into the escrow.
LEMMA EscrowEffect ==
  ASSUME NEW t, escrow(t), DOMAIN working = Fields
  PROVE  /\ Changes({"balance", "untracked"})
         /\ affordable(t.from, t.amount)
         /\ working'.balance = Transfer(working.balance, t.from, Contract, t.amount)
         /\ working'.untracked = working.untracked + t.untracked
  BY DEF escrow, proceed, Changes, Fields

\* The two payouts, skipped unless positive.
LEMMA PayEffect ==
  ASSUME NEW t, pay(t), DOMAIN working = Fields
  PROVE  /\ Changes({"balance", "paid"})
         /\ affordable(Contract, t.amount)
         /\ working'.balance = PayOut(working.balance, t.to, t.amount)
         /\ working'.paid = Plus(working.paid, t.id, Transferred(t.amount))
  BY DEF pay, proceed, Changes, Fields

LEMMA RefundEffect ==
  ASSUME NEW t, refund(t), DOMAIN working = Fields
  PROVE  /\ Changes({"balance", "refunded"})
         /\ affordable(Contract, t.amount)
         /\ working'.balance = PayOut(working.balance, t.to, t.amount)
         /\ working'.refunded = Plus(working.refunded, t.id, Transferred(t.amount))
  BY DEF refund, proceed, Changes, Fields

\* write_stream, with the history of the stream.
LEMMA StoreStreamEffect ==
  ASSUME NEW t, store_stream(t), DOMAIN working = Fields
  PROVE  /\ Changes({"streams", "paid", "refunded"})
         /\ working'.streams = Put(working.streams, t.id, t.stream)
         /\ working'.paid = WithEntry(working.paid, t.id)
         /\ working'.refunded = WithEntry(working.refunded, t.id)
  BY DEF store_stream, proceed, Changes, Fields, WithEntry

\* The instance entries.
LEMMA WriteCounterEffect ==
  ASSUME NEW t, write_counter(t), DOMAIN working = Fields
  PROVE  /\ Changes({"counter"})
         /\ working'.counter = t.next
  BY DEF write_counter, proceed, Changes, Fields

LEMMA WriteTotalSupplyEffect ==
  ASSUME NEW t, write_total_supply(t), DOMAIN working = Fields
  PROVE  /\ Changes({"total_supply"})
         /\ working'.total_supply = t.supply
  BY DEF write_total_supply, proceed, Changes, Fields

LEMMA ReduceTotalSupplyEffect ==
  ASSUME NEW t, reduce_total_supply(t), DOMAIN working = Fields
  PROVE  /\ Changes({"total_supply"})
         /\ working'.total_supply = reduced(working.total_supply, t.amount)
  BY DEF reduce_total_supply, proceed, Changes, Fields

LEMMA WriteSupplyCapEffect ==
  ASSUME NEW t, write_supply_cap(t), DOMAIN working = Fields
  PROVE  /\ Changes({"supply_cap"})
         /\ working'.supply_cap = t.cap
  BY DEF write_supply_cap, proceed, Changes, Fields

LEMMA WriteInstanceEffect ==
  ASSUME NEW t, write_instance(t), DOMAIN working = Fields
  PROVE  /\ Changes({"initialized", "counter", "total_supply", "supply_cap"})
         /\ working'.initialized = TRUE /\ working'.counter = 0
         /\ working'.total_supply = 0 /\ working'.supply_cap = DEFAULT_SUPPLY_CAP
  BY DEF write_instance, proceed, Changes, Fields

\* An event, as the indexer takes it.
LEMMA PublishEffect ==
  ASSUME NEW t, publish(t), DOMAIN working = Fields
  PROVE  /\ Changes({"book"})
         /\ working'.book = Learn(working.book, t.event)
  BY DEF publish, proceed, Changes, Fields

\* The one statement that may return an Err.
LEMMA CheckedAddCounterEffect ==
  ASSUME NEW t, checked_add_counter(t), DOMAIN working = Fields, working.counter \in Nat
  PROVE  \/ Changes({}) /\ working.counter + 1 <= U64MAX
         \/ fail("Overflow")
  BY StreamsAssumption DEF checked_add_counter, proceed, Changes, Fields

-----------------------------------------------------------------------------
(* The stages: what w holds before statement n of program p, run from env  *)

\* The copy w still has these fields of env.
Same(env, w, fields) == \A f \in fields : w[f] = env[f]

InitializeStage(env, n, w) ==
  /\ n \in 1..2
  /\ Same(env, w, {"streams", "balance", "paid", "refunded", "untracked", "book",
                   "timestamp"})
  /\ IF n > 1
     THEN /\ w.initialized = TRUE /\ w.counter = 0
          /\ w.total_supply = 0 /\ w.supply_cap = DEFAULT_SUPPLY_CAP
     ELSE Same(env, w, {"initialized", "counter", "total_supply", "supply_cap"})

CreateStage(env, p, n, w) ==
  /\ n \in 1..7
  /\ Same(env, w, {"initialized", "supply_cap", "untracked", "timestamp"})
  /\ IF n > 1
     THEN /\ w.balance = Transfer(env.balance, p[1].from, Contract, p[1].amount)
          /\ p[1].amount > 0 => CanPay(env.balance, p[1].from, p[1].amount)
     ELSE w.balance = env.balance
  /\ n > 2 => env.counter + 1 <= U64MAX
  /\ IF n > 3
     THEN /\ w.streams = Put(env.streams, p[3].id, p[3].stream)
          /\ w.paid = WithEntry(env.paid, p[3].id)
          /\ w.refunded = WithEntry(env.refunded, p[3].id)
     ELSE Same(env, w, {"streams", "paid", "refunded"})
  /\ w.counter = IF n > 4 THEN p[4].next ELSE env.counter
  /\ w.total_supply = IF n > 5 THEN p[5].supply ELSE env.total_supply
  /\ w.book = IF n > 6 THEN Learn(env.book, p[6].event) ELSE env.book

TopUpStage(env, p, n, w) ==
  /\ n \in 1..5
  /\ Same(env, w, {"initialized", "counter", "supply_cap", "paid", "refunded",
                   "untracked", "timestamp"})
  /\ IF n > 1
     THEN /\ w.balance = Transfer(env.balance, p[1].from, Contract, p[1].amount)
          /\ p[1].amount > 0 => CanPay(env.balance, p[1].from, p[1].amount)
     ELSE w.balance = env.balance
  /\ w.streams = IF n > 2 THEN Put(env.streams, p[2].id, p[2].stream) ELSE env.streams
  /\ w.total_supply = IF n > 3 THEN p[3].supply ELSE env.total_supply
  /\ w.book = IF n > 4 THEN Learn(env.book, p[4].event) ELSE env.book

ExtendStage(env, p, n, w) ==
  /\ n \in 1..3
  /\ Same(env, w, {"initialized", "counter", "total_supply", "supply_cap", "balance",
                   "paid", "refunded", "untracked", "timestamp"})
  /\ w.streams = IF n > 1 THEN Put(env.streams, p[1].id, p[1].stream) ELSE env.streams
  /\ w.book = IF n > 2 THEN Learn(env.book, p[2].event) ELSE env.book

WithdrawStage(env, p, n, w) ==
  /\ n \in 1..5
  /\ Same(env, w, {"initialized", "counter", "supply_cap", "refunded", "untracked",
                   "timestamp"})
  /\ w.streams = IF n > 1 THEN Put(env.streams, p[1].id, p[1].stream) ELSE env.streams
  /\ IF n > 2
     THEN /\ w.balance = PayOut(env.balance, p[2].to, p[2].amount)
          /\ w.paid = Plus(env.paid, p[2].id, Transferred(p[2].amount))
          /\ CanPayOut(env.balance, p[2].amount)
     ELSE w.balance = env.balance /\ w.paid = env.paid
  /\ w.total_supply = IF n > 3 THEN reduced(env.total_supply, p[3].amount)
                      ELSE env.total_supply
  /\ w.book = IF n > 4 THEN Learn(env.book, p[4].event) ELSE env.book

CancelStage(env, p, n, w) ==
  /\ n \in 1..6
  /\ Same(env, w, {"initialized", "counter", "supply_cap", "untracked", "timestamp"})
  /\ w.streams = IF n > 1 THEN Put(env.streams, p[1].id, p[1].stream) ELSE env.streams
  /\ w.balance = IF n > 3
                 THEN PayOut(PayOut(env.balance, p[2].to, p[2].amount),
                             p[3].to, p[3].amount)
                 ELSE IF n > 2 THEN PayOut(env.balance, p[2].to, p[2].amount)
                 ELSE env.balance
  /\ w.paid = IF n > 2 THEN Plus(env.paid, p[2].id, Transferred(p[2].amount))
              ELSE env.paid
  /\ n > 2 => CanPayOut(env.balance, p[2].amount)
  /\ w.refunded = IF n > 3 THEN Plus(env.refunded, p[3].id, Transferred(p[3].amount))
                  ELSE env.refunded
  /\ n > 3 => CanPayOut(PayOut(env.balance, p[2].to, p[2].amount), p[3].amount)
  /\ w.total_supply = IF n > 4 THEN reduced(env.total_supply, p[4].amount)
                      ELSE env.total_supply
  /\ w.book = IF n > 5 THEN Learn(env.book, p[5].event) ELSE env.book

SetSupplyCapStage(env, p, n, w) ==
  /\ n \in 1..3
  /\ Same(env, w, {"initialized", "streams", "counter", "total_supply", "balance",
                   "paid", "refunded", "untracked", "timestamp"})
  /\ w.supply_cap = IF n > 1 THEN p[1].cap ELSE env.supply_cap
  /\ w.book = IF n > 2 THEN Learn(env.book, p[2].event) ELSE env.book

-----------------------------------------------------------------------------

\* A stream in storage has its history already.
LEMMA StoredEntry ==
  ASSUME NEW S, NEW f \in [S -> Nat], NEW id \in S
  PROVE  WithEntry(f, id) = f
  BY DEF WithEntry, Put

\* Every statement but the last moves its entrypoint one stage on.
LEMMA InitializeSteps ==
  ASSUME NEW env, NEW p,
         p[1].do = "write_instance", p[2].do = "return",
         InitializeStage(env, pc, working), DOMAIN working = Fields,
         execute(p[pc]), p[pc].do # "return"
  PROVE  InitializeStage(env, pc + 1, working') /\ Changes(Fields)
<1>1. pc \in 1..1
  BY DEF InitializeStage
<1>2. CASE pc = 1
  <2>1. write_instance(p[1])
    BY <1>2 DEF execute
  <2>2. /\ Changes({"initialized", "counter", "total_supply", "supply_cap"})
        /\ working'.initialized = TRUE /\ working'.counter = 0
        /\ working'.total_supply = 0 /\ working'.supply_cap = DEFAULT_SUPPLY_CAP
    BY <2>1, WriteInstanceEffect
  <2> QED
    BY <2>2, <1>2 DEF InitializeStage, Same, Changes, Fields
<1> QED
  BY <1>1, <1>2

LEMMA CreateSteps ==
  ASSUME NEW env, NEW p,
         p[1].do = "escrow", p[2].do = "checked_add_counter",
         p[3].do = "write_stream", p[4].do = "write_counter",
         p[5].do = "write_total_supply", p[6].do = "publish",
         p[7].do = "return",
         env.untracked + p[1].untracked = env.untracked,
         env.counter \in Nat,
         CreateStage(env, p, pc, working), DOMAIN working = Fields,
         execute(p[pc]), p[pc].do # "return"
  PROVE  \/ CreateStage(env, p, pc + 1, working') /\ Changes(Fields)
         \/ fail("Overflow")
<1>1. pc \in 1..6
  BY DEF CreateStage
<1>2. CASE pc = 1
  <2>1. escrow(p[1])
    BY <1>2 DEF execute
  <2>2. /\ Changes({"balance", "untracked"})
        /\ p[1].amount > 0 => CanPay(working.balance, p[1].from, p[1].amount)
        /\ working'.balance = Transfer(working.balance, p[1].from, Contract, p[1].amount)
        /\ working'.untracked = working.untracked + p[1].untracked
    BY <2>1, EscrowEffect DEF affordable
  <2> QED
    BY <2>2, <1>2 DEF CreateStage, Same, Changes, Fields
<1>3. CASE pc = 2
  <2>1. checked_add_counter(p[2])
    BY <1>3 DEF execute
  <2>2. working.counter \in Nat /\ working.counter = env.counter
    BY <1>3 DEF CreateStage
  <2>3. CASE Changes({}) /\ working.counter + 1 <= U64MAX
    BY <2>2, <2>3, <1>3 DEF CreateStage, Same, Changes, Fields
  <2> QED
    BY <2>1, <2>2, <2>3, CheckedAddCounterEffect
<1>4. CASE pc = 3
  <2>1. store_stream(p[3])
    BY <1>4 DEF execute
  <2>2. /\ Changes({"streams", "paid", "refunded"})
        /\ working'.streams = Put(working.streams, p[3].id, p[3].stream)
        /\ working'.paid = WithEntry(working.paid, p[3].id)
        /\ working'.refunded = WithEntry(working.refunded, p[3].id)
    BY <2>1, StoreStreamEffect
  <2>3. /\ working.paid = env.paid /\ working.refunded = env.refunded
        /\ working.streams = env.streams
    BY <1>4 DEF CreateStage, Same
  <2> QED
    BY <2>2, <2>3, <1>4 DEF CreateStage, Same, Changes, Fields
<1>5. CASE pc = 4
  <2>1. write_counter(p[4])
    BY <1>5 DEF execute
  <2>2. /\ Changes({"counter"})
        /\ working'.counter = p[4].next
    BY <2>1, WriteCounterEffect
  <2> QED
    BY <2>2, <1>5 DEF CreateStage, Same, Changes, Fields
<1>6. CASE pc = 5
  <2>1. write_total_supply(p[5])
    BY <1>6 DEF execute
  <2>2. /\ Changes({"total_supply"})
        /\ working'.total_supply = p[5].supply
    BY <2>1, WriteTotalSupplyEffect
  <2> QED
    BY <2>2, <1>6 DEF CreateStage, Same, Changes, Fields
<1>7. CASE pc = 6
  <2>1. publish(p[6])
    BY <1>7 DEF execute
  <2>2. /\ Changes({"book"})
        /\ working'.book = Learn(working.book, p[6].event)
    BY <2>1, PublishEffect
  <2> QED
    BY <2>2, <1>7 DEF CreateStage, Same, Changes, Fields
<1> QED
  BY <1>1, <1>2, <1>3, <1>4, <1>5, <1>6, <1>7

LEMMA TopUpSteps ==
  ASSUME NEW env, NEW p,
         p[1].do = "escrow", p[2].do = "write_stream",
         p[3].do = "write_total_supply", p[4].do = "publish",
         p[5].do = "return",
         WithEntry(env.paid, p[2].id) = env.paid,
         WithEntry(env.refunded, p[2].id) = env.refunded,
         env.untracked + p[1].untracked = env.untracked,
         TopUpStage(env, p, pc, working), DOMAIN working = Fields,
         execute(p[pc]), p[pc].do # "return"
  PROVE  TopUpStage(env, p, pc + 1, working') /\ Changes(Fields)
<1>1. pc \in 1..4
  BY DEF TopUpStage
<1>2. CASE pc = 1
  <2>1. escrow(p[1])
    BY <1>2 DEF execute
  <2>2. /\ Changes({"balance", "untracked"})
        /\ p[1].amount > 0 => CanPay(working.balance, p[1].from, p[1].amount)
        /\ working'.balance = Transfer(working.balance, p[1].from, Contract, p[1].amount)
        /\ working'.untracked = working.untracked + p[1].untracked
    BY <2>1, EscrowEffect DEF affordable
  <2> QED
    BY <2>2, <1>2 DEF TopUpStage, Same, Changes, Fields
<1>3. CASE pc = 2
  <2>1. store_stream(p[2])
    BY <1>3 DEF execute
  <2>2. /\ Changes({"streams", "paid", "refunded"})
        /\ working'.streams = Put(working.streams, p[2].id, p[2].stream)
        /\ working'.paid = WithEntry(working.paid, p[2].id)
        /\ working'.refunded = WithEntry(working.refunded, p[2].id)
    BY <2>1, StoreStreamEffect
  <2>3. /\ working.paid = env.paid /\ working.refunded = env.refunded
        /\ working.streams = env.streams
    BY <1>3 DEF TopUpStage, Same
  <2>4. working'.paid = env.paid /\ working'.refunded = env.refunded
    BY <2>2, <2>3
  <2> QED
    BY <2>2, <2>3, <2>4, <1>3 DEF TopUpStage, Same, Changes, Fields
<1>4. CASE pc = 3
  <2>1. write_total_supply(p[3])
    BY <1>4 DEF execute
  <2>2. /\ Changes({"total_supply"})
        /\ working'.total_supply = p[3].supply
    BY <2>1, WriteTotalSupplyEffect
  <2> QED
    BY <2>2, <1>4 DEF TopUpStage, Same, Changes, Fields
<1>5. CASE pc = 4
  <2>1. publish(p[4])
    BY <1>5 DEF execute
  <2>2. /\ Changes({"book"})
        /\ working'.book = Learn(working.book, p[4].event)
    BY <2>1, PublishEffect
  <2> QED
    BY <2>2, <1>5 DEF TopUpStage, Same, Changes, Fields
<1> QED
  BY <1>1, <1>2, <1>3, <1>4, <1>5

LEMMA ExtendSteps ==
  ASSUME NEW env, NEW p,
         p[1].do = "write_stream", p[2].do = "publish", p[3].do = "return",
         WithEntry(env.paid, p[1].id) = env.paid,
         WithEntry(env.refunded, p[1].id) = env.refunded,
         ExtendStage(env, p, pc, working), DOMAIN working = Fields,
         execute(p[pc]), p[pc].do # "return"
  PROVE  ExtendStage(env, p, pc + 1, working') /\ Changes(Fields)
<1>1. pc \in 1..2
  BY DEF ExtendStage
<1>2. CASE pc = 1
  <2>1. store_stream(p[1])
    BY <1>2 DEF execute
  <2>2. /\ Changes({"streams", "paid", "refunded"})
        /\ working'.streams = Put(working.streams, p[1].id, p[1].stream)
        /\ working'.paid = WithEntry(working.paid, p[1].id)
        /\ working'.refunded = WithEntry(working.refunded, p[1].id)
    BY <2>1, StoreStreamEffect
  <2>3. /\ working.paid = env.paid /\ working.refunded = env.refunded
        /\ working.streams = env.streams
    BY <1>2 DEF ExtendStage, Same
  <2>4. working'.paid = env.paid /\ working'.refunded = env.refunded
    BY <2>2, <2>3
  <2> QED
    BY <2>2, <2>3, <2>4, <1>2 DEF ExtendStage, Same, Changes, Fields
<1>3. CASE pc = 2
  <2>1. publish(p[2])
    BY <1>3 DEF execute
  <2>2. /\ Changes({"book"})
        /\ working'.book = Learn(working.book, p[2].event)
    BY <2>1, PublishEffect
  <2> QED
    BY <2>2, <1>3 DEF ExtendStage, Same, Changes, Fields
<1> QED
  BY <1>1, <1>2, <1>3

LEMMA WithdrawSteps ==
  ASSUME NEW env, NEW p,
         p[1].do = "write_stream", p[2].do = "pay",
         p[3].do = "reduce_total_supply", p[4].do = "publish",
         p[5].do = "return",
         WithEntry(env.paid, p[1].id) = env.paid,
         WithEntry(env.refunded, p[1].id) = env.refunded,
         WithdrawStage(env, p, pc, working), DOMAIN working = Fields,
         execute(p[pc]), p[pc].do # "return"
  PROVE  WithdrawStage(env, p, pc + 1, working') /\ Changes(Fields)
<1>1. pc \in 1..4
  BY DEF WithdrawStage
<1>2. CASE pc = 1
  <2>1. store_stream(p[1])
    BY <1>2 DEF execute
  <2>2. /\ Changes({"streams", "paid", "refunded"})
        /\ working'.streams = Put(working.streams, p[1].id, p[1].stream)
        /\ working'.paid = WithEntry(working.paid, p[1].id)
        /\ working'.refunded = WithEntry(working.refunded, p[1].id)
    BY <2>1, StoreStreamEffect
  <2>3. /\ working.paid = env.paid /\ working.refunded = env.refunded
        /\ working.streams = env.streams
    BY <1>2 DEF WithdrawStage, Same
  <2>4. working'.paid = env.paid /\ working'.refunded = env.refunded
    BY <2>2, <2>3
  <2> QED
    BY <2>2, <2>3, <2>4, <1>2 DEF WithdrawStage, Same, Changes, Fields
<1>3. CASE pc = 2
  <2>1. pay(p[2])
    BY <1>3 DEF execute
  <2>2. /\ Changes({"balance", "paid"})
        /\ CanPayOut(working.balance, p[2].amount)
        /\ working'.balance = PayOut(working.balance, p[2].to, p[2].amount)
        /\ working'.paid = Plus(working.paid, p[2].id, Transferred(p[2].amount))
    BY <2>1, PayEffect DEF affordable, CanPayOut
  <2> QED
    BY <2>2, <1>3 DEF WithdrawStage, Same, Changes, Fields
<1>4. CASE pc = 3
  <2>1. reduce_total_supply(p[3])
    BY <1>4 DEF execute
  <2>2. /\ Changes({"total_supply"})
        /\ working'.total_supply = reduced(working.total_supply, p[3].amount)
    BY <2>1, ReduceTotalSupplyEffect
  <2> QED
    BY <2>2, <1>4 DEF WithdrawStage, Same, Changes, Fields
<1>5. CASE pc = 4
  <2>1. publish(p[4])
    BY <1>5 DEF execute
  <2>2. /\ Changes({"book"})
        /\ working'.book = Learn(working.book, p[4].event)
    BY <2>1, PublishEffect
  <2> QED
    BY <2>2, <1>5 DEF WithdrawStage, Same, Changes, Fields
<1> QED
  BY <1>1, <1>2, <1>3, <1>4, <1>5

LEMMA CancelSteps ==
  ASSUME NEW env, NEW p,
         p[1].do = "write_stream", p[2].do = "pay", p[3].do = "refund",
         p[4].do = "reduce_total_supply", p[5].do = "publish",
         p[6].do = "return",
         WithEntry(env.paid, p[1].id) = env.paid,
         WithEntry(env.refunded, p[1].id) = env.refunded,
         CancelStage(env, p, pc, working), DOMAIN working = Fields,
         execute(p[pc]), p[pc].do # "return"
  PROVE  CancelStage(env, p, pc + 1, working') /\ Changes(Fields)
<1>1. pc \in 1..5
  BY DEF CancelStage
<1>2. CASE pc = 1
  <2>1. store_stream(p[1])
    BY <1>2 DEF execute
  <2>2. /\ Changes({"streams", "paid", "refunded"})
        /\ working'.streams = Put(working.streams, p[1].id, p[1].stream)
        /\ working'.paid = WithEntry(working.paid, p[1].id)
        /\ working'.refunded = WithEntry(working.refunded, p[1].id)
    BY <2>1, StoreStreamEffect
  <2>3. /\ working.paid = env.paid /\ working.refunded = env.refunded
        /\ working.streams = env.streams
    BY <1>2 DEF CancelStage, Same
  <2>4. working'.paid = env.paid /\ working'.refunded = env.refunded
    BY <2>2, <2>3
  <2> QED
    BY <2>2, <2>3, <2>4, <1>2 DEF CancelStage, Same, Changes, Fields
<1>3. CASE pc = 2
  <2>1. pay(p[2])
    BY <1>3 DEF execute
  <2>2. /\ Changes({"balance", "paid"})
        /\ CanPayOut(working.balance, p[2].amount)
        /\ working'.balance = PayOut(working.balance, p[2].to, p[2].amount)
        /\ working'.paid = Plus(working.paid, p[2].id, Transferred(p[2].amount))
    BY <2>1, PayEffect DEF affordable, CanPayOut
  <2> QED
    BY <2>2, <1>3 DEF CancelStage, Same, Changes, Fields
<1>4. CASE pc = 3
  <2>1. refund(p[3])
    BY <1>4 DEF execute
  <2>2. /\ Changes({"balance", "refunded"})
        /\ CanPayOut(working.balance, p[3].amount)
        /\ working'.balance = PayOut(working.balance, p[3].to, p[3].amount)
        /\ working'.refunded = Plus(working.refunded, p[3].id, Transferred(p[3].amount))
    BY <2>1, RefundEffect DEF affordable, CanPayOut
  <2> QED
    BY <2>2, <1>4 DEF CancelStage, Same, Changes, Fields
<1>5. CASE pc = 4
  <2>1. reduce_total_supply(p[4])
    BY <1>5 DEF execute
  <2>2. /\ Changes({"total_supply"})
        /\ working'.total_supply = reduced(working.total_supply, p[4].amount)
    BY <2>1, ReduceTotalSupplyEffect
  <2> QED
    BY <2>2, <1>5 DEF CancelStage, Same, Changes, Fields
<1>6. CASE pc = 5
  <2>1. publish(p[5])
    BY <1>6 DEF execute
  <2>2. /\ Changes({"book"})
        /\ working'.book = Learn(working.book, p[5].event)
    BY <2>1, PublishEffect
  <2> QED
    BY <2>2, <1>6 DEF CancelStage, Same, Changes, Fields
<1> QED
  BY <1>1, <1>2, <1>3, <1>4, <1>5, <1>6

LEMMA SetSupplyCapSteps ==
  ASSUME NEW env, NEW p,
         p[1].do = "write_supply_cap", p[2].do = "publish",
         p[3].do = "return",
         SetSupplyCapStage(env, p, pc, working), DOMAIN working = Fields,
         execute(p[pc]), p[pc].do # "return"
  PROVE  SetSupplyCapStage(env, p, pc + 1, working') /\ Changes(Fields)
<1>1. pc \in 1..2
  BY DEF SetSupplyCapStage
<1>2. CASE pc = 1
  <2>1. write_supply_cap(p[1])
    BY <1>2 DEF execute
  <2>2. /\ Changes({"supply_cap"})
        /\ working'.supply_cap = p[1].cap
    BY <2>1, WriteSupplyCapEffect
  <2> QED
    BY <2>2, <1>2 DEF SetSupplyCapStage, Same, Changes, Fields
<1>3. CASE pc = 2
  <2>1. publish(p[2])
    BY <1>3 DEF execute
  <2>2. /\ Changes({"book"})
        /\ working'.book = Learn(working.book, p[2].event)
    BY <2>1, PublishEffect
  <2> QED
    BY <2>2, <1>3 DEF SetSupplyCapStage, Same, Changes, Fields
<1> QED
  BY <1>1, <1>2, <1>3

-----------------------------------------------------------------------------
(* The statements of create_stream_batch: a loop                           *)

\* The first i streams of the batch are stored, the first j announced.
OpenedStreams(env, p, i) ==
  [k \in 0..(env.counter + i - 1) |->
     IF k < env.counter THEN env.streams[k] ELSE p[2 * (k - env.counter + 1)].stream]

AnnouncedStreams(env, p, j) ==
  [k \in 0..(env.counter + j - 1) |->
     IF k < env.counter THEN env.book.streams[k]
     ELSE NewEntry(p[2 * (k - env.counter + 1) + 1].event)]

\* In between: i streams stored, j announced, the counter not yet written.
Opening(env, p, i, j, w) ==
  /\ Same(env, w, {"initialized", "total_supply", "supply_cap", "timestamp"})
  /\ w.balance = Transfer(env.balance, p[1].from, Contract, p[1].amount)
  /\ p[1].amount > 0 => CanPay(env.balance, p[1].from, p[1].amount)
  /\ w.untracked = env.untracked + p[1].untracked
  /\ w.streams = OpenedStreams(env, p, i)
  /\ w.paid = Opened(env.paid, env.counter + i)
  /\ w.refunded = Opened(env.refunded, env.counter + i)
  /\ DOMAIN w.book = {"streams", "cap"} /\ w.book.cap = env.book.cap
  /\ w.book.streams = AnnouncedStreams(env, p, j)

BatchStage(env, p, count, n, w) ==
  \/ n = 1 /\ Same(env, w, Fields)
  \/ \E i \in 0..count :
       n = 2 * i + 2 /\ Opening(env, p, i, i, w) /\ w.counter = env.counter
  \/ \E i \in 0..(count - 1) :
       n = 2 * i + 3 /\ Opening(env, p, i + 1, i, w) /\ w.counter = env.counter
  \/ /\ n = 2 * count + 3 /\ Opening(env, p, count, count, w)
     /\ w.counter = p[2 * count + 2].next

\* The statements of a batch of count requests.
BatchProgram(env, p, count) ==
  /\ p[1].do = "escrow"
  /\ \A i \in 1..count :
       /\ p[2 * i].do = "write_stream" /\ p[2 * i].id = env.counter + i - 1
       /\ p[2 * i + 1].do = "publish" /\ p[2 * i + 1].event.topic = "created"
       /\ p[2 * i + 1].event.id = env.counter + i - 1
  /\ p[2 * count + 2].do = "write_counter"
  /\ p[2 * count + 3].do = "return"

\* The ledger has a stream, a history and a book entry for each id.
Numbered(env) ==
  /\ env.counter \in Nat
  /\ env.streams = [k \in 0..(env.counter - 1) |-> env.streams[k]]
  /\ env.paid \in [0..(env.counter - 1) -> Nat]
  /\ env.refunded \in [0..(env.counter - 1) -> Nat]
  /\ DOMAIN env.book = {"streams", "cap"}
  /\ env.book.streams = [k \in 0..(env.counter - 1) |-> env.book.streams[k]]

\* One more stream stored ...
LEMMA StoreOpened ==
  ASSUME NEW env, NEW p, Numbered(env), NEW i \in Nat
  PROVE  Put(OpenedStreams(env, p, i), env.counter + i, p[2 * (i + 1)].stream)
           = OpenedStreams(env, p, i + 1)
<1> DEFINE f == OpenedStreams(env, p, i)
           g == OpenedStreams(env, p, i + 1)
           n == env.counter + i
<1>1. env.counter \in Nat /\ n \in Nat /\ i \in Nat
  BY DEF Numbered
<1>2. /\ DOMAIN f = 0..(n - 1)
      /\ g = [k \in 0..n |-> g[k]]
  BY <1>1 DEF OpenedStreams
<1>3. \A k \in 0..(n - 1) : f[k] = g[k]
  BY <1>1 DEF OpenedStreams
<1>4. g[n] = p[2 * (i + 1)].stream
  <2>1. /\ n \in 0..(env.counter + (i + 1) - 1) /\ ~(n < env.counter)
        /\ n - env.counter + 1 = i + 1
    BY <1>1
  <2> QED
    BY <2>1 DEF OpenedStreams
<1>5. (0..(n - 1)) \cup {n} = 0..n
  BY <1>1
<1> HIDE DEF f, g, n
<1>6. Put(f, n, g[n]) = [k \in 0..n |-> IF k = n THEN g[n] ELSE f[k]]
  BY <1>2, <1>5 DEF Put
<1>7. Put(f, n, g[n]) = [k \in 0..n |-> g[k]]
  BY <1>1, <1>3, <1>6
<1> QED
  BY <1>2, <1>4, <1>7 DEF f, g, n

\* ... announced ...
LEMMA AnnounceOpened ==
  ASSUME NEW env, NEW p, Numbered(env), NEW i \in Nat
  PROVE  Put(AnnouncedStreams(env, p, i), env.counter + i,
             NewEntry(p[2 * (i + 1) + 1].event))
           = AnnouncedStreams(env, p, i + 1)
<1> DEFINE f == AnnouncedStreams(env, p, i)
           g == AnnouncedStreams(env, p, i + 1)
           n == env.counter + i
<1>1. env.counter \in Nat /\ n \in Nat /\ i \in Nat
  BY DEF Numbered
<1>2. /\ DOMAIN f = 0..(n - 1)
      /\ g = [k \in 0..n |-> g[k]]
  BY <1>1 DEF AnnouncedStreams
<1>3. \A k \in 0..(n - 1) : f[k] = g[k]
  BY <1>1 DEF AnnouncedStreams
<1>4. g[n] = NewEntry(p[2 * (i + 1) + 1].event)
  <2>1. /\ n \in 0..(env.counter + (i + 1) - 1) /\ ~(n < env.counter)
        /\ n - env.counter + 1 = i + 1
    BY <1>1
  <2> QED
    BY <2>1 DEF AnnouncedStreams
<1>5. (0..(n - 1)) \cup {n} = 0..n
  BY <1>1
<1> HIDE DEF f, g, n
<1>6. Put(f, n, g[n]) = [k \in 0..n |-> IF k = n THEN g[n] ELSE f[k]]
  BY <1>2, <1>5 DEF Put
<1>7. Put(f, n, g[n]) = [k \in 0..n |-> g[k]]
  BY <1>1, <1>3, <1>6
<1> QED
  BY <1>2, <1>4, <1>7 DEF f, g, n

\* ... and with its history.
LEMMA EntryOpened ==
  ASSUME NEW n \in Nat, NEW history \in [0..(n - 1) -> Nat], NEW m \in Nat, n <= m
  PROVE  WithEntry(Opened(history, m), m) = Opened(history, m + 1)
<1>1. 0..(m - 1) \cup {m} = 0..((m + 1) - 1)
  OBVIOUS
<1>2. m \notin 0..(m - 1) /\ m \notin 0..(n - 1)
  OBVIOUS
<1> QED
  BY <1>1, <1>2 DEF WithEntry, Put, Opened

\* Before the loop nothing is.
LEMMA OpenedNone ==
  ASSUME NEW env, NEW p, Numbered(env)
  PROVE  /\ OpenedStreams(env, p, 0) = env.streams
         /\ AnnouncedStreams(env, p, 0) = env.book.streams
         /\ Opened(env.paid, env.counter + 0) = env.paid
         /\ Opened(env.refunded, env.counter + 0) = env.refunded
<1>1. /\ env.counter \in Nat /\ env.counter + 0 = env.counter
      /\ env.counter + 0 - 1 = env.counter - 1
  BY DEF Numbered
<1>2. OpenedStreams(env, p, 0) = [k \in 0..(env.counter - 1) |-> env.streams[k]]
  BY <1>1 DEF OpenedStreams
<1>3. AnnouncedStreams(env, p, 0) = [k \in 0..(env.counter - 1) |-> env.book.streams[k]]
  BY <1>1 DEF AnnouncedStreams
<1>4. Opened(env.paid, env.counter + 0) = env.paid
  BY <1>1 DEF Opened, Numbered
<1>5. Opened(env.refunded, env.counter + 0) = env.refunded
  BY <1>1 DEF Opened, Numbered
<1> QED
  BY <1>2, <1>3, <1>4, <1>5 DEF Numbered

\* What created adds to the book.
LEMMA LearnCreated ==
  ASSUME NEW b, NEW e, e.topic = "created", DOMAIN b = {"streams", "cap"}
  PROVE  /\ DOMAIN Learn(b, e) = {"streams", "cap"}
         /\ Learn(b, e).cap = b.cap
         /\ Learn(b, e).streams = Put(b.streams, e.id, NewEntry(e))
<1>1. Learn(b, e) = [b EXCEPT !.streams = Put(@, e.id, NewEntry(e))]
  BY DEF Learn
<1> QED
  BY <1>1

\* Every statement but the last moves a batch one stage on.
LEMMA BatchSteps ==
  ASSUME NEW env, NEW p, NEW count \in Nat, BatchProgram(env, p, count), Numbered(env),
         BatchStage(env, p, count, pc, working), DOMAIN working = Fields,
         execute(p[pc]), p[pc].do # "return"
  PROVE  BatchStage(env, p, count, pc + 1, working') /\ Changes(Fields)
<1>0. env.counter \in Nat
  BY DEF Numbered
<1>1. CASE pc = 1 /\ Same(env, working, Fields)
  <2>1. escrow(p[1])
    BY <1>1 DEF execute, BatchProgram
  <2>2. /\ Changes({"balance", "untracked"})
        /\ p[1].amount > 0 => CanPay(working.balance, p[1].from, p[1].amount)
        /\ working'.balance = Transfer(working.balance, p[1].from, Contract, p[1].amount)
        /\ working'.untracked = working.untracked + p[1].untracked
    BY <2>1, EscrowEffect DEF affordable
  <2>3. /\ working.balance = env.balance /\ working.untracked = env.untracked
        /\ working.streams = env.streams /\ working.paid = env.paid
        /\ working.refunded = env.refunded /\ working.book = env.book
        /\ working.counter = env.counter
    BY <1>1 DEF Same, Fields
  <2>4. /\ working'.streams = OpenedStreams(env, p, 0)
        /\ working'.paid = Opened(env.paid, env.counter + 0)
        /\ working'.refunded = Opened(env.refunded, env.counter + 0)
        /\ working'.book = env.book /\ working'.counter = env.counter
        /\ working'.book.streams = AnnouncedStreams(env, p, 0)
    BY <2>2, <2>3, OpenedNone DEF Changes, Fields
  <2>5. Same(env, working', {"initialized", "total_supply", "supply_cap", "timestamp"})
    BY <2>2, <1>1 DEF Same, Changes, Fields
  <2>6. Opening(env, p, 0, 0, working')
    BY <2>2, <2>3, <2>4, <2>5 DEF Opening, Numbered
  <2>7. 0 \in 0..count /\ pc + 1 = 2 * 0 + 2
    BY <1>1
  <2>8. BatchStage(env, p, count, pc + 1, working')
    BY <2>4, <2>6, <2>7 DEF BatchStage
  <2> QED
    BY <2>2, <2>8 DEF Changes, Fields
<1>2. ASSUME NEW i \in 0..count, pc = 2 * i + 2, Opening(env, p, i, i, working),
             working.counter = env.counter, i # count
      PROVE  BatchStage(env, p, count, pc + 1, working') /\ Changes(Fields)
  <2>1. /\ i + 1 \in 1..count /\ pc = 2 * (i + 1) /\ i \in Nat
        /\ env.counter + (i + 1) - 1 = env.counter + i
    BY <1>0, <1>2
  <2>2. store_stream(p[pc]) /\ p[pc].id = env.counter + i
    BY <2>1 DEF execute, BatchProgram
  <2>3. /\ Changes({"streams", "paid", "refunded"})
        /\ working'.streams = Put(working.streams, p[pc].id, p[pc].stream)
        /\ working'.paid = WithEntry(working.paid, p[pc].id)
        /\ working'.refunded = WithEntry(working.refunded, p[pc].id)
    BY <2>2, StoreStreamEffect
  <2>4. working'.streams = OpenedStreams(env, p, i + 1)
    BY <2>1, <2>2, <2>3, <1>2, StoreOpened DEF Opening
  <2>5. /\ WithEntry(Opened(env.paid, env.counter + i), env.counter + i)
             = Opened(env.paid, (env.counter + i) + 1)
        /\ WithEntry(Opened(env.refunded, env.counter + i), env.counter + i)
             = Opened(env.refunded, (env.counter + i) + 1)
    <3>1. env.counter + i \in Nat /\ env.counter <= env.counter + i
      BY <1>0, <2>1
    <3> QED
      BY <1>0, <3>1, EntryOpened DEF Numbered
  <2>6. (env.counter + i) + 1 = env.counter + (i + 1)
    BY <1>0, <2>1
  <2>7. /\ working'.paid = Opened(env.paid, env.counter + (i + 1))
        /\ working'.refunded = Opened(env.refunded, env.counter + (i + 1))
    BY <2>2, <2>3, <2>5, <2>6, <1>2 DEF Opening
  <2>8. /\ \A f \in Fields \ {"streams", "paid", "refunded"} : working'[f] = working[f]
        /\ working'.balance = working.balance /\ working'.untracked = working.untracked
        /\ working'.book = working.book /\ working'.counter = working.counter
    BY <2>3 DEF Changes, Fields
  <2>9. Same(env, working', {"initialized", "total_supply", "supply_cap", "timestamp"})
    BY <2>8, <1>2 DEF Same, Opening, Fields
  <2>10. Opening(env, p, i + 1, i, working')
    BY <2>4, <2>7, <2>8, <2>9, <1>2 DEF Opening
  <2>11. i \in 0..(count - 1) /\ pc + 1 = 2 * i + 3
    BY <2>1, <1>2
  <2>12. BatchStage(env, p, count, pc + 1, working')
    BY <2>8, <2>10, <2>11, <1>2 DEF BatchStage
  <2> QED
    BY <2>3, <2>12 DEF Changes, Fields
<1>3. ASSUME pc = 2 * count + 2, Opening(env, p, count, count, working),
             working.counter = env.counter
      PROVE  BatchStage(env, p, count, pc + 1, working') /\ Changes(Fields)
  <2>1. write_counter(p[2 * count + 2])
    BY <1>3 DEF execute, BatchProgram
  <2>2. Changes({"counter"}) /\ working'.counter = p[2 * count + 2].next
    BY <2>1, WriteCounterEffect
  <2>3. /\ \A f \in Fields \ {"counter"} : working'[f] = working[f]
        /\ working'.balance = working.balance /\ working'.untracked = working.untracked
        /\ working'.book = working.book /\ working'.streams = working.streams
        /\ working'.paid = working.paid /\ working'.refunded = working.refunded
    BY <2>2 DEF Changes, Fields
  <2>4. Same(env, working', {"initialized", "total_supply", "supply_cap", "timestamp"})
    BY <2>3, <1>3 DEF Same, Opening, Fields
  <2>5. Opening(env, p, count, count, working')
    BY <2>3, <2>4, <1>3 DEF Opening
  <2>6. pc + 1 = 2 * count + 3
    BY <1>3
  <2>7. BatchStage(env, p, count, pc + 1, working')
    BY <2>2, <2>5, <2>6 DEF BatchStage
  <2> QED
    BY <2>2, <2>7 DEF Changes, Fields
<1>4. ASSUME NEW i \in 0..(count - 1), pc = 2 * i + 3, Opening(env, p, i + 1, i, working),
             working.counter = env.counter
      PROVE  BatchStage(env, p, count, pc + 1, working') /\ Changes(Fields)
  <2>1. /\ i + 1 \in 1..count /\ pc = 2 * (i + 1) + 1 /\ i \in Nat
        /\ env.counter + (i + 1) - 1 = env.counter + i
    BY <1>0, <1>4
  <2>2. /\ publish(p[pc]) /\ p[pc].event.id = env.counter + i
        /\ p[pc].event.topic = "created"
    BY <2>1 DEF execute, BatchProgram
  <2>3. Changes({"book"}) /\ working'.book = Learn(working.book, p[pc].event)
    BY <2>2, PublishEffect
  <2>4. /\ DOMAIN working'.book = {"streams", "cap"}
        /\ working'.book.cap = env.book.cap
        /\ working'.book.streams = Put(AnnouncedStreams(env, p, i), env.counter + i,
                                       NewEntry(p[pc].event))
    <3> DEFINE e == p[pc].event
               b == working.book
    <3>1. /\ DOMAIN b = {"streams", "cap"} /\ b.cap = env.book.cap
          /\ b.streams = AnnouncedStreams(env, p, i)
      BY <1>4 DEF Opening
    <3>2. e.topic = "created" /\ e.id = env.counter + i /\ working'.book = Learn(b, e)
      BY <2>2, <2>3
    <3> HIDE DEF e, b
    <3>3. /\ DOMAIN Learn(b, e) = {"streams", "cap"}
          /\ Learn(b, e).cap = b.cap
          /\ Learn(b, e).streams = Put(b.streams, e.id, NewEntry(e))
      BY <3>1, <3>2, LearnCreated
    <3>4. e = p[pc].event
      BY DEF e
    <3> QED
      BY <3>1, <3>2, <3>3, <3>4
  <2>5. working'.book.streams = AnnouncedStreams(env, p, i + 1)
    BY <2>1, <2>4, AnnounceOpened
  <2>6. /\ \A f \in Fields \ {"book"} : working'[f] = working[f]
        /\ working'.balance = working.balance /\ working'.untracked = working.untracked
        /\ working'.streams = working.streams /\ working'.counter = working.counter
        /\ working'.paid = working.paid /\ working'.refunded = working.refunded
    BY <2>3 DEF Changes, Fields
  <2>7. Same(env, working', {"initialized", "total_supply", "supply_cap", "timestamp"})
    BY <2>6, <1>4 DEF Same, Opening, Fields
  <2>8. Opening(env, p, i + 1, i + 1, working')
    BY <2>4, <2>5, <2>6, <2>7, <1>4 DEF Opening
  <2>9. i + 1 \in 0..count /\ pc + 1 = 2 * (i + 1) + 2
    BY <2>1
  <2>10. BatchStage(env, p, count, pc + 1, working')
    BY <2>6, <2>8, <2>9, <1>4 DEF BatchStage
  <2> QED
    BY <2>3, <2>10 DEF Changes, Fields
<1>5. CASE pc = 2 * count + 3
  BY <1>5 DEF BatchProgram
<1> QED
  BY <1>1, <1>2, <1>3, <1>4, <1>5 DEF BatchStage


-----------------------------------------------------------------------------
(* The checks                                                              *)

\* first_error tells whether all checks passed, or else which failed first.
LEMMA FirstError ==
  ASSUME NEW checks, DOMAIN checks \subseteq Nat
  PROVE  \/ first_error(checks) = "Ok" /\ \A i \in DOMAIN checks : checks[i] = "Ok"
         \/ \E i \in DOMAIN checks :
              /\ checks[i] # "Ok" /\ first_error(checks) = checks[i]
              /\ \A j \in DOMAIN checks : j < i => checks[j] = "Ok"
<1> DEFINE failed == {i \in DOMAIN checks : checks[i] # "Ok"}
<1>1. CASE failed = {}
  BY <1>1 DEF first_error
<1>2. CASE failed # {}
  <2>1. failed \subseteq Nat
    OBVIOUS
  <2> HIDE DEF failed
  <2>2. PICK i \in failed : \A j \in failed : ~(j < i)
    BY <1>2, <2>1, NatLeast
  <2>3. \A j \in failed : i <= j
    BY <2>1, <2>2
  <2>4. Min(failed) \in failed /\ \A j \in failed : Min(failed) <= j
    BY <2>3 DEF Min
  <2>5. first_error(checks) = checks[Min(failed)]
    BY <1>2 DEF first_error, failed
  <2> QED
    BY <2>1, <2>4, <2>5 DEF failed
<1> QED
  BY <1>1, <1>2

\* Ok is the answer only when every check passed.
LEMMA AllPassed ==
  ASSUME NEW checks, DOMAIN checks \subseteq Nat, first_error(checks) = "Ok"
  PROVE  \A i \in DOMAIN checks : checks[i] = "Ok"
  BY FirstError

\* What the checks that several entrypoints share let through.
LEMMA AmountPassed ==
  ASSUME NEW amount, amount_error(amount) = "Ok"
  PROVE  /\ is_valid_amount(amount)
         /\ amount >= MIN_STREAM_AMOUNT
<1> DEFINE checks == << require(is_valid_amount(amount), "InvalidAmount"),
                       require(amount >= MIN_STREAM_AMOUNT, "AmountBelowMinimum") >>
<1>1. /\ DOMAIN checks = 1..2
      /\ checks[1] = require(is_valid_amount(amount), "InvalidAmount")
      /\ checks[2] = require(amount >= MIN_STREAM_AMOUNT, "AmountBelowMinimum")
  OBVIOUS
<1>2. first_error(checks) = "Ok"
  BY DEF amount_error
<1> HIDE DEF checks
<1>3. checks[1] = "Ok" /\ checks[2] = "Ok"
  BY <1>1, <1>2, AllPassed
<1> QED
  BY <1>1, <1>3 DEF require

LEMMA WindowPassed ==
  ASSUME NEW env, NEW start, NEW end, window_error(env, start, end) = "Ok"
  PROVE  /\ end > start
         /\ end > env.timestamp
<1> DEFINE checks == << require(end > start, "InvalidTimeRange"),
                       require(end > env.timestamp, "EndTimeInPast") >>
<1>1. /\ DOMAIN checks = 1..2
      /\ checks[1] = require(end > start, "InvalidTimeRange")
      /\ checks[2] = require(end > env.timestamp, "EndTimeInPast")
  OBVIOUS
<1>2. first_error(checks) = "Ok"
  BY DEF window_error
<1> HIDE DEF checks
<1>3. checks[1] = "Ok" /\ checks[2] = "Ok"
  BY <1>1, <1>2, AllPassed
<1> QED
  BY <1>1, <1>3 DEF require

LEMMA SupplyPassed ==
  ASSUME NEW env, NEW amount, supply_error(env, amount) = "Ok"
  PROVE  /\ env.total_supply + amount <= I128MAX
         /\ env.total_supply + amount <= env.supply_cap
<1> DEFINE checks == << require(env.total_supply + amount <= I128MAX, "Overflow"),
                       require(env.total_supply + amount <= env.supply_cap,
                               "SupplyCapExceeded") >>
<1>1. /\ DOMAIN checks = 1..2
      /\ checks[1] = require(env.total_supply + amount <= I128MAX, "Overflow")
      /\ checks[2] = require(env.total_supply + amount <= env.supply_cap, "SupplyCapExceeded")
  OBVIOUS
<1>2. first_error(checks) = "Ok"
  BY DEF supply_error
<1> HIDE DEF checks
<1>3. checks[1] = "Ok" /\ checks[2] = "Ok"
  BY <1>1, <1>2, AllPassed
<1> QED
  BY <1>1, <1>3 DEF require

\* The checks of code c let the call through.
Passed(c) == first_error(c.checks) = "Ok"

\* What the checks of each entrypoint let through.
LEMMA CreatePassed ==
  ASSUME NEW env, NEW sender, NEW request,
         Passed(create_stream_code(env, sender, request))
  PROVE  LET start  == normalize_start_time(env.timestamp, request.start_time)
             amount == request.total_amount
         IN  /\ env.initialized
             /\ is_valid_amount(amount) /\ amount >= MIN_STREAM_AMOUNT
             /\ request.end_time > start /\ request.end_time > env.timestamp
             /\ env.total_supply + amount <= I128MAX
             /\ env.total_supply + amount <= env.supply_cap
<1> DEFINE start  == normalize_start_time(env.timestamp, request.start_time)
           amount == request.total_amount
           checks == create_stream_code(env, sender, request).checks
<1>1. /\ DOMAIN checks = 1..4
      /\ checks[1] = require(env.initialized, "NotInitialized")
      /\ checks[2] = amount_error(amount)
      /\ checks[3] = window_error(env, start, request.end_time)
      /\ checks[4] = supply_error(env, amount)
  BY DEF create_stream_code
<1>2. first_error(checks) = "Ok"
  BY DEF Passed
<1> HIDE DEF checks
<1>3. \A i \in 1..4 : checks[i] = "Ok"
  BY <1>1, <1>2, AllPassed
<1>4. env.initialized
  BY <1>1, <1>3 DEF require
<1>5. is_valid_amount(amount) /\ amount >= MIN_STREAM_AMOUNT
  BY <1>1, <1>3, AmountPassed
<1>6. request.end_time > start /\ request.end_time > env.timestamp
  BY <1>1, <1>3, WindowPassed
<1>7. /\ env.total_supply + amount <= I128MAX
      /\ env.total_supply + amount <= env.supply_cap
  BY <1>1, <1>3, SupplyPassed
<1> QED
  BY <1>4, <1>5, <1>6, <1>7

LEMMA InitializePassed ==
  ASSUME NEW env,
         Passed(initialize_code(env))
  PROVE  /\ ~env.initialized
<1> DEFINE checks == initialize_code(env).checks
<1>1. /\ DOMAIN checks = 1..1
      /\ checks[1] = require(~env.initialized, "AlreadyInitialized")
  BY DEF initialize_code
<1>2. first_error(checks) = "Ok"
  BY DEF Passed
<1> HIDE DEF checks
<1>3. \A i \in 1..1 : checks[i] = "Ok"
  BY <1>1, <1>2, AllPassed
<1>4. ~env.initialized
  BY <1>1, <1>3 DEF require
<1> QED
  BY <1>4

LEMMA TopUpPassed ==
  ASSUME NEW env, NEW id, NEW sender, NEW amount,
         Passed(top_up_code(env, id, sender, amount))
  PROVE  LET s == read_stream(env, id)
         IN  /\ is_valid_amount(amount)
             /\ Found(env, id)
             /\ sender = s.sender
             /\ s.status = "Active"
             /\ s.total + amount <= I128MAX
             /\ env.total_supply + amount <= I128MAX
             /\ env.total_supply + amount <= env.supply_cap
<1> DEFINE s == read_stream(env, id)
           checks == top_up_code(env, id, sender, amount).checks
<1>1. /\ DOMAIN checks = 1..6
      /\ checks[1] = require(is_valid_amount(amount), "InvalidAmount")
      /\ checks[2] = require(Found(env, id), "StreamNotFound")
      /\ checks[3] = require(sender = s.sender, "Unauthorized")
      /\ checks[4] = require(s.status = "Active", "StreamNotActive")
      /\ checks[5] = require(s.total + amount <= I128MAX, "Overflow")
      /\ checks[6] = supply_error(env, amount)
  BY DEF top_up_code
<1>2. first_error(checks) = "Ok"
  BY DEF Passed
<1> HIDE DEF checks
<1>3. \A i \in 1..6 : checks[i] = "Ok"
  BY <1>1, <1>2, AllPassed
<1>4. is_valid_amount(amount)
  BY <1>1, <1>3 DEF require
<1>5. Found(env, id)
  BY <1>1, <1>3 DEF require
<1>6. sender = s.sender
  BY <1>1, <1>3 DEF require
<1>7. s.status = "Active"
  BY <1>1, <1>3 DEF require
<1>8. s.total + amount <= I128MAX
  BY <1>1, <1>3 DEF require
<1>9. /\ env.total_supply + amount <= I128MAX
      /\ env.total_supply + amount <= env.supply_cap
  BY <1>1, <1>3, SupplyPassed
<1> QED
  BY <1>4, <1>5, <1>6, <1>7, <1>8, <1>9

LEMMA ExtendPassed ==
  ASSUME NEW env, NEW id, NEW sender, NEW new_end,
         Passed(extend_stream_code(env, id, sender, new_end))
  PROVE  LET s == read_stream(env, id)
         IN  /\ Found(env, id)
             /\ sender = s.sender
             /\ s.status = "Active"
             /\ ~within_window(new_end, s)
<1> DEFINE s == read_stream(env, id)
           checks == extend_stream_code(env, id, sender, new_end).checks
<1>1. /\ DOMAIN checks = 1..4
      /\ checks[1] = require(Found(env, id), "StreamNotFound")
      /\ checks[2] = require(sender = s.sender, "Unauthorized")
      /\ checks[3] = require(s.status = "Active", "StreamNotActive")
      /\ checks[4] = require(~within_window(new_end, s), "InvalidTimeRange")
  BY DEF extend_stream_code
<1>2. first_error(checks) = "Ok"
  BY DEF Passed
<1> HIDE DEF checks
<1>3. \A i \in 1..4 : checks[i] = "Ok"
  BY <1>1, <1>2, AllPassed
<1>4. Found(env, id)
  BY <1>1, <1>3 DEF require
<1>5. sender = s.sender
  BY <1>1, <1>3 DEF require
<1>6. s.status = "Active"
  BY <1>1, <1>3 DEF require
<1>7. ~within_window(new_end, s)
  BY <1>1, <1>3 DEF require
<1> QED
  BY <1>4, <1>5, <1>6, <1>7

LEMMA WithdrawPassed ==
  ASSUME NEW env, NEW id, NEW recipient,
         Passed(withdraw_code(env, id, recipient))
  PROVE  LET s == read_stream(env, id)
         IN  /\ Found(env, id)
             /\ recipient = s.recipient
             /\ s.status # "Cancelled"
             /\ s.status # "Completed"
             /\ ~vesting_overflows(s, env.timestamp)
             /\ withdrawable(s, env.timestamp) > 0
<1> DEFINE s == read_stream(env, id)
           checks == withdraw_code(env, id, recipient).checks
<1>1. /\ DOMAIN checks = 1..6
      /\ checks[1] = require(Found(env, id), "StreamNotFound")
      /\ checks[2] = require(recipient = s.recipient, "Unauthorized")
      /\ checks[3] = require(s.status # "Cancelled", "AlreadyCancelled")
      /\ checks[4] = require(s.status # "Completed", "AlreadyCompleted")
      /\ checks[5] = require(~vesting_overflows(s, env.timestamp), "Overflow")
      /\ checks[6] = require(withdrawable(s, env.timestamp) > 0, "NothingToWithdraw")
  BY DEF withdraw_code
<1>2. first_error(checks) = "Ok"
  BY DEF Passed
<1> HIDE DEF checks
<1>3. \A i \in 1..6 : checks[i] = "Ok"
  BY <1>1, <1>2, AllPassed
<1>4. Found(env, id)
  BY <1>1, <1>3 DEF require
<1>5. recipient = s.recipient
  BY <1>1, <1>3 DEF require
<1>6. s.status # "Cancelled"
  BY <1>1, <1>3 DEF require
<1>7. s.status # "Completed"
  BY <1>1, <1>3 DEF require
<1>8. ~vesting_overflows(s, env.timestamp)
  BY <1>1, <1>3 DEF require
<1>9. withdrawable(s, env.timestamp) > 0
  BY <1>1, <1>3 DEF require
<1> QED
  BY <1>4, <1>5, <1>6, <1>7, <1>8, <1>9

LEMMA CancelPassed ==
  ASSUME NEW env, NEW id, NEW caller,
         Passed(cancel_code(env, id, caller))
  PROVE  LET s == read_stream(env, id)
         IN  /\ Found(env, id)
             /\ caller \in {s.sender, s.recipient}
             /\ s.status # "Cancelled"
             /\ ~vesting_overflows(s, env.timestamp)
<1> DEFINE s == read_stream(env, id)
           checks == cancel_code(env, id, caller).checks
<1>1. /\ DOMAIN checks = 1..4
      /\ checks[1] = require(Found(env, id), "StreamNotFound")
      /\ checks[2] = require(caller \in {s.sender, s.recipient}, "Unauthorized")
      /\ checks[3] = require(s.status # "Cancelled", "AlreadyCancelled")
      /\ checks[4] = require(~vesting_overflows(s, env.timestamp), "Overflow")
  BY DEF cancel_code
<1>2. first_error(checks) = "Ok"
  BY DEF Passed
<1> HIDE DEF checks
<1>3. \A i \in 1..4 : checks[i] = "Ok"
  BY <1>1, <1>2, AllPassed
<1>4. Found(env, id)
  BY <1>1, <1>3 DEF require
<1>5. caller \in {s.sender, s.recipient}
  BY <1>1, <1>3 DEF require
<1>6. s.status # "Cancelled"
  BY <1>1, <1>3 DEF require
<1>7. ~vesting_overflows(s, env.timestamp)
  BY <1>1, <1>3 DEF require
<1> QED
  BY <1>4, <1>5, <1>6, <1>7

LEMMA SetSupplyCapPassed ==
  ASSUME NEW env, NEW new_cap,
         Passed(set_supply_cap_code(env, new_cap))
  PROVE  /\ env.initialized
         /\ new_cap > 0
<1> DEFINE checks == set_supply_cap_code(env, new_cap).checks
<1>1. /\ DOMAIN checks = 1..2
      /\ checks[1] = require(env.initialized, "NotInitialized")
      /\ checks[2] = require(new_cap > 0, "InvalidAmount")
  BY DEF set_supply_cap_code
<1>2. first_error(checks) = "Ok"
  BY DEF Passed
<1> HIDE DEF checks
<1>3. \A i \in 1..2 : checks[i] = "Ok"
  BY <1>1, <1>2, AllPassed
<1>4. env.initialized
  BY <1>1, <1>3 DEF require
<1>5. new_cap > 0
  BY <1>1, <1>3 DEF require
<1> QED
  BY <1>4, <1>5

\* The checks of one request of a batch, with the running sum.
LEMMA RequestPassed ==
  ASSUME NEW env, NEW request, NEW sum,
         first_error(<< amount_error(request.total_amount),
                        window_error(env, request.start_time, request.end_time),
                        require(sum <= I128MAX, "Overflow") >>) = "Ok"
  PROVE  /\ is_valid_amount(request.total_amount)
         /\ request.total_amount >= MIN_STREAM_AMOUNT
         /\ request.end_time > request.start_time
         /\ request.end_time > env.timestamp
         /\ sum <= I128MAX
<1> DEFINE checks == << amount_error(request.total_amount),
                        window_error(env, request.start_time, request.end_time),
                        require(sum <= I128MAX, "Overflow") >>
<1>1. /\ DOMAIN checks = 1..3
      /\ checks[1] = amount_error(request.total_amount)
      /\ checks[2] = window_error(env, request.start_time, request.end_time)
      /\ checks[3] = require(sum <= I128MAX, "Overflow")
  OBVIOUS
<1>2. first_error(checks) = "Ok"
  OBVIOUS
<1> HIDE DEF checks
<1>3. \A i \in 1..3 : checks[i] = "Ok"
  BY <1>1, <1>2, AllPassed
<1>4. is_valid_amount(request.total_amount) /\ request.total_amount >= MIN_STREAM_AMOUNT
  BY <1>1, <1>3, AmountPassed
<1>5. request.end_time > request.start_time /\ request.end_time > env.timestamp
  BY <1>1, <1>3, WindowPassed
<1>6. sum <= I128MAX
  BY <1>1, <1>3 DEF require
<1> QED
  BY <1>4, <1>5, <1>6

\* And so for all of them, the aggregate included.
LEMMA BatchPassed ==
  ASSUME NEW env, NEW sender, NEW requests \in Seq(StreamRequest),
         Passed(create_stream_batch_code(env, sender, requests))
  PROVE  LET count == Len(requests)
         IN  /\ env.initialized
             /\ count > 0
             /\ \A i \in 1..count :
                  /\ is_valid_amount(requests[i].total_amount)
                  /\ requests[i].total_amount >= MIN_STREAM_AMOUNT
                  /\ requests[i].end_time > requests[i].start_time
                  /\ requests[i].end_time > env.timestamp
             /\ aggregate_amount(requests) <= I128MAX
             /\ env.counter + count <= U64MAX
<1> DEFINE count == Len(requests)
           sum(i) == aggregate_amount(SubSeq(requests, 1, i))
           checks == create_stream_batch_code(env, sender, requests).checks
           each(i) == first_error(<< amount_error(requests[i].total_amount),
                                     window_error(env, requests[i].start_time,
                                                  requests[i].end_time),
                                     require(sum(i) <= I128MAX, "Overflow") >>)
<1>0. count \in Nat
  OBVIOUS
<1> HIDE DEF each
<1>1. /\ DOMAIN checks = 1..(count + 3)
      /\ checks[1] = require(env.initialized, "NotInitialized")
      /\ checks[2] = require(count > 0, "EmptyBatch")
      /\ \A k \in 3..(count + 2) : checks[k] = each(k - 2)
      /\ checks[count + 3] = require(env.counter + count <= U64MAX, "Overflow")
  <2> DEFINE check(k) ==
        CASE k = 1 -> require(env.initialized, "NotInitialized")
          [] k = 2 -> require(count > 0, "EmptyBatch")
          [] k \in 3..(count + 2) -> each(k - 2)
          [] k = count + 3 -> require(env.counter + count <= U64MAX, "Overflow")
  <2>1. checks = [k \in 1..(count + 3) |-> check(k)]
    BY DEF create_stream_batch_code, each
  <2> HIDE DEF checks, count
  <2>2. check(1) = require(env.initialized, "NotInitialized") /\ 1 \in 1..(count + 3)
    BY <1>0
  <2>3. check(2) = require(count > 0, "EmptyBatch") /\ 2 \in 1..(count + 3)
    BY <1>0
  <2>4. ASSUME NEW k \in 3..(count + 2)
        PROVE  check(k) = each(k - 2) /\ k \in 1..(count + 3)
    BY <1>0
  <2>5. /\ check(count + 3) = require(env.counter + count <= U64MAX, "Overflow")
        /\ count + 3 \in 1..(count + 3)
    BY <1>0
  <2> HIDE DEF check
  <2> QED
    BY <2>1, <2>2, <2>3, <2>4, <2>5
<1>2. first_error(checks) = "Ok"
  BY DEF Passed
<1> HIDE DEF checks, count, sum
<1>3. \A i \in 1..(count + 3) : checks[i] = "Ok"
  <2>1. DOMAIN checks \subseteq Nat
    BY <1>0, <1>1
  <2> QED
    BY <1>1, <1>2, <2>1, AllPassed
<1>4. env.initialized
  BY <1>0, <1>1, <1>3 DEF require
<1>5. count > 0
  BY <1>0, <1>1, <1>3 DEF require
<1>6. env.counter + count <= U64MAX
  BY <1>0, <1>1, <1>3 DEF require
<1>7. ASSUME NEW i \in 1..count
      PROVE  /\ is_valid_amount(requests[i].total_amount)
             /\ requests[i].total_amount >= MIN_STREAM_AMOUNT
             /\ requests[i].end_time > requests[i].start_time
             /\ requests[i].end_time > env.timestamp
             /\ sum(i) <= I128MAX
  <2>1. i + 2 \in 3..(count + 2) /\ (i + 2) - 2 = i /\ i + 2 \in 1..(count + 3)
    BY <1>0
  <2>2. each(i) = "Ok"
    BY <1>1, <1>3, <2>1
  <2> QED
    BY <2>2, RequestPassed DEF each
<1>8. aggregate_amount(requests) <= I128MAX
  <2>1. SubSeq(requests, 1, count) = requests
    BY DEF count
  <2>2. count \in 1..count
    BY <1>0, <1>5
  <2> QED
    BY <1>7, <2>1, <2>2 DEF sum
<1> QED
  BY <1>4, <1>5, <1>6, <1>7, <1>8 DEF count
-----------------------------------------------------------------------------
(* What an invocation returns with is the step of module Streams           *)

\* An invocation starts from the committed ledger.
LEMMA EnvFields ==
  /\ Env.initialized = initialized /\ Env.streams = streams /\ Env.counter = counter
  /\ Env.total_supply = total_supply /\ Env.supply_cap = supply_cap
  /\ Env.balance = balance /\ Env.paid = paid /\ Env.refunded = refunded
  /\ Env.untracked = untracked /\ Env.book = book /\ Env.timestamp = timestamp
  BY DEF Env

\* Storing a stream is module Streams' write_stream.
LEMMA PutIsWrite ==
  ASSUME NEW id, NEW s
  PROVE  Put(streams, id, s) = write_stream(id, s)
  BY DEF Put, write_stream

\* read_stream found what is in storage.
LEMMA FoundStream ==
  ASSUME NEW id, Found(Env, id)
  PROVE  /\ id \in DOMAIN streams
         /\ read_stream(Env, id) = streams[id]
  BY EnvFields DEF Found, read_stream

\* The history of a stream in storage has its entry.
LEMMA StoredHistory ==
  ASSUME Inv, NEW id \in DOMAIN streams
  PROVE  WithEntry(paid, id) = paid /\ WithEntry(refunded, id) = refunded
  BY StateTypes, StoredEntry

\* The last stage of create_stream is module Streams' action ...
LEMMA CreateReturns ==
  ASSUME Inv, NEW sender \in Accounts, NEW request \in Requests, counter < MaxStreams,
         Passed(create_stream_code(Env, sender, request)),
         CreateStage(Env, create_stream_code(Env, sender, request).statements, 7, working),
         commit(working), UNCHANGED timestamp
  PROVE  create_stream(sender, request)
<1> DEFINE start == normalize_start_time(timestamp, request.start_time)
           amount == request.total_amount
           s == NewStream(sender, request, start)
           p == create_stream_code(Env, sender, request).statements
<1>1. /\ initialized
      /\ valid_request(request, start)
      /\ within_cap(total_supply + amount)
      /\ amount > 0
  <2>1. amount \in Int /\ MIN_STREAM_AMOUNT \in Nat \ {0}
    BY VestingAssumption, StreamsAssumption DEF StreamRequest, I128MIN
  <2> QED
    BY <2>1, CreatePassed, EnvFields DEF valid_request, within_cap
<1>2. /\ p[1].from = sender /\ p[1].amount = amount
      /\ p[3].id = counter /\ p[3].stream = s
      /\ p[4].next = counter + 1
      /\ p[5].supply = total_supply + amount
  BY EnvFields DEF create_stream_code, StoreStream
<1> HIDE DEF p, s
<1>3. /\ CanPay(balance, sender, amount)
      /\ counter + 1 <= U64MAX
      /\ working.balance = Transfer(balance, sender, Contract, amount)
      /\ working.streams = Put(streams, counter, s)
      /\ working.paid = WithEntry(paid, counter)
      /\ working.refunded = WithEntry(refunded, counter)
      /\ working.counter = counter + 1
      /\ working.total_supply = total_supply + amount
      /\ working.initialized = initialized /\ working.supply_cap = supply_cap
      /\ working.untracked = untracked
  <2>1. CreateStage(Env, p, 7, working)
    BY DEF p
  <2>2. /\ working.initialized = Env.initialized /\ working.supply_cap = Env.supply_cap
        /\ working.untracked = Env.untracked
    BY <2>1 DEF CreateStage, Same
  <2>3. /\ working.balance = Transfer(Env.balance, p[1].from, Contract, p[1].amount)
        /\ p[1].amount > 0 => CanPay(Env.balance, p[1].from, p[1].amount)
        /\ Env.counter + 1 <= U64MAX
        /\ working.streams = Put(Env.streams, p[3].id, p[3].stream)
        /\ working.paid = WithEntry(Env.paid, p[3].id)
        /\ working.refunded = WithEntry(Env.refunded, p[3].id)
        /\ working.counter = p[4].next
        /\ working.total_supply = p[5].supply
    BY <2>1 DEF CreateStage
  <2>4. /\ working.initialized = initialized /\ working.supply_cap = supply_cap
        /\ working.untracked = untracked
    BY <2>2, EnvFields
  <2>5. /\ CanPay(balance, sender, amount)
        /\ counter + 1 <= U64MAX
    BY <1>1, <1>2, <2>3, EnvFields
  <2>6. /\ working.balance = Transfer(balance, sender, Contract, amount)
        /\ working.streams = Put(streams, counter, s)
        /\ working.paid = WithEntry(paid, counter)
        /\ working.refunded = WithEntry(refunded, counter)
        /\ working.counter = counter + 1
        /\ working.total_supply = total_supply + amount
    BY <1>2, <2>3, EnvFields
  <2> QED
    BY <2>4, <2>5, <2>6
<1>4. WithEntry(paid, counter) = Opened(paid, counter + 1)
      /\ WithEntry(refunded, counter) = Opened(refunded, counter + 1)
  <2>1. /\ counter \in Nat /\ paid \in [0..(counter - 1) -> Nat]
        /\ refunded \in [0..(counter - 1) -> Nat]
    BY StateTypes
  <2>2. Opened(paid, counter) = paid /\ Opened(refunded, counter) = refunded
    BY <2>1 DEF Opened
  <2>3. /\ WithEntry(Opened(paid, counter), counter) = Opened(paid, counter + 1)
        /\ WithEntry(Opened(refunded, counter), counter) = Opened(refunded, counter + 1)
    BY <2>1, EntryOpened
  <2> QED
    BY <2>2, <2>3
<1>5. /\ balance' = Transfer(balance, sender, Contract, amount)
      /\ streams' = write_stream(counter, s)
      /\ counter' = counter + 1
      /\ total_supply' = total_supply + amount
      /\ paid' = Opened(paid, counter + 1)
      /\ refunded' = Opened(refunded, counter + 1)
      /\ UNCHANGED <<initialized, supply_cap, timestamp, untracked>>
  BY <1>3, <1>4, PutIsWrite DEF commit
<1> QED
  BY <1>1, <1>3, <1>5 DEF create_stream, s

\* ... and a statement of it goes on, fails at the checked_add, or returns so.
\* The same for the other entrypoints.
LEMMA CreateRuns ==
  ASSUME Inv, DOMAIN working = Fields,
         NEW sender \in Accounts, NEW request \in Requests, counter < MaxStreams,
         call = [op |-> "create_stream", by |-> sender, request |-> request],
         Passed(create_stream_code(Env, sender, request)),
         CreateStage(Env, create_stream_code(Env, sender, request).statements,
                     pc, working),
         execute(statement)
  PROVE  \/ /\ CreateStage(Env, create_stream_code(Env, sender, request).statements,
                           pc + 1, working')
            /\ Changes(Fields)
         \/ fail("Overflow")
         \/ /\ return(statement) /\ create_stream(sender, request)
            /\ CreateStage(Env, create_stream_code(Env, sender, request).statements,
                           7, working)
<1> DEFINE p == create_stream_code(Env, sender, request).statements
<1>1. /\ p[1].do = "escrow" /\ p[2].do = "checked_add_counter"
      /\ p[3].do = "write_stream" /\ p[4].do = "write_counter"
      /\ p[5].do = "write_total_supply" /\ p[6].do = "publish"
      /\ p[7].do = "return" /\ p[1].untracked = 0
  BY DEF create_stream_code, StoreStream, stream_created, Publish, Return
<1>2. statement = p[pc]
  BY DEF statement, code
<1>3. Env.counter \in Nat /\ Env.untracked + p[1].untracked = Env.untracked
  BY <1>1, EnvFields DEF Inv, TypeOK
<1>4. CreateStage(Env, p, pc, working)
  OBVIOUS
<1> HIDE DEF p
<1>5. CASE p[pc].do # "return"
  BY <1>1, <1>2, <1>3, <1>4, <1>5, CreateSteps DEF p
<1>6. CASE p[pc].do = "return"
  <2>1. pc = 7
    BY <1>1, <1>4, <1>6 DEF CreateStage
  <2>2. return(statement)
    BY <1>2, <1>6 DEF execute
  <2>3. commit(working) /\ UNCHANGED timestamp
    BY <2>2 DEF return
  <2> QED
    BY <2>1, <2>2, <2>3, <1>4, CreateReturns DEF p
<1> QED
  BY <1>5, <1>6

LEMMA InitializeReturns ==
  ASSUME Passed(initialize_code(Env)), InitializeStage(Env, 2, working),
         commit(working), UNCHANGED timestamp
  PROVE  initialize
<1>1. ~initialized
  BY InitializePassed, EnvFields
<1>2. /\ working.initialized = TRUE /\ working.counter = 0
      /\ working.total_supply = 0 /\ working.supply_cap = DEFAULT_SUPPLY_CAP
  BY DEF InitializeStage
<1>3. /\ working.streams = Env.streams /\ working.balance = Env.balance
      /\ working.paid = Env.paid /\ working.refunded = Env.refunded
      /\ working.untracked = Env.untracked
  BY DEF InitializeStage, Same
<1>4. /\ working.streams = streams /\ working.balance = balance
      /\ working.paid = paid /\ working.refunded = refunded
      /\ working.untracked = untracked
  BY <1>3, EnvFields
<1> QED
  BY <1>1, <1>2, <1>4 DEF initialize, commit

LEMMA InitializeRuns ==
  ASSUME Inv, DOMAIN working = Fields,
         call = [op |-> "initialize"],
         Passed(initialize_code(Env)),
         InitializeStage(Env, pc, working),
         execute(statement)
  PROVE  \/ /\ InitializeStage(Env, pc + 1, working')
            /\ Changes(Fields)
         \/ /\ return(statement) /\ initialize
            /\ InitializeStage(Env, 2, working)
<1> DEFINE p == initialize_code(Env).statements
<1>1. /\ p[1].do = "write_instance"
      /\ p[2].do = "return"
  BY DEF initialize_code, Return
<1>2. statement = p[pc]
  BY DEF statement, code
<1>4. InitializeStage(Env, pc, working)
  OBVIOUS
<1> HIDE DEF p
<1>5. CASE p[pc].do # "return"
  BY <1>1, <1>2, <1>4, <1>5, InitializeSteps DEF p
<1>6. CASE p[pc].do = "return"
  <2>1. pc = 2
    BY <1>1, <1>4, <1>6 DEF InitializeStage
  <2>2. return(statement)
    BY <1>2, <1>6 DEF execute
  <2>3. commit(working) /\ UNCHANGED timestamp
    BY <2>2 DEF return
  <2> QED
    BY <2>1, <2>2, <2>3, <1>4, InitializeReturns DEF p
<1> QED
  BY <1>5, <1>6

LEMMA TopUpReturns ==
  ASSUME Inv, NEW id, NEW sender \in Accounts, NEW amount \in Amounts,
         Passed(top_up_code(Env, id, sender, amount)),
         TopUpStage(Env, top_up_code(Env, id, sender, amount).statements, 5, working),
         commit(working), UNCHANGED timestamp
  PROVE  id \in DOMAIN streams /\ top_up(id, sender, amount)
<1> DEFINE s == streams[id]
           t == [s EXCEPT !.total = s.total + amount]
           p == top_up_code(Env, id, sender, amount).statements
<1>1. id \in DOMAIN streams /\ read_stream(Env, id) = s
  BY TopUpPassed, FoundStream
<1>2. /\ is_valid_amount(amount)
      /\ sender = s.sender
      /\ s.status = "Active"
      /\ s.total + amount <= I128MAX
      /\ within_cap(total_supply + amount)
      /\ amount > 0
  <2>1. amount \in Int /\ MIN_STREAM_AMOUNT \in Nat \ {0}
    BY VestingAssumption, StreamsAssumption DEF I128MIN
  <2> QED
    BY <1>1, <2>1, TopUpPassed, EnvFields DEF within_cap, is_valid_amount
<1>3. /\ p[1].from = sender /\ p[1].amount = amount
      /\ p[2].id = id /\ p[2].stream = t
      /\ p[3].supply = total_supply + amount
  BY <1>1, EnvFields DEF top_up_code, StoreStream
<1> HIDE DEF p, t
<1>4. /\ working.initialized = Env.initialized /\ working.supply_cap = Env.supply_cap
      /\ working.untracked = Env.untracked /\ working.counter = Env.counter
      /\ working.paid = Env.paid /\ working.refunded = Env.refunded
  BY DEF TopUpStage, Same
<1>5. /\ working.balance = Transfer(Env.balance, p[1].from, Contract, p[1].amount)
      /\ p[1].amount > 0 => CanPay(Env.balance, p[1].from, p[1].amount)
      /\ working.streams = Put(Env.streams, p[2].id, p[2].stream)
      /\ working.total_supply = p[3].supply
  BY DEF TopUpStage, p
<1>6. /\ working.initialized = initialized /\ working.supply_cap = supply_cap
      /\ working.untracked = untracked /\ working.counter = counter
      /\ working.paid = paid /\ working.refunded = refunded
  BY <1>4, EnvFields
<1>7. CanPay(balance, sender, amount)
  BY <1>2, <1>3, <1>5, EnvFields
<1>8. /\ working.balance = Transfer(balance, sender, Contract, amount)
      /\ working.streams = Put(streams, id, t)
      /\ working.total_supply = total_supply + amount
  BY <1>3, <1>5, EnvFields
<1>9. /\ balance' = Transfer(balance, sender, Contract, amount)
      /\ streams' = write_stream(id, t)
      /\ total_supply' = total_supply + amount
      /\ UNCHANGED <<initialized, counter, supply_cap, timestamp, paid, refunded,
                     untracked>>
  BY <1>6, <1>8, PutIsWrite DEF commit
<1> QED
  BY <1>1, <1>2, <1>7, <1>9 DEF top_up, t

LEMMA TopUpRuns ==
  ASSUME Inv, DOMAIN working = Fields,
         NEW id, NEW sender \in Accounts, NEW amount \in Amounts,
         call = [op |-> "top_up", by |-> sender, id |-> id, amount |-> amount],
         Passed(top_up_code(Env, id, sender, amount)),
         TopUpStage(Env, top_up_code(Env, id, sender, amount).statements, pc, working),
         execute(statement)
  PROVE  \/ /\ TopUpStage(Env, top_up_code(Env, id, sender, amount).statements,
                          pc + 1, working')
            /\ Changes(Fields)
         \/ /\ return(statement) /\ id \in DOMAIN streams /\ top_up(id, sender, amount)
            /\ TopUpStage(Env, top_up_code(Env, id, sender, amount).statements, 5, working)
<1> DEFINE p == top_up_code(Env, id, sender, amount).statements
<1>1. /\ p[1].do = "escrow"
      /\ p[2].do = "write_stream"
      /\ p[3].do = "write_total_supply"
      /\ p[4].do = "publish"
      /\ p[5].do = "return"
      /\ p[1].untracked = 0
  BY DEF top_up_code, StoreStream, stream_topped_up, Publish, Return
<1>2. statement = p[pc]
  BY DEF statement, code
<1>3. /\ WithEntry(Env.paid, p[2].id) = Env.paid
      /\ WithEntry(Env.refunded, p[2].id) = Env.refunded
      /\ Env.untracked + p[1].untracked = Env.untracked
  <2>1. id \in DOMAIN streams
    BY TopUpPassed, FoundStream
  <2>2. p[2].id = id
    BY DEF top_up_code, StoreStream
  <2>3. Env.untracked \in Nat
    BY EnvFields DEF Inv, TypeOK
  <2>4. Env.untracked + p[1].untracked = Env.untracked
    BY <1>1, <2>3
  <2> QED
    BY <2>1, <2>2, <2>4, StoredHistory, EnvFields
<1>4. TopUpStage(Env, p, pc, working)
  OBVIOUS
<1> HIDE DEF p
<1>5. CASE p[pc].do # "return"
  BY <1>1, <1>2, <1>3, <1>4, <1>5, TopUpSteps DEF p
<1>6. CASE p[pc].do = "return"
  <2>1. pc = 5
    BY <1>1, <1>4, <1>6 DEF TopUpStage
  <2>2. return(statement)
    BY <1>2, <1>6 DEF execute
  <2>3. commit(working) /\ UNCHANGED timestamp
    BY <2>2 DEF return
  <2> QED
    BY <2>1, <2>2, <2>3, <1>4, TopUpReturns DEF p
<1> QED
  BY <1>5, <1>6

LEMMA ExtendReturns ==
  ASSUME NEW id, NEW sender \in Accounts, NEW new_end \in 0..U64MAX, Inv,
         Passed(extend_stream_code(Env, id, sender, new_end)),
         ExtendStage(Env, extend_stream_code(Env, id, sender, new_end).statements, 3,
                     working),
         commit(working), UNCHANGED timestamp
  PROVE  id \in DOMAIN streams /\ extend_stream(id, sender, new_end)
<1> DEFINE s == streams[id]
           t == [s EXCEPT !.end = new_end]
           p == extend_stream_code(Env, id, sender, new_end).statements
<1>1. id \in DOMAIN streams /\ read_stream(Env, id) = s
  BY ExtendPassed, FoundStream
<1>2. /\ sender = s.sender
      /\ s.status = "Active"
      /\ new_end > s.end
  <2>1. new_end \in Nat /\ s.end \in Nat
    BY <1>1, StoredStream, StreamsAssumption DEF Window
  <2> QED
    BY <1>1, <2>1, ExtendPassed DEF within_window
<1>3. p[1].id = id /\ p[1].stream = t
  BY <1>1 DEF extend_stream_code, StoreStream
<1> HIDE DEF p, t
<1>4. /\ working.initialized = Env.initialized /\ working.supply_cap = Env.supply_cap
      /\ working.untracked = Env.untracked /\ working.counter = Env.counter
      /\ working.paid = Env.paid /\ working.refunded = Env.refunded
      /\ working.total_supply = Env.total_supply /\ working.balance = Env.balance
  BY DEF ExtendStage, Same
<1>5. working.streams = Put(Env.streams, p[1].id, p[1].stream)
  BY DEF ExtendStage, p
<1>6. /\ working.initialized = initialized /\ working.supply_cap = supply_cap
      /\ working.untracked = untracked /\ working.counter = counter
      /\ working.paid = paid /\ working.refunded = refunded
      /\ working.total_supply = total_supply /\ working.balance = balance
  BY <1>4, EnvFields
<1>7. working.streams = Put(streams, id, t)
  BY <1>3, <1>5, EnvFields
<1>8. /\ streams' = write_stream(id, t)
      /\ UNCHANGED <<initialized, counter, total_supply, supply_cap, balance,
                     timestamp, paid, refunded, untracked>>
  BY <1>6, <1>7, PutIsWrite DEF commit
<1> QED
  BY <1>1, <1>2, <1>8 DEF extend_stream, t

LEMMA ExtendRuns ==
  ASSUME Inv, DOMAIN working = Fields,
         NEW id, NEW sender \in Accounts, NEW new_end \in 0..U64MAX,
         call = [op |-> "extend_stream", by |-> sender, id |-> id, new_end |-> new_end],
         Passed(extend_stream_code(Env, id, sender, new_end)),
         ExtendStage(Env, extend_stream_code(Env, id, sender, new_end).statements,
                     pc, working),
         execute(statement)
  PROVE  \/ /\ ExtendStage(Env, extend_stream_code(Env, id, sender, new_end).statements,
                           pc + 1, working')
            /\ Changes(Fields)
         \/ /\ return(statement) /\ id \in DOMAIN streams /\ extend_stream(id, sender, new_end)
            /\ ExtendStage(Env, extend_stream_code(Env, id, sender, new_end).statements,
                           3, working)
<1> DEFINE p == extend_stream_code(Env, id, sender, new_end).statements
<1>1. /\ p[1].do = "write_stream"
      /\ p[2].do = "publish"
      /\ p[3].do = "return"
  BY DEF extend_stream_code, StoreStream, stream_extended, Publish, Return
<1>2. statement = p[pc]
  BY DEF statement, code
<1>3. /\ WithEntry(Env.paid, p[1].id) = Env.paid
      /\ WithEntry(Env.refunded, p[1].id) = Env.refunded
  <2>1. id \in DOMAIN streams
    BY ExtendPassed, FoundStream
  <2>2. p[1].id = id
    BY DEF extend_stream_code, StoreStream
  <2> QED
    BY <2>1, <2>2, StoredHistory, EnvFields
<1>4. ExtendStage(Env, p, pc, working)
  OBVIOUS
<1> HIDE DEF p
<1>5. CASE p[pc].do # "return"
  BY <1>1, <1>2, <1>3, <1>4, <1>5, ExtendSteps DEF p
<1>6. CASE p[pc].do = "return"
  <2>1. pc = 3
    BY <1>1, <1>4, <1>6 DEF ExtendStage
  <2>2. return(statement)
    BY <1>2, <1>6 DEF execute
  <2>3. commit(working) /\ UNCHANGED timestamp
    BY <2>2 DEF return
  <2> QED
    BY <2>1, <2>2, <2>3, <1>4, ExtendReturns DEF p
<1> QED
  BY <1>5, <1>6

LEMMA WithdrawReturns ==
  ASSUME Inv, NEW id, NEW recipient \in Accounts,
         Passed(withdraw_code(Env, id, recipient)),
         WithdrawStage(Env, withdraw_code(Env, id, recipient).statements, 5, working),
         commit(working), UNCHANGED timestamp
  PROVE  id \in DOMAIN streams /\ withdraw(id, recipient)
<1> DEFINE s == streams[id]
           available == withdrawable(s, timestamp)
           withdrawn == s.withdrawn + available
           t == [s EXCEPT !.withdrawn = withdrawn,
                          !.status = IF completes(s, withdrawn) THEN "Completed" ELSE @]
           p == withdraw_code(Env, id, recipient).statements
<1>1. id \in DOMAIN streams /\ read_stream(Env, id) = s
  BY WithdrawPassed, FoundStream
<1>2. /\ recipient = s.recipient
      /\ s.status = "Active"
      /\ ~vesting_overflows(s, timestamp)
      /\ available > 0
  <2>1. /\ recipient = s.recipient
        /\ s.status # "Cancelled" /\ s.status # "Completed"
        /\ ~vesting_overflows(s, timestamp)
        /\ available > 0
    BY <1>1, WithdrawPassed, EnvFields
  <2>2. s.status \in Status
    BY <1>1, StoredStream DEF Stream
  <2> QED
    BY <2>1, <2>2 DEF Status
<1>3. /\ p[1].id = id /\ p[1].stream = t
      /\ p[2].id = id /\ p[2].to = recipient /\ p[2].amount = available
      /\ p[3].amount = available
  BY <1>1, EnvFields DEF withdraw_code, StoreStream
<1> HIDE DEF p, t, available
<1>4. /\ working.initialized = Env.initialized /\ working.supply_cap = Env.supply_cap
      /\ working.untracked = Env.untracked /\ working.counter = Env.counter
      /\ working.refunded = Env.refunded
  BY DEF WithdrawStage, Same
<1>5. /\ working.balance = PayOut(Env.balance, p[2].to, p[2].amount)
      /\ working.paid = Plus(Env.paid, p[2].id, Transferred(p[2].amount))
      /\ CanPayOut(Env.balance, p[2].amount)
      /\ working.streams = Put(Env.streams, p[1].id, p[1].stream)
      /\ working.total_supply = reduced(Env.total_supply, p[3].amount)
  BY DEF WithdrawStage, p
<1>6. /\ working.initialized = initialized /\ working.supply_cap = supply_cap
      /\ working.untracked = untracked /\ working.counter = counter
      /\ working.refunded = refunded
  BY <1>4, EnvFields
<1>7. CanPay(balance, Contract, available)
  BY <1>2, <1>3, <1>5, EnvFields DEF CanPayOut
<1>8. /\ PayOut(balance, recipient, available)
           = Transfer(balance, Contract, recipient, available)
      /\ Transferred(available) = available
      /\ reduced(total_supply, available) = reduced_supply(available)
  BY <1>2 DEF PayOut, Transferred, reduced, reduced_supply
<1>9. /\ working.balance = Transfer(balance, Contract, recipient, available)
      /\ working.paid = Plus(paid, id, available)
      /\ working.streams = Put(streams, id, t)
      /\ working.total_supply = reduced_supply(available)
  BY <1>3, <1>5, <1>8, EnvFields
<1>10. /\ balance' = Transfer(balance, Contract, recipient, available)
       /\ streams' = write_stream(id, t)
       /\ total_supply' = reduced_supply(available)
       /\ paid' = Plus(paid, id, available)
       /\ UNCHANGED <<initialized, counter, supply_cap, timestamp, refunded, untracked>>
  BY <1>6, <1>9, PutIsWrite DEF commit
<1> QED
  BY <1>1, <1>2, <1>7, <1>10 DEF withdraw, t, available

LEMMA WithdrawRuns ==
  ASSUME Inv, DOMAIN working = Fields,
         NEW id, NEW recipient \in Accounts,
         call = [op |-> "withdraw", by |-> recipient, id |-> id],
         Passed(withdraw_code(Env, id, recipient)),
         WithdrawStage(Env, withdraw_code(Env, id, recipient).statements, pc, working),
         execute(statement)
  PROVE  \/ /\ WithdrawStage(Env, withdraw_code(Env, id, recipient).statements,
                             pc + 1, working')
            /\ Changes(Fields)
         \/ /\ return(statement) /\ id \in DOMAIN streams /\ withdraw(id, recipient)
            /\ WithdrawStage(Env, withdraw_code(Env, id, recipient).statements, 5, working)
<1> DEFINE p == withdraw_code(Env, id, recipient).statements
<1>1. /\ p[1].do = "write_stream"
      /\ p[2].do = "pay"
      /\ p[3].do = "reduce_total_supply"
      /\ p[4].do = "publish"
      /\ p[5].do = "return"
  BY DEF withdraw_code, StoreStream, stream_withdrawn, Publish, Return
<1>2. statement = p[pc]
  BY DEF statement, code
<1>3. /\ WithEntry(Env.paid, p[1].id) = Env.paid
      /\ WithEntry(Env.refunded, p[1].id) = Env.refunded
  <2>1. id \in DOMAIN streams
    BY WithdrawPassed, FoundStream
  <2>2. p[1].id = id
    BY DEF withdraw_code, StoreStream
  <2> QED
    BY <2>1, <2>2, StoredHistory, EnvFields
<1>4. WithdrawStage(Env, p, pc, working)
  OBVIOUS
<1> HIDE DEF p
<1>5. CASE p[pc].do # "return"
  BY <1>1, <1>2, <1>3, <1>4, <1>5, WithdrawSteps DEF p
<1>6. CASE p[pc].do = "return"
  <2>1. pc = 5
    BY <1>1, <1>4, <1>6 DEF WithdrawStage
  <2>2. return(statement)
    BY <1>2, <1>6 DEF execute
  <2>3. commit(working) /\ UNCHANGED timestamp
    BY <2>2 DEF return
  <2> QED
    BY <2>1, <2>2, <2>3, <1>4, WithdrawReturns DEF p
<1> QED
  BY <1>5, <1>6

LEMMA CancelReturns ==
  ASSUME Inv, NEW id, NEW caller \in Accounts,
         Passed(cancel_code(Env, id, caller)),
         CancelStage(Env, cancel_code(Env, id, caller).statements, 6, working),
         commit(working), UNCHANGED timestamp
  PROVE  id \in DOMAIN streams /\ cancel(id, caller)
<1> DEFINE s == streams[id]
           recipient_paid == vested(s, timestamp) - s.withdrawn
           sender_refund == unvested(s, timestamp)
           after_payout == PayOut(balance, s.recipient, recipient_paid)
           t == [s EXCEPT !.withdrawn = vested(s, timestamp), !.status = "Cancelled"]
           p == cancel_code(Env, id, caller).statements
<1>1. id \in DOMAIN streams /\ read_stream(Env, id) = s
  BY CancelPassed, FoundStream
<1>2. /\ caller \in {s.sender, s.recipient}
      /\ s.status # "Cancelled"
      /\ ~vesting_overflows(s, timestamp)
  BY <1>1, CancelPassed, EnvFields
<1>3. /\ p[1].id = id /\ p[1].stream = t
      /\ p[2].id = id /\ p[2].to = s.recipient /\ p[2].amount = recipient_paid
      /\ p[3].id = id /\ p[3].to = s.sender /\ p[3].amount = sender_refund
      /\ p[4].amount = recipient_paid + sender_refund
  BY <1>1, EnvFields DEF cancel_code, StoreStream
<1>4. Transferred(sender_refund) = sender_refund
  <2>1. Window(s) /\ timestamp \in Nat
    BY <1>1, StoredStream
  <2>2. sender_refund \in 0..s.total /\ s.total \in Nat
    BY <2>1, VestedBounds DEF Window
  <2> QED
    BY <2>2 DEF Transferred
<1> HIDE DEF p, t, recipient_paid, sender_refund
<1>5. /\ working.initialized = Env.initialized /\ working.supply_cap = Env.supply_cap
      /\ working.untracked = Env.untracked /\ working.counter = Env.counter
  BY DEF CancelStage, Same
<1>6. /\ working.balance = PayOut(PayOut(Env.balance, p[2].to, p[2].amount),
                                  p[3].to, p[3].amount)
      /\ working.paid = Plus(Env.paid, p[2].id, Transferred(p[2].amount))
      /\ CanPayOut(Env.balance, p[2].amount)
      /\ working.refunded = Plus(Env.refunded, p[3].id, Transferred(p[3].amount))
      /\ CanPayOut(PayOut(Env.balance, p[2].to, p[2].amount), p[3].amount)
      /\ working.streams = Put(Env.streams, p[1].id, p[1].stream)
      /\ working.total_supply = reduced(Env.total_supply, p[4].amount)
  BY DEF CancelStage, p
<1>7. /\ working.initialized = initialized /\ working.supply_cap = supply_cap
      /\ working.untracked = untracked /\ working.counter = counter
  BY <1>5, EnvFields
<1>8. CanPayOut(balance, recipient_paid) /\ CanPayOut(after_payout, sender_refund)
  BY <1>3, <1>6, EnvFields
<1>9. /\ working.balance = PayOut(after_payout, s.sender, sender_refund)
      /\ working.paid = Plus(paid, id, Transferred(recipient_paid))
      /\ working.refunded = Plus(refunded, id, sender_refund)
      /\ working.streams = Put(streams, id, t)
      /\ working.total_supply = reduced(total_supply, recipient_paid + sender_refund)
  BY <1>3, <1>4, <1>6, EnvFields
<1>10. reduced(total_supply, recipient_paid + sender_refund)
         = reduced_supply(recipient_paid + sender_refund)
  BY DEF reduced, reduced_supply
<1>11. /\ balance' = PayOut(after_payout, s.sender, sender_refund)
       /\ streams' = write_stream(id, t)
       /\ total_supply' = reduced_supply(recipient_paid + sender_refund)
       /\ paid' = Plus(paid, id, IF recipient_paid > 0 THEN recipient_paid ELSE 0)
       /\ refunded' = Plus(refunded, id, sender_refund)
       /\ UNCHANGED <<initialized, counter, supply_cap, timestamp, untracked>>
  BY <1>7, <1>9, <1>10, PutIsWrite DEF commit, Transferred
<1> QED
  BY <1>1, <1>2, <1>8, <1>11 DEF cancel, t, recipient_paid, sender_refund

LEMMA CancelRuns ==
  ASSUME Inv, DOMAIN working = Fields,
         NEW id, NEW caller \in Accounts,
         call = [op |-> "cancel", by |-> caller, id |-> id],
         Passed(cancel_code(Env, id, caller)),
         CancelStage(Env, cancel_code(Env, id, caller).statements, pc, working),
         execute(statement)
  PROVE  \/ /\ CancelStage(Env, cancel_code(Env, id, caller).statements, pc + 1, working')
            /\ Changes(Fields)
         \/ /\ return(statement) /\ id \in DOMAIN streams /\ cancel(id, caller)
            /\ CancelStage(Env, cancel_code(Env, id, caller).statements, 6, working)
<1> DEFINE p == cancel_code(Env, id, caller).statements
<1>1. /\ p[1].do = "write_stream"
      /\ p[2].do = "pay"
      /\ p[3].do = "refund"
      /\ p[4].do = "reduce_total_supply"
      /\ p[5].do = "publish"
      /\ p[6].do = "return"
  BY DEF cancel_code, StoreStream, stream_cancelled, Publish, Return
<1>2. statement = p[pc]
  BY DEF statement, code
<1>3. /\ WithEntry(Env.paid, p[1].id) = Env.paid
      /\ WithEntry(Env.refunded, p[1].id) = Env.refunded
  <2>1. id \in DOMAIN streams
    BY CancelPassed, FoundStream
  <2>2. p[1].id = id
    BY DEF cancel_code, StoreStream
  <2> QED
    BY <2>1, <2>2, StoredHistory, EnvFields
<1>4. CancelStage(Env, p, pc, working)
  OBVIOUS
<1> HIDE DEF p
<1>5. CASE p[pc].do # "return"
  BY <1>1, <1>2, <1>3, <1>4, <1>5, CancelSteps DEF p
<1>6. CASE p[pc].do = "return"
  <2>1. pc = 6
    BY <1>1, <1>4, <1>6 DEF CancelStage
  <2>2. return(statement)
    BY <1>2, <1>6 DEF execute
  <2>3. commit(working) /\ UNCHANGED timestamp
    BY <2>2 DEF return
  <2> QED
    BY <2>1, <2>2, <2>3, <1>4, CancelReturns DEF p
<1> QED
  BY <1>5, <1>6

LEMMA SetSupplyCapReturns ==
  ASSUME NEW new_cap \in Caps,
         Passed(set_supply_cap_code(Env, new_cap)),
         SetSupplyCapStage(Env, set_supply_cap_code(Env, new_cap).statements, 3, working),
         commit(working), UNCHANGED timestamp
  PROVE  set_supply_cap(new_cap)
<1> DEFINE p == set_supply_cap_code(Env, new_cap).statements
<1>1. initialized /\ new_cap > 0
  BY SetSupplyCapPassed, EnvFields
<1>2. p[1].cap = new_cap
  BY DEF set_supply_cap_code
<1> HIDE DEF p
<1>3. working.supply_cap = new_cap
  BY <1>2 DEF SetSupplyCapStage, p
<1>4. /\ working.initialized = Env.initialized /\ working.streams = Env.streams
      /\ working.untracked = Env.untracked /\ working.counter = Env.counter
      /\ working.paid = Env.paid /\ working.refunded = Env.refunded
      /\ working.total_supply = Env.total_supply /\ working.balance = Env.balance
  BY DEF SetSupplyCapStage, Same
<1>5. /\ working.initialized = initialized /\ working.streams = streams
      /\ working.untracked = untracked /\ working.counter = counter
      /\ working.paid = paid /\ working.refunded = refunded
      /\ working.total_supply = total_supply /\ working.balance = balance
  BY <1>4, EnvFields
<1> QED
  BY <1>1, <1>3, <1>5 DEF set_supply_cap, commit

LEMMA SetSupplyCapRuns ==
  ASSUME Inv, DOMAIN working = Fields,
         NEW new_cap \in Caps,
         call = [op |-> "set_supply_cap", cap |-> new_cap],
         Passed(set_supply_cap_code(Env, new_cap)),
         SetSupplyCapStage(Env, set_supply_cap_code(Env, new_cap).statements, pc, working),
         execute(statement)
  PROVE  \/ /\ SetSupplyCapStage(Env, set_supply_cap_code(Env, new_cap).statements,
                                 pc + 1, working')
            /\ Changes(Fields)
         \/ /\ return(statement) /\ set_supply_cap(new_cap)
            /\ SetSupplyCapStage(Env, set_supply_cap_code(Env, new_cap).statements,
                                 3, working)
<1> DEFINE p == set_supply_cap_code(Env, new_cap).statements
<1>1. /\ p[1].do = "write_supply_cap"
      /\ p[2].do = "publish"
      /\ p[3].do = "return"
  BY DEF set_supply_cap_code, supply_cap_updated, Publish, Return
<1>2. statement = p[pc]
  BY DEF statement, code
<1>4. SetSupplyCapStage(Env, p, pc, working)
  OBVIOUS
<1> HIDE DEF p
<1>5. CASE p[pc].do # "return"
  BY <1>1, <1>2, <1>4, <1>5, SetSupplyCapSteps DEF p
<1>6. CASE p[pc].do = "return"
  <2>1. pc = 3
    BY <1>1, <1>4, <1>6 DEF SetSupplyCapStage
  <2>2. return(statement)
    BY <1>2, <1>6 DEF execute
  <2>3. commit(working) /\ UNCHANGED timestamp
    BY <2>2 DEF return
  <2> QED
    BY <2>1, <2>2, <2>3, <1>4, SetSupplyCapReturns DEF p
<1> QED
  BY <1>5, <1>6

\* The statements of a batch, by their place in the loop.
LEMMA BatchShape ==
  ASSUME NEW env, NEW sender, NEW requests \in Seq(StreamRequest), env.counter \in Nat
  PROVE  LET p     == create_stream_batch_code(env, sender, requests).statements
             count == Len(requests)
             sum   == aggregate_amount(SubSeq(requests, 1, count))
         IN  /\ p[1] = [do |-> "escrow", from |-> sender, amount |-> sum,
                        untracked |-> sum]
             /\ \A i \in 1..count :
                  LET s == NewStream(sender, requests[i], requests[i].start_time)
                  IN  /\ p[2 * i] = StoreStream(env.counter + i - 1, s)
                      /\ p[2 * i + 1] = stream_created(env.counter + i - 1, s)
             /\ p[2 * count + 2] = [do |-> "write_counter", next |-> env.counter + count]
             /\ p[2 * count + 3] = Return
<1> DEFINE p == create_stream_batch_code(env, sender, requests).statements
           count == Len(requests)
           sum == aggregate_amount(SubSeq(requests, 1, count))
           s(i) == NewStream(sender, requests[i], requests[i].start_time)
           stmt(k) ==
             CASE k = 1 -> [do |-> "escrow", from |-> sender, amount |-> sum,
                            untracked |-> sum]
               [] k \in 2..(2 * count + 1) /\ k % 2 = 0 ->
                    StoreStream(env.counter + k \div 2 - 1, s(k \div 2))
               [] k \in 2..(2 * count + 1) /\ k % 2 = 1 ->
                    stream_created(env.counter + k \div 2 - 1, s(k \div 2))
               [] k = 2 * count + 2 -> [do |-> "write_counter", next |-> env.counter + count]
               [] k = 2 * count + 3 -> Return
<1>1. count \in Nat
  OBVIOUS
<1> HIDE DEF s, sum
<1>2. p = [k \in 1..(2 * count + 3) |-> stmt(k)]
  BY DEF create_stream_batch_code, s, sum
<1> HIDE DEF count, p
<1>3. 1 \in 1..(2 * count + 3) /\ stmt(1) = [do |-> "escrow", from |-> sender,
                                              amount |-> sum, untracked |-> sum]
  BY <1>1
<1>4. /\ 2 * count + 2 \in 1..(2 * count + 3)
      /\ stmt(2 * count + 2) = [do |-> "write_counter", next |-> env.counter + count]
  <2> DEFINE k == 2 * count + 2
  <2>1. k \in 1..(2 * count + 3) /\ k # 1 /\ ~(k \in 2..(2 * count + 1)) /\ k # 2 * count + 3
    BY <1>1
  <2> QED
    BY <2>1
<1>5. 2 * count + 3 \in 1..(2 * count + 3) /\ stmt(2 * count + 3) = Return
  <2> DEFINE k == 2 * count + 3
  <2>1. k \in 1..(2 * count + 3) /\ k # 1 /\ ~(k \in 2..(2 * count + 1)) /\ k # 2 * count + 2
    BY <1>1
  <2> QED
    BY <2>1
<1>6. ASSUME NEW i \in 1..count
      PROVE  /\ 2 * i \in 1..(2 * count + 3)
             /\ stmt(2 * i) = StoreStream(env.counter + i - 1, s(i))
             /\ 2 * i + 1 \in 1..(2 * count + 3)
             /\ stmt(2 * i + 1) = stream_created(env.counter + i - 1, s(i))
  <2> DEFINE k == 2 * i
             l == 2 * i + 1
  <2>1. /\ k \in 1..(2 * count + 3) /\ k \in 2..(2 * count + 1) /\ k # 1
        /\ k # 2 * count + 2 /\ k # 2 * count + 3
        /\ k % 2 = 0 /\ k \div 2 = i
    BY <1>1
  <2>2. /\ l \in 1..(2 * count + 3) /\ l \in 2..(2 * count + 1) /\ l # 1
        /\ l # 2 * count + 2 /\ l # 2 * count + 3
        /\ l % 2 = 1 /\ l \div 2 = i
    BY <1>1
  <2> HIDE DEF k, l
  <2>3. stmt(k) = StoreStream(env.counter + i - 1, s(i))
    BY <2>1
  <2>4. stmt(l) = stream_created(env.counter + i - 1, s(i))
    BY <2>2
  <2> QED
    BY <2>1, <2>2, <2>3, <2>4 DEF k, l
<1> HIDE DEF stmt
<1>7. \A i \in 1..count :
        /\ p[2 * i] = StoreStream(env.counter + i - 1, s(i))
        /\ p[2 * i + 1] = stream_created(env.counter + i - 1, s(i))
  BY <1>2, <1>6
<1> QED
  BY <1>2, <1>3, <1>4, <1>5, <1>7 DEF p, count, sum, s

\* The last stage of a batch is module Streams' action.
LEMMA BatchReturns ==
  ASSUME Inv, NEW sender \in Accounts, NEW requests \in Batches,
         counter + Len(requests) <= MaxStreams,
         Passed(create_stream_batch_code(Env, sender, requests)),
         BatchStage(Env, create_stream_batch_code(Env, sender, requests).statements,
                    Len(requests), 2 * Len(requests) + 3, working),
         commit(working), UNCHANGED timestamp
  PROVE  create_stream_batch(sender, requests)
<1> DEFINE count == Len(requests)
           total == aggregate_amount(requests)
           s(i) == NewStream(sender, requests[i], requests[i].start_time)
           p == create_stream_batch_code(Env, sender, requests).statements
<1>0. /\ requests \in Seq(StreamRequest) /\ count \in Nat /\ counter \in Nat
      /\ \A i \in 1..count : requests[i] \in StreamRequest
  BY StreamsAssumption, StateTypes
<1>1. /\ initialized
      /\ count > 0
      /\ \A i \in 1..count : valid_request(requests[i], requests[i].start_time)
      /\ total <= I128MAX
      /\ counter + count <= U64MAX
  BY <1>0, BatchPassed, EnvFields DEF valid_request
<1>2. /\ p[1].from = sender /\ p[1].amount = total /\ p[1].untracked = total
      /\ \A i \in 1..count : p[2 * i].stream = s(i)
      /\ p[2 * count + 2].next = counter + count
  <2>1. SubSeq(requests, 1, count) = requests
    BY <1>0
  <2>2. Env.counter \in Nat
    BY <1>0, EnvFields
  <2> DEFINE sum == aggregate_amount(SubSeq(requests, 1, count))
  <2>3. /\ p[1] = [do |-> "escrow", from |-> sender, amount |-> sum, untracked |-> sum]
        /\ \A i \in 1..count : p[2 * i] = StoreStream(Env.counter + i - 1, s(i))
        /\ p[2 * count + 2] = [do |-> "write_counter", next |-> Env.counter + count]
    BY <1>0, <2>2, BatchShape
  <2>4. sum = total
    BY <2>1
  <2> HIDE DEF p, s, count, total, sum
  <2>5. p[1].from = sender /\ p[1].amount = total /\ p[1].untracked = total
    BY <2>3, <2>4
  <2>6. ASSUME NEW i \in 1..count
        PROVE  p[2 * i].stream = s(i)
    <3>1. p[2 * i] = StoreStream(Env.counter + i - 1, s(i))
      BY <2>3
    <3> QED
      BY <3>1 DEF StoreStream
  <2>7. p[2 * count + 2].next = counter + count
    <3>1. p[2 * count + 2].next = Env.counter + count
      BY <2>3
    <3> QED
      BY <3>1, EnvFields
  <2> QED
    BY <2>5, <2>6, <2>7
<1> HIDE DEF p, s
<1>3. Opening(Env, p, count, count, working) /\ working.counter = p[2 * count + 2].next
  <2>1. BatchStage(Env, p, count, 2 * count + 3, working)
    BY DEF p
  <2>2. /\ 2 * count + 3 # 1
        /\ \A i \in 0..count : 2 * count + 3 # 2 * i + 2
        /\ \A i \in 0..(count - 1) : 2 * count + 3 # 2 * i + 3
    BY <1>0
  <2> HIDE DEF count
  <2> QED
    BY <2>1, <2>2 DEF BatchStage
<1>4. /\ working.initialized = Env.initialized /\ working.supply_cap = Env.supply_cap
      /\ working.total_supply = Env.total_supply
  BY <1>3 DEF Opening, Same
<1>5. /\ working.balance = Transfer(Env.balance, p[1].from, Contract, p[1].amount)
      /\ p[1].amount > 0 => CanPay(Env.balance, p[1].from, p[1].amount)
      /\ working.untracked = Env.untracked + p[1].untracked
      /\ working.streams = OpenedStreams(Env, p, count)
      /\ working.paid = Opened(Env.paid, Env.counter + count)
      /\ working.refunded = Opened(Env.refunded, Env.counter + count)
      /\ working.counter = p[2 * count + 2].next
  BY <1>3 DEF Opening
<1>6. total > 0
  <2>1. /\ total \in Nat
        /\ requests[1].total_amount \in 1..total /\ 1 \in 1..count
    BY <1>0, <1>1, Aggregate
  <2> HIDE DEF total
  <2> QED
    BY <2>1
<1>7. CanPay(balance, sender, total)
  BY <1>2, <1>5, <1>6, EnvFields
<1>8. OpenedStreams(Env, p, count) =
        [i \in 0..(counter + count - 1) |->
           IF i < counter THEN streams[i] ELSE s(i - counter + 1)]
  <2>1. ASSUME NEW i \in 0..(counter + count - 1), ~(i < counter)
        PROVE  p[2 * (i - counter + 1)].stream = s(i - counter + 1)
    <3>1. i - counter + 1 \in 1..count
      BY <1>0, <2>1
    <3> QED
      BY <1>2, <3>1
  <2>2. OpenedStreams(Env, p, count) =
          [i \in 0..(counter + count - 1) |->
             IF i < counter THEN streams[i] ELSE p[2 * (i - counter + 1)].stream]
    BY EnvFields DEF OpenedStreams
  <2> QED
    BY <2>1, <2>2
<1>9. /\ balance' = Transfer(balance, sender, Contract, total)
      /\ untracked' = untracked + total
      /\ streams' = [i \in 0..(counter + count - 1) |->
           IF i < counter THEN streams[i] ELSE s(i - counter + 1)]
      /\ paid' = Opened(paid, counter + count)
      /\ refunded' = Opened(refunded, counter + count)
      /\ counter' = counter + count
  BY <1>2, <1>5, <1>8, EnvFields DEF commit
<1>10. UNCHANGED <<initialized, total_supply, supply_cap, timestamp>>
  BY <1>4, EnvFields DEF commit
<1> QED
  BY <1>1, <1>7, <1>9, <1>10 DEF create_stream_batch, s

LEMMA BatchRuns ==
  ASSUME Inv, Numbered(Env), DOMAIN working = Fields,
         NEW sender \in Accounts, NEW requests \in Batches,
         counter + Len(requests) <= MaxStreams,
         call = [op |-> "create_stream_batch", by |-> sender, requests |-> requests],
         Passed(create_stream_batch_code(Env, sender, requests)),
         BatchStage(Env, create_stream_batch_code(Env, sender, requests).statements,
                    Len(requests), pc, working),
         execute(statement)
  PROVE  \/ /\ BatchStage(Env, create_stream_batch_code(Env, sender, requests).statements,
                          Len(requests), pc + 1, working')
            /\ Changes(Fields)
         \/ /\ return(statement) /\ create_stream_batch(sender, requests)
            /\ BatchStage(Env, create_stream_batch_code(Env, sender, requests).statements,
                          Len(requests), 2 * Len(requests) + 3, working)
<1> DEFINE p == create_stream_batch_code(Env, sender, requests).statements
           count == Len(requests)
           s(i) == NewStream(sender, requests[i], requests[i].start_time)
           total == aggregate_amount(SubSeq(requests, 1, count))
<1>0. requests \in Seq(StreamRequest) /\ count \in Nat /\ Env.counter \in Nat
  BY StreamsAssumption DEF Numbered
<1>1. /\ p[1] = [do |-> "escrow", from |-> sender, amount |-> total, untracked |-> total]
      /\ \A i \in 1..count :
           /\ p[2 * i] = StoreStream(Env.counter + i - 1, s(i))
           /\ p[2 * i + 1] = stream_created(Env.counter + i - 1, s(i))
      /\ p[2 * count + 2] = [do |-> "write_counter", next |-> Env.counter + count]
      /\ p[2 * count + 3] = Return
  BY <1>0, BatchShape
<1>2. statement = p[pc]
  BY DEF statement, code
<1>3. BatchStage(Env, p, count, pc, working)
  OBVIOUS
<1> HIDE DEF p, s, total, count
<1>4. BatchProgram(Env, p, count)
  <2>1. p[1].do = "escrow"
    BY <1>1
  <2>2. ASSUME NEW i \in 1..count
        PROVE  /\ p[2 * i].do = "write_stream" /\ p[2 * i].id = Env.counter + i - 1
               /\ p[2 * i + 1].do = "publish" /\ p[2 * i + 1].event.topic = "created"
               /\ p[2 * i + 1].event.id = Env.counter + i - 1
    <3>1. p[2 * i] = StoreStream(Env.counter + i - 1, s(i))
      BY <1>1
    <3>2. p[2 * i + 1] = stream_created(Env.counter + i - 1, s(i))
      BY <1>1
    <3>3. p[2 * i].do = "write_stream" /\ p[2 * i].id = Env.counter + i - 1
      BY <3>1 DEF StoreStream
    <3>4. /\ p[2 * i + 1].do = "publish" /\ p[2 * i + 1].event.topic = "created"
          /\ p[2 * i + 1].event.id = Env.counter + i - 1
      BY <3>2 DEF stream_created, Publish
    <3> QED
      BY <3>3, <3>4
  <2>3. p[2 * count + 2].do = "write_counter" /\ p[2 * count + 3].do = "return"
    BY <1>1 DEF Return
  <2> QED
    BY <2>1, <2>2, <2>3 DEF BatchProgram
<1>5. CASE p[pc].do # "return"
  BY <1>0, <1>2, <1>3, <1>4, <1>5, BatchSteps DEF p, count
<1>6. CASE p[pc].do = "return"
  <2>1. pc = 2 * count + 3
    <3>1. CASE pc = 1
      BY <3>1, <1>4, <1>6 DEF BatchProgram
    <3>2. ASSUME NEW i \in 0..count, pc = 2 * i + 2
          PROVE  FALSE
      <4>1. CASE i = count
        BY <4>1, <3>2, <1>4, <1>6 DEF BatchProgram
      <4>2. CASE i # count
        <5>1. i + 1 \in 1..count /\ pc = 2 * (i + 1)
          BY <4>2, <3>2, <1>0
        <5> QED
          BY <5>1, <1>4, <1>6 DEF BatchProgram
      <4> QED
        BY <4>1, <4>2
    <3>3. ASSUME NEW i \in 0..(count - 1), pc = 2 * i + 3
          PROVE  FALSE
      <4>1. i + 1 \in 1..count /\ pc = 2 * (i + 1) + 1
        BY <3>3, <1>0
      <4> QED
        BY <4>1, <1>4, <1>6 DEF BatchProgram
    <3> QED
      BY <3>1, <3>2, <3>3, <1>3 DEF BatchStage
  <2>2. return(statement)
    BY <1>2, <1>6 DEF execute
  <2>3. commit(working) /\ UNCHANGED timestamp
    BY <2>2 DEF return
  <2>4. BatchStage(Env, p, count, 2 * count + 3, working)
    BY <2>1, <1>3
  <2>5. create_stream_batch(sender, requests)
    BY <2>3, <2>4, BatchReturns DEF p, count
  <2> QED
    BY <2>2, <2>4, <2>5 DEF p, count
<1> QED
  BY <1>5, <1>6

-----------------------------------------------------------------------------
(* What the checks answer                                                  *)

\* The errors that tell a caller something about its own arguments only.
Plain ==
  {"AlreadyInitialized", "NotInitialized", "InvalidAmount", "InvalidTimeRange",
   "Unauthorized", "EndTimeInPast", "AmountBelowMinimum", "StreamNotActive", "EmptyBatch"}

\* A property of every check is one of the answer.
LEMMA AnswerIn ==
  ASSUME NEW checks, DOMAIN checks \subseteq Nat, NEW S,
         \A i \in DOMAIN checks : checks[i] = "Ok" \/ checks[i] \in S
  PROVE  first_error(checks) = "Ok" \/ first_error(checks) \in S
  BY FirstError

\* The check that refused, and those that passed before it.
LEMMA FirstFailure ==
  ASSUME NEW checks, DOMAIN checks \subseteq Nat, first_error(checks) # "Ok"
  PROVE  \E i \in DOMAIN checks :
           /\ first_error(checks) = checks[i] /\ checks[i] # "Ok"
           /\ \A j \in DOMAIN checks : j < i => checks[j] = "Ok"
  BY FirstError

\* What the checks that several entrypoints share answer.
LEMMA AmountRefused ==
  ASSUME NEW amount
  PROVE  amount_error(amount) = "Ok" \/ amount_error(amount) \in Plain
<1> DEFINE checks == << require(is_valid_amount(amount), "InvalidAmount"),
                       require(amount >= MIN_STREAM_AMOUNT, "AmountBelowMinimum") >>
<1>1. /\ DOMAIN checks = 1..2
      /\ checks[1] = require(is_valid_amount(amount), "InvalidAmount")
      /\ checks[2] = require(amount >= MIN_STREAM_AMOUNT, "AmountBelowMinimum")
  OBVIOUS
<1>2. amount_error(amount) = first_error(checks)
  BY DEF amount_error
<1> HIDE DEF checks
<1>3. /\ checks[1] = "Ok" \/ checks[1] \in Plain
      /\ checks[2] = "Ok" \/ checks[2] \in Plain
  BY <1>1 DEF require, Plain
<1> QED
  BY <1>1, <1>2, <1>3, AnswerIn

LEMMA WindowRefused ==
  ASSUME NEW env, NEW start, NEW end
  PROVE  window_error(env, start, end) = "Ok" \/ window_error(env, start, end) \in Plain
<1> DEFINE checks == << require(end > start, "InvalidTimeRange"),
                       require(end > env.timestamp, "EndTimeInPast") >>
<1>1. /\ DOMAIN checks = 1..2
      /\ checks[1] = require(end > start, "InvalidTimeRange")
      /\ checks[2] = require(end > env.timestamp, "EndTimeInPast")
  OBVIOUS
<1>2. window_error(env, start, end) = first_error(checks)
  BY DEF window_error
<1> HIDE DEF checks
<1>3. /\ checks[1] = "Ok" \/ checks[1] \in Plain
      /\ checks[2] = "Ok" \/ checks[2] \in Plain
  BY <1>1 DEF require, Plain
<1> QED
  BY <1>1, <1>2, <1>3, AnswerIn

LEMMA SupplyRefused ==
  ASSUME NEW env, NEW amount
  PROVE  LET error == supply_error(env, amount)
         IN  /\ error \in {"Ok", "Overflow", "SupplyCapExceeded"}
             /\ error = "SupplyCapExceeded" => ~(env.total_supply + amount <= env.supply_cap)
<1> DEFINE checks == << require(env.total_supply + amount <= I128MAX, "Overflow"),
                       require(env.total_supply + amount <= env.supply_cap,
                               "SupplyCapExceeded") >>
<1>1. /\ DOMAIN checks = 1..2
      /\ checks[1] = require(env.total_supply + amount <= I128MAX, "Overflow")
      /\ checks[2] = require(env.total_supply + amount <= env.supply_cap,
                             "SupplyCapExceeded")
  OBVIOUS
<1>2. supply_error(env, amount) = first_error(checks)
  BY DEF supply_error
<1> HIDE DEF checks
<1>3. CASE first_error(checks) = "Ok"
  BY <1>2, <1>3
<1>4. CASE first_error(checks) # "Ok"
  <2>1. PICK i \in 1..2 : first_error(checks) = checks[i] /\ checks[i] # "Ok"
    BY <1>1, <1>4, FirstFailure
  <2>2. CASE i = 1
    BY <1>1, <1>2, <2>1, <2>2 DEF require
  <2>3. CASE i = 2
    BY <1>1, <1>2, <2>1, <2>3 DEF require
  <2> QED
    BY <2>1, <2>2, <2>3
<1> QED
  BY <1>3, <1>4

\* What an answer tells of the stream, the window or the cap: one operator
\* per entrypoint that claims something of them, and the lemma that it does.
WithdrawTells(env, id, error) ==
  LET s == read_stream(env, id)
  IN  /\ error \in {"Ok", "StreamNotFound", "AlreadyCancelled", "AlreadyCompleted", "Overflow",
                     "NothingToWithdraw"} \cup Plain
      /\ error = "StreamNotFound" => ~Found(env, id)
      /\ error \in {"AlreadyCancelled", "AlreadyCompleted", "Overflow", "NothingToWithdraw"}
           => Found(env, id)
      /\ error = "AlreadyCancelled" => s.status = "Cancelled"
      /\ error = "AlreadyCompleted" => s.status = "Completed"
      /\ error = "Overflow" => vesting_overflows(s, env.timestamp)
      /\ error = "NothingToWithdraw" =>
           /\ ~(withdrawable(s, env.timestamp) > 0)
           /\ s.status # "Cancelled" /\ s.status # "Completed"

LEMMA WithdrawRefused ==
  ASSUME NEW env, NEW id, NEW recipient
  PROVE  WithdrawTells(env, id, first_error(withdraw_code(env, id, recipient).checks))
<1> DEFINE s == read_stream(env, id)
           checks == withdraw_code(env, id, recipient).checks
           error == first_error(checks)
<1>1. /\ DOMAIN checks = 1..6
      /\ checks[1] = require(Found(env, id), "StreamNotFound")
      /\ checks[2] = require(recipient = s.recipient, "Unauthorized")
      /\ checks[3] = require(s.status # "Cancelled", "AlreadyCancelled")
      /\ checks[4] = require(s.status # "Completed", "AlreadyCompleted")
      /\ checks[5] = require(~vesting_overflows(s, env.timestamp), "Overflow")
      /\ checks[6] = require(withdrawable(s, env.timestamp) > 0, "NothingToWithdraw")
  BY DEF withdraw_code
<1> HIDE DEF checks
<1> SUFFICES WithdrawTells(env, id, error)
  BY DEF checks
<1>2. CASE error = "Ok"
  BY <1>2 DEF WithdrawTells
<1>3. CASE error # "Ok"
  <2>1. PICK i \in 1..6 : /\ error = checks[i] /\ checks[i] # "Ok"
                         /\ \A j \in 1..6 : j < i => checks[j] = "Ok"
    BY <1>1, <1>3, FirstFailure
  <2> HIDE DEF error
  <2>2. CASE i = 1
    <3>1. error = checks[1] /\ checks[1] # "Ok"
      BY <2>1, <2>2
    <3> QED
      BY <1>1, <3>1 DEF require, Plain, WithdrawTells
  <2>3. CASE i = 2
    <3>1. checks[1] = "Ok"
      BY <2>1, <2>3
    <3>2. error = checks[2] /\ checks[2] # "Ok"
      BY <2>1, <2>3
    <3> QED
      BY <1>1, <3>1, <3>2 DEF require, Plain, WithdrawTells
  <2>4. CASE i = 3
    <3>1. checks[1] = "Ok" /\ checks[2] = "Ok"
      BY <2>1, <2>4
    <3>2. error = checks[3] /\ checks[3] # "Ok"
      BY <2>1, <2>4
    <3> QED
      BY <1>1, <3>1, <3>2 DEF require, Plain, WithdrawTells
  <2>5. CASE i = 4
    <3>1. checks[1] = "Ok" /\ checks[2] = "Ok" /\ checks[3] = "Ok"
      BY <2>1, <2>5
    <3>2. error = checks[4] /\ checks[4] # "Ok"
      BY <2>1, <2>5
    <3> QED
      BY <1>1, <3>1, <3>2 DEF require, Plain, WithdrawTells
  <2>6. CASE i = 5
    <3>1. checks[1] = "Ok" /\ checks[2] = "Ok" /\ checks[3] = "Ok" /\ checks[4] = "Ok"
      BY <2>1, <2>6
    <3>2. error = checks[5] /\ checks[5] # "Ok"
      BY <2>1, <2>6
    <3> QED
      BY <1>1, <3>1, <3>2 DEF require, Plain, WithdrawTells
  <2>7. CASE i = 6
    <3>1. /\ checks[1] = "Ok" /\ checks[2] = "Ok" /\ checks[3] = "Ok"
          /\ checks[4] = "Ok" /\ checks[5] = "Ok"
      BY <2>1, <2>7
    <3>2. error = checks[6] /\ checks[6] # "Ok"
      BY <2>1, <2>7
    <3> QED
      BY <1>1, <3>1, <3>2 DEF require, Plain, WithdrawTells
  <2> QED
    BY <2>1, <2>2, <2>3, <2>4, <2>5, <2>6, <2>7
<1> QED
  BY <1>2, <1>3

CancelTells(env, id, error) ==
  LET s == read_stream(env, id)
  IN  /\ error \in {"Ok", "StreamNotFound", "AlreadyCancelled", "Overflow"} \cup Plain
      /\ error = "StreamNotFound" => ~Found(env, id)
      /\ error \in {"AlreadyCancelled", "Overflow"} => Found(env, id)
      /\ error = "AlreadyCancelled" => s.status = "Cancelled"
      /\ error = "Overflow" => vesting_overflows(s, env.timestamp)

LEMMA CancelRefused ==
  ASSUME NEW env, NEW id, NEW caller
  PROVE  CancelTells(env, id, first_error(cancel_code(env, id, caller).checks))
<1> DEFINE s == read_stream(env, id)
           checks == cancel_code(env, id, caller).checks
           error == first_error(checks)
<1>1. /\ DOMAIN checks = 1..4
      /\ checks[1] = require(Found(env, id), "StreamNotFound")
      /\ checks[2] = require(caller \in {s.sender, s.recipient}, "Unauthorized")
      /\ checks[3] = require(s.status # "Cancelled", "AlreadyCancelled")
      /\ checks[4] = require(~vesting_overflows(s, env.timestamp), "Overflow")
  BY DEF cancel_code
<1> HIDE DEF checks
<1> SUFFICES CancelTells(env, id, error)
  BY DEF checks
<1>2. CASE error = "Ok"
  BY <1>2 DEF CancelTells
<1>3. CASE error # "Ok"
  <2>1. PICK i \in 1..4 : /\ error = checks[i] /\ checks[i] # "Ok"
                         /\ \A j \in 1..4 : j < i => checks[j] = "Ok"
    BY <1>1, <1>3, FirstFailure
  <2> HIDE DEF error
  <2>2. CASE i = 1
    <3>1. error = checks[1] /\ checks[1] # "Ok"
      BY <2>1, <2>2
    <3> QED
      BY <1>1, <3>1 DEF require, Plain, CancelTells
  <2>3. CASE i = 2
    <3>1. checks[1] = "Ok"
      BY <2>1, <2>3
    <3>2. error = checks[2] /\ checks[2] # "Ok"
      BY <2>1, <2>3
    <3> QED
      BY <1>1, <3>1, <3>2 DEF require, Plain, CancelTells
  <2>4. CASE i = 3
    <3>1. checks[1] = "Ok" /\ checks[2] = "Ok"
      BY <2>1, <2>4
    <3>2. error = checks[3] /\ checks[3] # "Ok"
      BY <2>1, <2>4
    <3> QED
      BY <1>1, <3>1, <3>2 DEF require, Plain, CancelTells
  <2>5. CASE i = 4
    <3>1. checks[1] = "Ok" /\ checks[2] = "Ok" /\ checks[3] = "Ok"
      BY <2>1, <2>5
    <3>2. error = checks[4] /\ checks[4] # "Ok"
      BY <2>1, <2>5
    <3> QED
      BY <1>1, <3>1, <3>2 DEF require, Plain, CancelTells
  <2> QED
    BY <2>1, <2>2, <2>3, <2>4, <2>5
<1> QED
  BY <1>2, <1>3

ExtendTells(env, id, error) ==
  /\ error \in {"Ok", "StreamNotFound"} \cup Plain
  /\ error = "StreamNotFound" => ~Found(env, id)

LEMMA ExtendRefused ==
  ASSUME NEW env, NEW id, NEW sender, NEW new_end
  PROVE  ExtendTells(env, id, first_error(extend_stream_code(env, id, sender, new_end).checks))
<1> DEFINE s == read_stream(env, id)
           checks == extend_stream_code(env, id, sender, new_end).checks
           error == first_error(checks)
<1>1. /\ DOMAIN checks = 1..4
      /\ checks[1] = require(Found(env, id), "StreamNotFound")
      /\ checks[2] = require(sender = s.sender, "Unauthorized")
      /\ checks[3] = require(s.status = "Active", "StreamNotActive")
      /\ checks[4] = require(~within_window(new_end, s), "InvalidTimeRange")
  BY DEF extend_stream_code
<1> HIDE DEF checks
<1> SUFFICES ExtendTells(env, id, error)
  BY DEF checks
<1>2. CASE error = "Ok"
  BY <1>2 DEF ExtendTells
<1>3. CASE error # "Ok"
  <2>1. PICK i \in 1..4 : /\ error = checks[i] /\ checks[i] # "Ok"
                         /\ \A j \in 1..4 : j < i => checks[j] = "Ok"
    BY <1>1, <1>3, FirstFailure
  <2> HIDE DEF error
  <2>2. CASE i = 1
    <3>1. error = checks[1] /\ checks[1] # "Ok"
      BY <2>1, <2>2
    <3> QED
      BY <1>1, <3>1 DEF require, Plain, ExtendTells
  <2>3. CASE i = 2
    <3>1. checks[1] = "Ok"
      BY <2>1, <2>3
    <3>2. error = checks[2] /\ checks[2] # "Ok"
      BY <2>1, <2>3
    <3> QED
      BY <1>1, <3>1, <3>2 DEF require, Plain, ExtendTells
  <2>4. CASE i = 3
    <3>1. checks[1] = "Ok" /\ checks[2] = "Ok"
      BY <2>1, <2>4
    <3>2. error = checks[3] /\ checks[3] # "Ok"
      BY <2>1, <2>4
    <3> QED
      BY <1>1, <3>1, <3>2 DEF require, Plain, ExtendTells
  <2>5. CASE i = 4
    <3>1. checks[1] = "Ok" /\ checks[2] = "Ok" /\ checks[3] = "Ok"
      BY <2>1, <2>5
    <3>2. error = checks[4] /\ checks[4] # "Ok"
      BY <2>1, <2>5
    <3> QED
      BY <1>1, <3>1, <3>2 DEF require, Plain, ExtendTells
  <2> QED
    BY <2>1, <2>2, <2>3, <2>4, <2>5
<1> QED
  BY <1>2, <1>3

TopUpTells(env, id, amount, error) ==
  /\ error \in {"Ok", "StreamNotFound", "Overflow", "SupplyCapExceeded"} \cup Plain
  /\ error = "StreamNotFound" => ~Found(env, id)
  /\ error = "SupplyCapExceeded" => ~(env.total_supply + amount <= env.supply_cap)

LEMMA TopUpRefused ==
  ASSUME NEW env, NEW id, NEW sender, NEW amount
  PROVE  TopUpTells(env, id, amount, first_error(top_up_code(env, id, sender, amount).checks))
<1> DEFINE s == read_stream(env, id)
           checks == top_up_code(env, id, sender, amount).checks
           error == first_error(checks)
<1>1. /\ DOMAIN checks = 1..6
      /\ checks[1] = require(is_valid_amount(amount), "InvalidAmount")
      /\ checks[2] = require(Found(env, id), "StreamNotFound")
      /\ checks[3] = require(sender = s.sender, "Unauthorized")
      /\ checks[4] = require(s.status = "Active", "StreamNotActive")
      /\ checks[5] = require(s.total + amount <= I128MAX, "Overflow")
      /\ checks[6] = supply_error(env, amount)
  BY DEF top_up_code
<1> HIDE DEF checks
<1> SUFFICES TopUpTells(env, id, amount, error)
  BY DEF checks
<1>2. CASE error = "Ok"
  BY <1>2 DEF TopUpTells
<1>3. CASE error # "Ok"
  <2>1. PICK i \in 1..6 : /\ error = checks[i] /\ checks[i] # "Ok"
                         /\ \A j \in 1..6 : j < i => checks[j] = "Ok"
    BY <1>1, <1>3, FirstFailure
  <2> HIDE DEF error
  <2>2. CASE i = 1
    <3>1. error = checks[1] /\ checks[1] # "Ok"
      BY <2>1, <2>2
    <3> QED
      BY <1>1, <3>1, SupplyRefused DEF require, Plain, TopUpTells
  <2>3. CASE i = 2
    <3>1. checks[1] = "Ok"
      BY <2>1, <2>3
    <3>2. error = checks[2] /\ checks[2] # "Ok"
      BY <2>1, <2>3
    <3> QED
      BY <1>1, <3>1, <3>2, SupplyRefused DEF require, Plain, TopUpTells
  <2>4. CASE i = 3
    <3>1. checks[1] = "Ok" /\ checks[2] = "Ok"
      BY <2>1, <2>4
    <3>2. error = checks[3] /\ checks[3] # "Ok"
      BY <2>1, <2>4
    <3> QED
      BY <1>1, <3>1, <3>2, SupplyRefused DEF require, Plain, TopUpTells
  <2>5. CASE i = 4
    <3>1. checks[1] = "Ok" /\ checks[2] = "Ok" /\ checks[3] = "Ok"
      BY <2>1, <2>5
    <3>2. error = checks[4] /\ checks[4] # "Ok"
      BY <2>1, <2>5
    <3> QED
      BY <1>1, <3>1, <3>2, SupplyRefused DEF require, Plain, TopUpTells
  <2>6. CASE i = 5
    <3>1. checks[1] = "Ok" /\ checks[2] = "Ok" /\ checks[3] = "Ok" /\ checks[4] = "Ok"
      BY <2>1, <2>6
    <3>2. error = checks[5] /\ checks[5] # "Ok"
      BY <2>1, <2>6
    <3> QED
      BY <1>1, <3>1, <3>2, SupplyRefused DEF require, Plain, TopUpTells
  <2>7. CASE i = 6
    <3>1. /\ checks[1] = "Ok" /\ checks[2] = "Ok" /\ checks[3] = "Ok"
          /\ checks[4] = "Ok" /\ checks[5] = "Ok"
      BY <2>1, <2>7
    <3>2. error = checks[6] /\ checks[6] # "Ok"
      BY <2>1, <2>7
    <3> QED
      BY <1>1, <3>1, <3>2, SupplyRefused DEF require, Plain, TopUpTells
  <2> QED
    BY <2>1, <2>2, <2>3, <2>4, <2>5, <2>6, <2>7
<1> QED
  BY <1>2, <1>3

CreateTells(env, amount, error) ==
  /\ error \in {"Ok", "Overflow", "SupplyCapExceeded"} \cup Plain
  /\ error = "SupplyCapExceeded" => ~(env.total_supply + amount <= env.supply_cap)

LEMMA CreateRefused ==
  ASSUME NEW env, NEW sender, NEW request
  PROVE  CreateTells(env, request.total_amount,
                     first_error(create_stream_code(env, sender, request).checks))
<1> DEFINE start == normalize_start_time(env.timestamp, request.start_time)
           amount == request.total_amount
           checks == create_stream_code(env, sender, request).checks
           error == first_error(checks)
<1>1. /\ DOMAIN checks = 1..4
      /\ checks[1] = require(env.initialized, "NotInitialized")
      /\ checks[2] = amount_error(amount)
      /\ checks[3] = window_error(env, start, request.end_time)
      /\ checks[4] = supply_error(env, amount)
  BY DEF create_stream_code
<1> HIDE DEF checks
<1> SUFFICES CreateTells(env, amount, error)
  BY DEF checks
<1>2. CASE error = "Ok"
  BY <1>2 DEF CreateTells
<1>3. CASE error # "Ok"
  <2>1. PICK i \in 1..4 : /\ error = checks[i] /\ checks[i] # "Ok"
                         /\ \A j \in 1..4 : j < i => checks[j] = "Ok"
    BY <1>1, <1>3, FirstFailure
  <2> HIDE DEF error
  <2>2. CASE i = 1
    <3>1. error = checks[1] /\ checks[1] # "Ok"
      BY <2>1, <2>2
    <3> QED
      BY <1>1, <3>1, AmountRefused, WindowRefused, SupplyRefused
      DEF require, Plain, CreateTells
  <2>3. CASE i = 2
    <3>1. checks[1] = "Ok"
      BY <2>1, <2>3
    <3>2. error = checks[2] /\ checks[2] # "Ok"
      BY <2>1, <2>3
    <3> QED
      BY <1>1, <3>1, <3>2, AmountRefused, WindowRefused, SupplyRefused
      DEF require, Plain, CreateTells
  <2>4. CASE i = 3
    <3>1. checks[1] = "Ok" /\ checks[2] = "Ok"
      BY <2>1, <2>4
    <3>2. error = checks[3] /\ checks[3] # "Ok"
      BY <2>1, <2>4
    <3> QED
      BY <1>1, <3>1, <3>2, AmountRefused, WindowRefused, SupplyRefused
      DEF require, Plain, CreateTells
  <2>5. CASE i = 4
    <3>1. checks[1] = "Ok" /\ checks[2] = "Ok" /\ checks[3] = "Ok"
      BY <2>1, <2>5
    <3>2. error = checks[4] /\ checks[4] # "Ok"
      BY <2>1, <2>5
    <3> QED
      BY <1>1, <3>1, <3>2, AmountRefused, WindowRefused, SupplyRefused
      DEF require, Plain, CreateTells
  <2> QED
    BY <2>1, <2>2, <2>3, <2>4, <2>5
<1> QED
  BY <1>2, <1>3

\* The others only answer for their arguments.
LEMMA InitializeRefused ==
  ASSUME NEW env
  PROVE  LET error == first_error(initialize_code(env).checks)
         IN  error = "Ok" \/ error \in Plain
<1> DEFINE checks == initialize_code(env).checks
<1>1. /\ DOMAIN checks = 1..1
      /\ checks[1] = require(~env.initialized, "AlreadyInitialized")
  BY DEF initialize_code
<1> HIDE DEF checks
<1>2. checks[1] = "Ok" \/ checks[1] \in Plain
  BY <1>1 DEF require, Plain
<1> QED
  BY <1>1, <1>2, AnswerIn DEF checks

LEMMA SetSupplyCapRefused ==
  ASSUME NEW env, NEW new_cap
  PROVE  LET error == first_error(set_supply_cap_code(env, new_cap).checks)
         IN  error = "Ok" \/ error \in Plain
<1> DEFINE checks == set_supply_cap_code(env, new_cap).checks
<1>1. /\ DOMAIN checks = 1..2
      /\ checks[1] = require(env.initialized, "NotInitialized")
      /\ checks[2] = require(new_cap > 0, "InvalidAmount")
  BY DEF set_supply_cap_code
<1> HIDE DEF checks
<1>2. /\ checks[1] = "Ok" \/ checks[1] \in Plain
      /\ checks[2] = "Ok" \/ checks[2] \in Plain
  BY <1>1 DEF require, Plain
<1> QED
  BY <1>1, <1>2, AnswerIn DEF checks

\* And the overflow of a sum, which tells nothing of a stream.
Mild == Plain \cup {"Ok", "Overflow"}

LEMMA RequestRefused ==
  ASSUME NEW env, NEW request, NEW sum
  PROVE  first_error(<< amount_error(request.total_amount),
                        window_error(env, request.start_time, request.end_time),
                        require(sum <= I128MAX, "Overflow") >>) \in Mild
<1> DEFINE checks == << amount_error(request.total_amount),
                        window_error(env, request.start_time, request.end_time),
                        require(sum <= I128MAX, "Overflow") >>
<1>1. /\ DOMAIN checks = 1..3
      /\ checks[1] = amount_error(request.total_amount)
      /\ checks[2] = window_error(env, request.start_time, request.end_time)
      /\ checks[3] = require(sum <= I128MAX, "Overflow")
  OBVIOUS
<1> HIDE DEF checks
<1>2. checks[1] \in Mild
  BY <1>1, AmountRefused DEF Mild
<1>3. checks[2] \in Mild
  BY <1>1, WindowRefused DEF Mild
<1>4. checks[3] \in Mild
  BY <1>1 DEF require, Mild
<1>5. "Ok" \in Mild
  BY DEF Mild
<1>6. \A i \in DOMAIN checks : checks[i] \in Mild
  BY <1>1, <1>2, <1>3, <1>4
<1>7. first_error(checks) \in Mild
  BY <1>1, <1>5, <1>6, AnswerIn
<1> QED
  BY <1>7 DEF checks

\* A batch answers for the first request at fault.
LEMMA BatchRefused ==
  ASSUME NEW env, NEW sender, NEW requests \in Seq(StreamRequest)
  PROVE  first_error(create_stream_batch_code(env, sender, requests).checks) \in Mild
<1> DEFINE count == Len(requests)
           sum(i) == aggregate_amount(SubSeq(requests, 1, i))
           each(i) == first_error(<< amount_error(requests[i].total_amount),
                                     window_error(env, requests[i].start_time,
                                                  requests[i].end_time),
                                     require(sum(i) <= I128MAX, "Overflow") >>)
           check(k) ==
             CASE k = 1 -> require(env.initialized, "NotInitialized")
               [] k = 2 -> require(count > 0, "EmptyBatch")
               [] k \in 3..(count + 2) -> each(k - 2)
               [] k = count + 3 -> require(env.counter + count <= U64MAX, "Overflow")
           checks == create_stream_batch_code(env, sender, requests).checks
<1>0. count \in Nat
  OBVIOUS
<1>1. checks = [k \in 1..(count + 3) |-> check(k)]
  BY DEF create_stream_batch_code
<1>2. \A i : each(i) \in Mild
  BY RequestRefused
<1> HIDE DEF each, count, checks
<1>3. ASSUME NEW k \in 1..(count + 3)
      PROVE  check(k) \in Mild
  <2>1. CASE k = 1
    BY <2>1 DEF require, Plain, Mild
  <2>2. CASE k = 2
    BY <2>2 DEF require, Plain, Mild
  <2>3. CASE k \in 3..(count + 2)
    BY <1>0, <1>2, <2>3
  <2>4. CASE k = count + 3
    <3>1. k # 1 /\ k # 2 /\ ~(k \in 3..(count + 2))
      BY <1>0, <2>4
    <3> QED
      BY <2>4, <3>1 DEF require, Mild
  <2> QED
    BY <1>0, <2>1, <2>2, <2>3, <2>4
<1> HIDE DEF check
<1>4. DOMAIN checks \subseteq Nat /\ \A k \in DOMAIN checks : checks[k] \in Mild
  BY <1>0, <1>1, <1>3
<1>5. "Ok" \in Mild
  BY DEF Mild
<1> QED
  BY <1>4, <1>5, AnswerIn DEF checks

\* An entrypoint answers with Ok or one of its errors.
Answers == Errors \cup {"Ok"}

-----------------------------------------------------------------------------
(* The run of an invocation                                                *)

\* A call c that env's checks let through stands before statement n, with w
\* for its copy of the ledger.
Running(env, c, n, w) ==
  \/ /\ c = [op |-> "initialize"]
     /\ Passed(initialize_code(env))
     /\ InitializeStage(env, n, w)
  \/ \E sender \in Accounts, request \in Requests :
       /\ c = [op |-> "create_stream", by |-> sender, request |-> request]
       /\ env.counter < MaxStreams
       /\ Passed(create_stream_code(env, sender, request))
       /\ CreateStage(env, create_stream_code(env, sender, request).statements, n, w)
  \/ \E sender \in Accounts, requests \in Batches :
       /\ c = [op |-> "create_stream_batch", by |-> sender, requests |-> requests]
       /\ env.counter + Len(requests) <= MaxStreams
       /\ Passed(create_stream_batch_code(env, sender, requests))
       /\ BatchStage(env, create_stream_batch_code(env, sender, requests).statements,
                     Len(requests), n, w)
  \/ \E id \in 0..env.counter, sender \in Accounts, amount \in Amounts :
       /\ c = [op |-> "top_up", by |-> sender, id |-> id, amount |-> amount]
       /\ Passed(top_up_code(env, id, sender, amount))
       /\ TopUpStage(env, top_up_code(env, id, sender, amount).statements, n, w)
  \/ \E id \in 0..env.counter, sender \in Accounts, new_end \in 0..U64MAX :
       /\ c = [op |-> "extend_stream", by |-> sender, id |-> id, new_end |-> new_end]
       /\ Passed(extend_stream_code(env, id, sender, new_end))
       /\ ExtendStage(env, extend_stream_code(env, id, sender, new_end).statements, n, w)
  \/ \E id \in 0..env.counter, recipient \in Accounts :
       /\ c = [op |-> "withdraw", by |-> recipient, id |-> id]
       /\ Passed(withdraw_code(env, id, recipient))
       /\ WithdrawStage(env, withdraw_code(env, id, recipient).statements, n, w)
  \/ \E id \in 0..env.counter, caller \in Accounts :
       /\ c = [op |-> "cancel", by |-> caller, id |-> id]
       /\ Passed(cancel_code(env, id, caller))
       /\ CancelStage(env, cancel_code(env, id, caller).statements, n, w)
  \/ \E new_cap \in Caps :
       /\ c = [op |-> "set_supply_cap", cap |-> new_cap]
       /\ Passed(set_supply_cap_code(env, new_cap))
       /\ SetSupplyCapStage(env, set_supply_cap_code(env, new_cap).statements, n, w)

\* Nothing runs and nothing is left behind, or a call runs.
Runs ==
  /\ pc \in Nat
  /\ outcome \in Errors \cup {"none", "running", "trap", "Ok", "Ok, in an earlier ledger"}
  /\ outcome = "running" <=> ~Idle
  /\ working = [f \in Fields |-> working[f]]
  /\ IF Idle THEN working = Env ELSE Running(Env, call, pc, working)

\* The entrypoint returned Ok: a step of module Streams, and what its
\* statements made of the ledger and the book.
Returns ==
  /\ return(statement)
  /\ \/ /\ call = [op |-> "initialize"]
        /\ Passed(initialize_code(Env))
        /\ initialize
        /\ InitializeStage(Env, 2, working)
     \/ \E sender \in Accounts, request \in Requests :
          /\ call = [op |-> "create_stream", by |-> sender, request |-> request]
          /\ Passed(create_stream_code(Env, sender, request))
          /\ create_stream(sender, request)
          /\ CreateStage(Env, create_stream_code(Env, sender, request).statements,
                         7, working)
     \/ \E sender \in Accounts, requests \in Batches :
          /\ call = [op |-> "create_stream_batch", by |-> sender, requests |-> requests]
          /\ Passed(create_stream_batch_code(Env, sender, requests))
          /\ create_stream_batch(sender, requests)
          /\ BatchStage(Env, create_stream_batch_code(Env, sender, requests).statements,
                        Len(requests), 2 * Len(requests) + 3, working)
     \/ \E id \in DOMAIN streams, sender \in Accounts, amount \in Amounts :
          /\ call = [op |-> "top_up", by |-> sender, id |-> id, amount |-> amount]
          /\ Passed(top_up_code(Env, id, sender, amount))
          /\ top_up(id, sender, amount)
          /\ TopUpStage(Env, top_up_code(Env, id, sender, amount).statements, 5, working)
     \/ \E id \in DOMAIN streams, sender \in Accounts, new_end \in 0..U64MAX :
          /\ call = [op |-> "extend_stream", by |-> sender, id |-> id, new_end |-> new_end]
          /\ Passed(extend_stream_code(Env, id, sender, new_end))
          /\ extend_stream(id, sender, new_end)
          /\ ExtendStage(Env, extend_stream_code(Env, id, sender, new_end).statements,
                         3, working)
     \/ \E id \in DOMAIN streams, recipient \in Accounts :
          /\ call = [op |-> "withdraw", by |-> recipient, id |-> id]
          /\ Passed(withdraw_code(Env, id, recipient))
          /\ withdraw(id, recipient)
          /\ WithdrawStage(Env, withdraw_code(Env, id, recipient).statements, 5, working)
     \/ \E id \in DOMAIN streams, caller \in Accounts :
          /\ call = [op |-> "cancel", by |-> caller, id |-> id]
          /\ Passed(cancel_code(Env, id, caller))
          /\ cancel(id, caller)
          /\ CancelStage(Env, cancel_code(Env, id, caller).statements, 6, working)
     \/ \E new_cap \in Caps :
          /\ call = [op |-> "set_supply_cap", cap |-> new_cap]
          /\ Passed(set_supply_cap_code(Env, new_cap))
          /\ set_supply_cap(new_cap)
          /\ SetSupplyCapStage(Env, set_supply_cap_code(Env, new_cap).statements,
                               3, working)

\* The committed ledger has the fields of a copy.
LEMMA EnvRecord == Env = [f \in Fields |-> Env[f]] /\ DOMAIN Env = Fields
  BY DEF Env, Fields

\* A call that is let through stands before its first statement.
LEMMA InitializeStarts ==
  ASSUME Passed(initialize_code(Env))
  PROVE  Running(Env, [op |-> "initialize"], 1, Env)
<1>1. InitializeStage(Env, 1, Env)
  BY DEF InitializeStage, Same
<1> QED
  BY <1>1, EnvFields DEF Running

LEMMA CreateStarts ==
  ASSUME NEW sender \in Accounts, NEW request \in Requests,
         counter < MaxStreams,
         Passed(create_stream_code(Env, sender, request))
  PROVE  Running(Env, [op |-> "create_stream", by |-> sender, request |-> request], 1, Env)
<1>1. CreateStage(Env, create_stream_code(Env, sender, request).statements, 1, Env)
  BY DEF CreateStage, Same
<1> QED
  BY <1>1, EnvFields DEF Running

LEMMA BatchStarts ==
  ASSUME NEW sender \in Accounts, NEW requests \in Batches,
         counter + Len(requests) <= MaxStreams,
         Passed(create_stream_batch_code(Env, sender, requests))
  PROVE  Running(Env, [op |-> "create_stream_batch", by |-> sender, requests |-> requests],
                 1, Env)
<1>1. BatchStage(Env, create_stream_batch_code(Env, sender, requests).statements,
                 Len(requests), 1, Env)
  BY DEF BatchStage, Same
<1> QED
  BY <1>1, EnvFields DEF Running

LEMMA TopUpStarts ==
  ASSUME NEW id \in 0..counter, NEW sender \in Accounts, NEW amount \in Amounts,
         Passed(top_up_code(Env, id, sender, amount))
  PROVE  Running(Env, [op |-> "top_up", by |-> sender, id |-> id, amount |-> amount], 1, Env)
<1>1. TopUpStage(Env, top_up_code(Env, id, sender, amount).statements, 1, Env)
  BY DEF TopUpStage, Same
<1> QED
  BY <1>1, EnvFields DEF Running

LEMMA ExtendStarts ==
  ASSUME NEW id \in 0..counter, NEW sender \in Accounts, NEW new_end \in 0..U64MAX,
         Passed(extend_stream_code(Env, id, sender, new_end))
  PROVE  Running(Env, [op |-> "extend_stream", by |-> sender, id |-> id, new_end |-> new_end],
                 1, Env)
<1>1. ExtendStage(Env, extend_stream_code(Env, id, sender, new_end).statements, 1, Env)
  BY DEF ExtendStage, Same
<1> QED
  BY <1>1, EnvFields DEF Running

LEMMA WithdrawStarts ==
  ASSUME NEW id \in 0..counter, NEW recipient \in Accounts,
         Passed(withdraw_code(Env, id, recipient))
  PROVE  Running(Env, [op |-> "withdraw", by |-> recipient, id |-> id], 1, Env)
<1>1. WithdrawStage(Env, withdraw_code(Env, id, recipient).statements, 1, Env)
  BY DEF WithdrawStage, Same
<1> QED
  BY <1>1, EnvFields DEF Running

LEMMA CancelStarts ==
  ASSUME NEW id \in 0..counter, NEW caller \in Accounts,
         Passed(cancel_code(Env, id, caller))
  PROVE  Running(Env, [op |-> "cancel", by |-> caller, id |-> id], 1, Env)
<1>1. CancelStage(Env, cancel_code(Env, id, caller).statements, 1, Env)
  BY DEF CancelStage, Same
<1> QED
  BY <1>1, EnvFields DEF Running

LEMMA SetSupplyCapStarts ==
  ASSUME NEW new_cap \in Caps,
         Passed(set_supply_cap_code(Env, new_cap))
  PROVE  Running(Env, [op |-> "set_supply_cap", cap |-> new_cap], 1, Env)
<1>1. SetSupplyCapStage(Env, set_supply_cap_code(Env, new_cap).statements, 1, Env)
  BY DEF SetSupplyCapStage, Same
<1> QED
  BY <1>1, EnvFields DEF Running

-----------------------------------------------------------------------------
(* One step of an invocation                                               *)

\* A statement that goes on leaves a record behind.
LEMMA RecordStays ==
  ASSUME working = [f \in Fields |-> working[f]], NEW t, execute(t), t.do # "return"
  PROVE  working' = [f \in Fields |-> working'[f]] \/ fail("Overflow")
<1>1. ASSUME proceed(working)
      PROVE  working' = [f \in Fields |-> working'[f]]
  BY <1>1 DEF proceed
<1>2. ASSUME NEW f, NEW v, proceed([working EXCEPT ![f] = v])
      PROVE  working' = [g \in Fields |-> working'[g]]
  BY <1>2 DEF proceed
<1>3. ASSUME NEW f1, NEW v1, NEW f2, NEW v2,
             proceed([working EXCEPT ![f1] = v1, ![f2] = v2])
      PROVE  working' = [g \in Fields |-> working'[g]]
  BY <1>3 DEF proceed
<1>4. ASSUME NEW f1, NEW v1, NEW f2, NEW v2, NEW f3, NEW v3,
             proceed([working EXCEPT ![f1] = v1, ![f2] = v2, ![f3] = v3])
      PROVE  working' = [g \in Fields |-> working'[g]]
  BY <1>4 DEF proceed
<1>5. CASE escrow(t)
  BY <1>3, <1>5 DEF escrow
<1>6. CASE pay(t)
  BY <1>3, <1>6 DEF pay
<1>7. CASE refund(t)
  BY <1>3, <1>7 DEF refund
<1>8. CASE store_stream(t)
  BY <1>4, <1>8 DEF store_stream
<1>9. CASE checked_add_counter(t)
  BY <1>1, <1>9 DEF checked_add_counter
<1>10. CASE write_counter(t)
  BY <1>2, <1>10 DEF write_counter
<1>11. CASE write_total_supply(t)
  BY <1>2, <1>11 DEF write_total_supply
<1>12. CASE reduce_total_supply(t)
  BY <1>2, <1>12 DEF reduce_total_supply
<1>13. CASE write_supply_cap(t)
  BY <1>2, <1>13 DEF write_supply_cap
<1>14. CASE write_instance(t)
  BY <1>14 DEF write_instance, proceed
<1>15. CASE publish(t)
  BY <1>2, <1>15 DEF publish
<1> QED
  BY <1>5, <1>6, <1>7, <1>8, <1>9, <1>10, <1>11, <1>12, <1>13, <1>14, <1>15 DEF execute

\* What is not committed leaves the ledger an invocation starts from.
LEMMA EnvKept ==
  ASSUME UNCHANGED <<ledger, timestamp>>
  PROVE  Env' = Env
  BY DEF ledger, Env

\* Dropping the copy leaves the ledger as it was.
LEMMA FailKeeps ==
  ASSUME Runs, NEW error \in Errors \cup {"trap"}, fail(error)
  PROVE  Runs' /\ UNCHANGED <<vars, book>>
<1>1. UNCHANGED <<ledger, timestamp>>
  BY EnvFields DEF fail, commit, after_failure, ledger
<1>2. Env' = Env
  BY <1>1, EnvKept DEF ledger
<1>3. working' = Env' /\ pc' = 0 /\ outcome' = error
  BY <1>2 DEF fail, after_failure
<1>4. Env' = [f \in Fields |-> Env'[f]]
  BY <1>2, EnvRecord
<1>5. Runs'
  BY <1>3, <1>4 DEF Runs, Idle, Errors
<1> QED
  BY <1>1, <1>5 DEF vars, ledger

\* A statement that goes on changes the copy only.
LEMMA GoesOn ==
  ASSUME Runs, ~Idle, Changes(Fields), working' = [f \in Fields |-> working'[f]],
         Running(Env, call, pc + 1, working')
  PROVE  Runs' /\ UNCHANGED <<vars, book>>
<1>1. UNCHANGED <<ledger, timestamp, call, outcome>> /\ pc' = pc + 1
  BY DEF Changes
<1>2. Env' = Env
  BY <1>1, EnvKept
<1>3. pc \in Nat /\ pc' \in Nat /\ pc' # 0 /\ outcome = "running"
  <2>1. pc \in Nat /\ outcome = "running"
    BY DEF Runs
  <2> QED
    BY <1>1, <2>1
<1>4. Running(Env', call', pc', working')
  BY <1>1, <1>2
<1>5. Runs'
  BY <1>1, <1>3, <1>4 DEF Runs, Idle
<1> QED
  BY <1>1, <1>5 DEF vars, ledger

\* The entrypoint's Ok makes its copy the ledger.
LEMMA ReturnCommits ==
  ASSUME Runs, return(statement), working.timestamp = timestamp
  PROVE  Runs'
<1>1. /\ commit(working) /\ pc' = 0 /\ outcome' = "Ok"
      /\ UNCHANGED <<timestamp, working, call, earlier>>
  BY DEF return
<1>2. /\ working.initialized = Env'.initialized /\ working.streams = Env'.streams
      /\ working.counter = Env'.counter /\ working.total_supply = Env'.total_supply
      /\ working.supply_cap = Env'.supply_cap /\ working.balance = Env'.balance
      /\ working.paid = Env'.paid /\ working.refunded = Env'.refunded
      /\ working.untracked = Env'.untracked /\ working.book = Env'.book
      /\ working.timestamp = Env'.timestamp
  BY <1>1 DEF commit, Env
<1>3. Env' = [f \in Fields |-> Env'[f]]
  BY DEF Env, Fields
<1>4. working = [f \in Fields |-> working[f]]
  BY DEF Runs
<1>5. \A f \in Fields : working[f] = Env'[f]
  BY <1>2 DEF Fields
<1>6. working = Env'
  BY <1>3, <1>4, <1>5
<1> QED
  BY <1>1, <1>4, <1>6 DEF Runs, Idle

-----------------------------------------------------------------------------
(* The invariant                                                           *)

EntryFields ==
  {"sender", "recipient", "deposited", "total", "end", "taken", "returned", "phase"}

\* The indexer's entry b tells the stream s, of which r was refunded.
Tells(b, s, r) ==
  /\ DOMAIN b = EntryFields
  /\ b.sender = s.sender /\ b.recipient = s.recipient
  /\ b.total = s.total /\ b.deposited = s.total
  /\ b.end \in {UNKNOWN, s.end}
  /\ b.taken = s.withdrawn
  /\ b.returned = r
  /\ StatusInBook(b) = s.status

\* The indexer has an entry for every stream, and the cap.
Booked ==
  /\ DOMAIN book = {"streams", "cap"}
  /\ book.streams = [id \in 0..(counter - 1) |-> book.streams[id]]
  /\ book.cap = supply_cap
  /\ ~initialized => supply_cap = DEFAULT_SUPPLY_CAP
  /\ \A id \in DOMAIN streams : Tells(book.streams[id], streams[id], refunded[id])

\* The invariant of the invocations: it is inductive.
IInv == Inv /\ Runs /\ Booked

\* The committed ledger is one that a batch can extend.
LEMMA EnvNumbered ==
  ASSUME Inv, Booked
  PROVE  Numbered(Env)
<1>1. /\ counter \in Nat
      /\ streams = [k \in 0..(counter - 1) |-> streams[k]]
      /\ paid \in [0..(counter - 1) -> Nat]
      /\ refunded \in [0..(counter - 1) -> Nat]
  BY StateTypes
<1> QED
  BY <1>1, EnvFields DEF Numbered, Booked

\* One statement of a call that runs.
LEMMA ExecuteStep ==
  ASSUME Inv, Runs, Booked, ~Idle, execute(statement)
  PROVE  Runs' /\ ((UNCHANGED <<vars, book>> /\ outcome' # "Ok") \/ Returns)
<1>1. /\ working = [f \in Fields |-> working[f]] /\ DOMAIN working = Fields
      /\ Running(Env, call, pc, working)
  BY DEF Runs
<1>2. ASSUME Changes(Fields), Running(Env, call, pc + 1, working')
      PROVE  Runs' /\ UNCHANGED <<vars, book>> /\ outcome' # "Ok"
  <2>1. pc' = pc + 1 /\ pc \in Nat /\ outcome' # "Ok"
    BY <1>2 DEF Changes, Runs
  <2>2. CASE statement.do = "return"
    BY <2>1, <2>2 DEF execute, return
  <2>3. CASE statement.do # "return"
    <3>1. CASE fail("Overflow")
      BY <2>1, <3>1, FailKeeps DEF Errors
    <3>2. CASE working' = [f \in Fields |-> working'[f]]
      BY <1>2, <2>1, <3>2, GoesOn
    <3> QED
      BY <1>1, <2>3, <3>1, <3>2, RecordStays
  <2> QED
    BY <2>2, <2>3
<1>3. ASSUME Returns, working.timestamp = Env.timestamp
      PROVE  Runs'
  BY <1>3, ReturnCommits, EnvFields DEF Returns
<1>4. ASSUME call = [op |-> "initialize"],
             Passed(initialize_code(Env)),
             InitializeStage(Env, pc, working)
      PROVE  Runs' /\ ((UNCHANGED <<vars, book>> /\ outcome' # "Ok") \/ Returns)
  <2>1. CASE InitializeStage(Env, pc + 1, working') /\ Changes(Fields)
    <3>1. Running(Env, call, pc + 1, working')
      BY <1>4, <2>1, EnvFields DEF Running
    <3> QED
      BY <1>2, <2>1, <3>1
  <2>2. CASE return(statement) /\ initialize /\ InitializeStage(Env, 2, working)
    <3>1. Returns
      BY <1>4, <2>2 DEF Returns
    <3>2. working.timestamp = Env.timestamp
      BY <2>2 DEF InitializeStage, Same
    <3> QED
      BY <1>3, <3>1, <3>2
  <2> QED
    BY <1>1, <1>4, <2>1, <2>2, InitializeRuns
<1>5. ASSUME NEW sender \in Accounts, NEW request \in Requests,
             call = [op |-> "create_stream", by |-> sender, request |-> request],
             counter < MaxStreams,
             Passed(create_stream_code(Env, sender, request)),
             CreateStage(Env, create_stream_code(Env, sender, request).statements,
                         pc, working)
      PROVE  Runs' /\ ((UNCHANGED <<vars, book>> /\ outcome' # "Ok") \/ Returns)
  <2>1. CASE /\ CreateStage(Env, create_stream_code(Env, sender, request).statements,
                            pc + 1, working')
             /\ Changes(Fields)
    <3>1. Running(Env, call, pc + 1, working')
      BY <1>5, <2>1, EnvFields DEF Running
    <3> QED
      BY <1>2, <2>1, <3>1
  <2>2. CASE /\ return(statement)
             /\ create_stream(sender, request)
             /\ CreateStage(Env, create_stream_code(Env, sender, request).statements,
                            7, working)
    <3>1. Returns
      BY <1>5, <2>2 DEF Returns
    <3>2. working.timestamp = Env.timestamp
      BY <2>2 DEF CreateStage, Same
    <3> QED
      BY <1>3, <3>1, <3>2
  <2>3. CASE fail("Overflow")
    <3>1. outcome' # "Ok"
      BY <2>3 DEF fail
    <3> QED
      BY <2>3, <3>1, FailKeeps DEF Errors
  <2> QED
    BY <1>1, <1>5, <2>1, <2>2, <2>3, CreateRuns
<1>6. ASSUME NEW sender \in Accounts, NEW requests \in Batches,
             call = [op |-> "create_stream_batch", by |-> sender, requests |-> requests],
             counter + Len(requests) <= MaxStreams,
             Passed(create_stream_batch_code(Env, sender, requests)),
             BatchStage(Env, create_stream_batch_code(Env, sender, requests).statements,
                        Len(requests), pc, working)
      PROVE  Runs' /\ ((UNCHANGED <<vars, book>> /\ outcome' # "Ok") \/ Returns)
  <2>1. CASE /\ BatchStage(Env, create_stream_batch_code(Env, sender, requests).statements,
                           Len(requests), pc + 1, working')
             /\ Changes(Fields)
    <3>1. Running(Env, call, pc + 1, working')
      BY <1>6, <2>1, EnvFields DEF Running
    <3> QED
      BY <1>2, <2>1, <3>1
  <2>2. CASE /\ return(statement)
             /\ create_stream_batch(sender, requests)
             /\ BatchStage(Env, create_stream_batch_code(Env, sender, requests).statements,
                           Len(requests), 2 * Len(requests) + 3, working)
    <3>1. Returns
      BY <1>6, <2>2 DEF Returns
    <3>2. working.timestamp = Env.timestamp
      BY <2>2 DEF BatchStage, Same, Opening, Fields
    <3> QED
      BY <1>3, <3>1, <3>2
  <2> QED
    BY <1>1, <1>6, <2>1, <2>2, BatchRuns, EnvNumbered
<1>7. ASSUME NEW id \in 0..counter, NEW sender \in Accounts, NEW amount \in Amounts,
             call = [op |-> "top_up", by |-> sender, id |-> id, amount |-> amount],
             Passed(top_up_code(Env, id, sender, amount)),
             TopUpStage(Env, top_up_code(Env, id, sender, amount).statements, pc, working)
      PROVE  Runs' /\ ((UNCHANGED <<vars, book>> /\ outcome' # "Ok") \/ Returns)
  <2>1. CASE /\ TopUpStage(Env, top_up_code(Env, id, sender, amount).statements,
                           pc + 1, working')
             /\ Changes(Fields)
    <3>1. Running(Env, call, pc + 1, working')
      BY <1>7, <2>1, EnvFields DEF Running
    <3> QED
      BY <1>2, <2>1, <3>1
  <2>2. CASE /\ return(statement)
             /\ id \in DOMAIN streams
             /\ top_up(id, sender, amount)
             /\ TopUpStage(Env, top_up_code(Env, id, sender, amount).statements, 5, working)
    <3>1. Returns
      BY <1>7, <2>2 DEF Returns
    <3>2. working.timestamp = Env.timestamp
      BY <2>2 DEF TopUpStage, Same
    <3> QED
      BY <1>3, <3>1, <3>2
  <2> QED
    BY <1>1, <1>7, <2>1, <2>2, TopUpRuns
<1>8. ASSUME NEW id \in 0..counter, NEW sender \in Accounts, NEW new_end \in 0..U64MAX,
             call = [op |-> "extend_stream", by |-> sender, id |-> id, new_end |-> new_end],
             Passed(extend_stream_code(Env, id, sender, new_end)),
             ExtendStage(Env, extend_stream_code(Env, id, sender, new_end).statements,
                         pc, working)
      PROVE  Runs' /\ ((UNCHANGED <<vars, book>> /\ outcome' # "Ok") \/ Returns)
  <2>1. CASE /\ ExtendStage(Env, extend_stream_code(Env, id, sender, new_end).statements,
                            pc + 1, working')
             /\ Changes(Fields)
    <3>1. Running(Env, call, pc + 1, working')
      BY <1>8, <2>1, EnvFields DEF Running
    <3> QED
      BY <1>2, <2>1, <3>1
  <2>2. CASE /\ return(statement)
             /\ id \in DOMAIN streams
             /\ extend_stream(id, sender, new_end)
             /\ ExtendStage(Env, extend_stream_code(Env, id, sender, new_end).statements,
                            3, working)
    <3>1. Returns
      BY <1>8, <2>2 DEF Returns
    <3>2. working.timestamp = Env.timestamp
      BY <2>2 DEF ExtendStage, Same
    <3> QED
      BY <1>3, <3>1, <3>2
  <2> QED
    BY <1>1, <1>8, <2>1, <2>2, ExtendRuns
<1>9. ASSUME NEW id \in 0..counter, NEW recipient \in Accounts,
             call = [op |-> "withdraw", by |-> recipient, id |-> id],
             Passed(withdraw_code(Env, id, recipient)),
             WithdrawStage(Env, withdraw_code(Env, id, recipient).statements, pc, working)
      PROVE  Runs' /\ ((UNCHANGED <<vars, book>> /\ outcome' # "Ok") \/ Returns)
  <2>1. CASE /\ WithdrawStage(Env, withdraw_code(Env, id, recipient).statements,
                              pc + 1, working')
             /\ Changes(Fields)
    <3>1. Running(Env, call, pc + 1, working')
      BY <1>9, <2>1, EnvFields DEF Running
    <3> QED
      BY <1>2, <2>1, <3>1
  <2>2. CASE /\ return(statement)
             /\ id \in DOMAIN streams
             /\ withdraw(id, recipient)
             /\ WithdrawStage(Env, withdraw_code(Env, id, recipient).statements, 5, working)
    <3>1. Returns
      BY <1>9, <2>2 DEF Returns
    <3>2. working.timestamp = Env.timestamp
      BY <2>2 DEF WithdrawStage, Same
    <3> QED
      BY <1>3, <3>1, <3>2
  <2> QED
    BY <1>1, <1>9, <2>1, <2>2, WithdrawRuns
<1>10. ASSUME NEW id \in 0..counter, NEW caller \in Accounts,
             call = [op |-> "cancel", by |-> caller, id |-> id],
             Passed(cancel_code(Env, id, caller)),
             CancelStage(Env, cancel_code(Env, id, caller).statements, pc, working)
      PROVE  Runs' /\ ((UNCHANGED <<vars, book>> /\ outcome' # "Ok") \/ Returns)
  <2>1. CASE /\ CancelStage(Env, cancel_code(Env, id, caller).statements, pc + 1, working')
             /\ Changes(Fields)
    <3>1. Running(Env, call, pc + 1, working')
      BY <1>10, <2>1, EnvFields DEF Running
    <3> QED
      BY <1>2, <2>1, <3>1
  <2>2. CASE /\ return(statement)
             /\ id \in DOMAIN streams
             /\ cancel(id, caller)
             /\ CancelStage(Env, cancel_code(Env, id, caller).statements, 6, working)
    <3>1. Returns
      BY <1>10, <2>2 DEF Returns
    <3>2. working.timestamp = Env.timestamp
      BY <2>2 DEF CancelStage, Same
    <3> QED
      BY <1>3, <3>1, <3>2
  <2> QED
    BY <1>1, <1>10, <2>1, <2>2, CancelRuns
<1>11. ASSUME NEW new_cap \in Caps,
             call = [op |-> "set_supply_cap", cap |-> new_cap],
             Passed(set_supply_cap_code(Env, new_cap)),
             SetSupplyCapStage(Env, set_supply_cap_code(Env, new_cap).statements,
                               pc, working)
      PROVE  Runs' /\ ((UNCHANGED <<vars, book>> /\ outcome' # "Ok") \/ Returns)
  <2>1. CASE /\ SetSupplyCapStage(Env, set_supply_cap_code(Env, new_cap).statements,
                                  pc + 1, working')
             /\ Changes(Fields)
    <3>1. Running(Env, call, pc + 1, working')
      BY <1>11, <2>1, EnvFields DEF Running
    <3> QED
      BY <1>2, <2>1, <3>1
  <2>2. CASE /\ return(statement)
             /\ set_supply_cap(new_cap)
             /\ SetSupplyCapStage(Env, set_supply_cap_code(Env, new_cap).statements,
                                  3, working)
    <3>1. Returns
      BY <1>11, <2>2 DEF Returns
    <3>2. working.timestamp = Env.timestamp
      BY <2>2 DEF SetSupplyCapStage, Same
    <3> QED
      BY <1>3, <3>1, <3>2
  <2> QED
    BY <1>1, <1>11, <2>1, <2>2, SetSupplyCapRuns
<1> QED
  BY <1>1, <1>4, <1>5, <1>6, <1>7, <1>8, <1>9, <1>10, <1>11, EnvFields DEF Running

\* A call is refused, or runs from the committed ledger.
LEMMA Invoked ==
  ASSUME Runs, NEW c, invoke(c), first_error(code(Env, c).checks) \in Answers,
         Passed(code(Env, c)) => Running(Env, c, 1, Env)
  PROVE  Runs' /\ UNCHANGED <<vars, book>> /\ outcome' \in Errors \cup {"running"}
<1> DEFINE error == first_error(code(Env, c).checks)
<1>1. /\ Idle /\ call' = c
      /\ outcome' = IF error = "Ok" THEN "running" ELSE error
      /\ pc' = IF error = "Ok" THEN 1 ELSE 0
      /\ UNCHANGED <<ledger, timestamp, working>>
  BY DEF invoke
<1>2. error \in Answers /\ (error = "Ok" => Running(Env, c, 1, Env))
  BY DEF Passed
<1> HIDE DEF error
<1>3. Env' = Env
  BY <1>1, EnvKept DEF ledger
<1>4. working = Env /\ working = [f \in Fields |-> working[f]]
  BY <1>1 DEF Runs
<1>5. CASE error = "Ok"
  <2>1. Running(Env', call', pc', working')
    BY <1>1, <1>2, <1>3, <1>4, <1>5
  <2>2. outcome' = "running" /\ pc' = 1 /\ working' = working
    BY <1>1, <1>5
  <2>3. working' = [f \in Fields |-> working'[f]]
    BY <1>4, <2>2
  <2>4. /\ pc' \in Nat /\ ~Idle'
        /\ outcome' \in Errors \cup {"none", "running", "trap", "Ok",
                                     "Ok, in an earlier ledger"}
        /\ outcome' = "running" <=> ~Idle'
    BY <2>2 DEF Idle
  <2>5. Runs'
    BY <2>1, <2>3, <2>4 DEF Runs
  <2> QED
    BY <1>1, <2>2, <2>5 DEF vars, ledger
<1>6. CASE error # "Ok"
  <2>1. error \in Errors /\ outcome' = error /\ pc' = 0
    BY <1>1, <1>2, <1>6 DEF Answers
  <2> QED
    BY <1>1, <1>3, <1>4, <2>1 DEF Runs, Idle, vars, ledger, Errors
<1> QED
  BY <1>5, <1>6

\* So it is for every entrypoint.
LEMMA EntrypointStep ==
  ASSUME Inv, Runs, Entrypoint
  PROVE  Runs' /\ UNCHANGED <<vars, book>> /\ outcome' \in Errors \cup {"running"}
<1>1. ASSUME invoke([op |-> "initialize"])
      PROVE  Runs' /\ UNCHANGED <<vars, book>> /\ outcome' \in Errors \cup {"running"}
  <2> DEFINE c == [op |-> "initialize"]
  <2>1. code(Env, c) = initialize_code(Env)
    BY DEF code
  <2>2. first_error(code(Env, c).checks) \in Answers
    BY <2>1, InitializeRefused DEF Answers, Errors, Plain
  <2>3. Passed(code(Env, c)) => Running(Env, c, 1, Env)
    BY <1>1, <2>1, InitializeStarts
  <2>4. invoke(c)
    BY <1>1
  <2> HIDE DEF c
  <2> QED
    BY <2>2, <2>3, <2>4, Invoked
<1>2. ASSUME NEW sender \in Accounts, NEW request \in Requests,
             counter < MaxStreams,
             invoke([op |-> "create_stream", by |-> sender, request |-> request])
      PROVE  Runs' /\ UNCHANGED <<vars, book>> /\ outcome' \in Errors \cup {"running"}
  <2> DEFINE c == [op |-> "create_stream", by |-> sender, request |-> request]
  <2>1. code(Env, c) = create_stream_code(Env, sender, request)
    BY DEF code
  <2>2. first_error(code(Env, c).checks) \in Answers
    BY <2>1, CreateRefused DEF Answers, Errors, Plain, CreateTells
  <2>3. Passed(code(Env, c)) => Running(Env, c, 1, Env)
    BY <1>2, <2>1, CreateStarts
  <2>4. invoke(c)
    BY <1>2
  <2> HIDE DEF c
  <2> QED
    BY <2>2, <2>3, <2>4, Invoked
<1>3. ASSUME NEW sender \in Accounts, NEW requests \in Batches,
             counter + Len(requests) <= MaxStreams,
             invoke([op |-> "create_stream_batch", by |-> sender, requests |-> requests])
      PROVE  Runs' /\ UNCHANGED <<vars, book>> /\ outcome' \in Errors \cup {"running"}
  <2> DEFINE c == [op |-> "create_stream_batch", by |-> sender, requests |-> requests]
  <2>1. code(Env, c) = create_stream_batch_code(Env, sender, requests)
    BY DEF code
  <2>2. first_error(code(Env, c).checks) \in Answers
    BY <2>1, BatchRefused, StreamsAssumption DEF Answers, Errors, Plain, Mild
  <2>3. Passed(code(Env, c)) => Running(Env, c, 1, Env)
    BY <1>3, <2>1, BatchStarts
  <2>4. invoke(c)
    BY <1>3
  <2> HIDE DEF c
  <2> QED
    BY <2>2, <2>3, <2>4, Invoked
<1>4. ASSUME NEW id \in Ids, NEW sender \in Accounts, NEW amount \in Amounts,
             invoke([op |-> "top_up", by |-> sender, id |-> id, amount |-> amount])
      PROVE  Runs' /\ UNCHANGED <<vars, book>> /\ outcome' \in Errors \cup {"running"}
  <2> DEFINE c == [op |-> "top_up", by |-> sender, id |-> id, amount |-> amount]
  <2>1. code(Env, c) = top_up_code(Env, id, sender, amount)
    BY DEF code
  <2>2. first_error(code(Env, c).checks) \in Answers
    BY <2>1, TopUpRefused DEF Answers, Errors, Plain, TopUpTells
  <2>3. Passed(code(Env, c)) => Running(Env, c, 1, Env)
    BY <1>4, <2>1, TopUpStarts DEF Ids
  <2>4. invoke(c)
    BY <1>4
  <2> HIDE DEF c
  <2> QED
    BY <2>2, <2>3, <2>4, Invoked
<1>5. ASSUME NEW id \in Ids, NEW sender \in Accounts, NEW new_end \in 0..U64MAX,
             invoke([op |-> "extend_stream", by |-> sender, id |-> id, new_end |-> new_end])
      PROVE  Runs' /\ UNCHANGED <<vars, book>> /\ outcome' \in Errors \cup {"running"}
  <2> DEFINE c == [op |-> "extend_stream", by |-> sender, id |-> id, new_end |-> new_end]
  <2>1. code(Env, c) = extend_stream_code(Env, id, sender, new_end)
    BY DEF code
  <2>2. first_error(code(Env, c).checks) \in Answers
    BY <2>1, ExtendRefused DEF Answers, Errors, Plain, ExtendTells
  <2>3. Passed(code(Env, c)) => Running(Env, c, 1, Env)
    BY <1>5, <2>1, ExtendStarts DEF Ids
  <2>4. invoke(c)
    BY <1>5
  <2> HIDE DEF c
  <2> QED
    BY <2>2, <2>3, <2>4, Invoked
<1>6. ASSUME NEW id \in Ids, NEW recipient \in Accounts,
             invoke([op |-> "withdraw", by |-> recipient, id |-> id])
      PROVE  Runs' /\ UNCHANGED <<vars, book>> /\ outcome' \in Errors \cup {"running"}
  <2> DEFINE c == [op |-> "withdraw", by |-> recipient, id |-> id]
  <2>1. code(Env, c) = withdraw_code(Env, id, recipient)
    BY DEF code
  <2>2. first_error(code(Env, c).checks) \in Answers
    BY <2>1, WithdrawRefused DEF Answers, Errors, Plain, WithdrawTells
  <2>3. Passed(code(Env, c)) => Running(Env, c, 1, Env)
    BY <1>6, <2>1, WithdrawStarts DEF Ids
  <2>4. invoke(c)
    BY <1>6
  <2> HIDE DEF c
  <2> QED
    BY <2>2, <2>3, <2>4, Invoked
<1>7. ASSUME NEW id \in Ids, NEW caller \in Accounts,
             invoke([op |-> "cancel", by |-> caller, id |-> id])
      PROVE  Runs' /\ UNCHANGED <<vars, book>> /\ outcome' \in Errors \cup {"running"}
  <2> DEFINE c == [op |-> "cancel", by |-> caller, id |-> id]
  <2>1. code(Env, c) = cancel_code(Env, id, caller)
    BY DEF code
  <2>2. first_error(code(Env, c).checks) \in Answers
    BY <2>1, CancelRefused DEF Answers, Errors, Plain, CancelTells
  <2>3. Passed(code(Env, c)) => Running(Env, c, 1, Env)
    BY <1>7, <2>1, CancelStarts DEF Ids
  <2>4. invoke(c)
    BY <1>7
  <2> HIDE DEF c
  <2> QED
    BY <2>2, <2>3, <2>4, Invoked
<1>8. ASSUME NEW new_cap \in Caps,
             invoke([op |-> "set_supply_cap", cap |-> new_cap])
      PROVE  Runs' /\ UNCHANGED <<vars, book>> /\ outcome' \in Errors \cup {"running"}
  <2> DEFINE c == [op |-> "set_supply_cap", cap |-> new_cap]
  <2>1. code(Env, c) = set_supply_cap_code(Env, new_cap)
    BY DEF code
  <2>2. first_error(code(Env, c).checks) \in Answers
    BY <2>1, SetSupplyCapRefused DEF Answers, Errors, Plain
  <2>3. Passed(code(Env, c)) => Running(Env, c, 1, Env)
    BY <1>8, <2>1, SetSupplyCapStarts
  <2>4. invoke(c)
    BY <1>8
  <2> HIDE DEF c
  <2> QED
    BY <2>2, <2>3, <2>4, Invoked
<1> QED
  BY <1>1, <1>2, <1>3, <1>4, <1>5, <1>6, <1>7, <1>8 DEF Entrypoint

\* A step leaves the ledger as it was, closes it, or returns from a call.
LEMMA RunsStep ==
  ASSUME Inv, Runs, Booked, [InvocationNext]_invocation_vars
  PROVE  Runs' /\ (\/ UNCHANGED <<vars, book>>
                   \/ close_ledger /\ UNCHANGED book
                   \/ Returns)
<1>1. CASE UNCHANGED invocation_vars
  <2>1. UNCHANGED <<ledger, timestamp, working, pc, call, outcome>>
    BY <1>1 DEF invocation_vars
  <2>2. Env' = Env
    BY <2>1, EnvKept
  <2>3. Runs'
    BY <2>1, <2>2 DEF Runs, Idle
  <2> QED
    BY <2>1, <2>3 DEF vars, ledger
<1>2. CASE Entrypoint
  BY <1>2, EntrypointStep
<1>3. CASE ~Idle /\ execute(statement)
  BY <1>3, ExecuteStep
<1>4. CASE trap
  BY <1>4, FailKeeps DEF trap
<1>5. CASE noted
  <2>1. /\ outcome \in Errors \cup {"trap"} /\ outcome' = "none"
        /\ UNCHANGED <<ledger, timestamp, working, pc>>
    BY <1>5 DEF noted, Failed
  <2>2. Idle
    BY <2>1 DEF Runs, Errors
  <2>3. Env' = Env
    BY <2>1, EnvKept DEF ledger
  <2>4. Runs'
    BY <2>1, <2>2, <2>3 DEF Runs, Idle
  <2> QED
    BY <2>1, <2>4 DEF vars, ledger
<1>6. CASE next_ledger
  <2>1. /\ Idle /\ close_ledger /\ outcome' \in {"Ok, in an earlier ledger", "none"}
        /\ UNCHANGED <<book, pc>> /\ working' = Env'
    BY <1>6 DEF next_ledger
  <2>2. Env' = [f \in Fields |-> Env'[f]]
    BY DEF Env, Fields
  <2>3. Runs'
    BY <2>1, <2>2 DEF Runs, Idle
  <2> QED
    BY <2>1, <2>3
<1> QED
  BY <1>1, <1>2, <1>3, <1>4, <1>5, <1>6 DEF InvocationNext
-----------------------------------------------------------------------------
(* The indexer's book                                                      *)

\* Writing one entry along with the stream it tells, old or new.
LEMMA BookStored ==
  ASSUME Inv, Booked, NEW id \in 0..counter, NEW n \in Nat,
         n = IF id = counter THEN counter + 1 ELSE counter,
         NEW t \in Stream, streams' = write_stream(id, t), counter' = n,
         NEW record, book' = [book EXCEPT !.streams = Put(@, id, record)],
         UNCHANGED <<supply_cap, initialized>>,
         \A i \in DOMAIN streams : i # id => refunded'[i] = refunded[i],
         Tells(record, t, refunded'[id])
  PROVE  Booked'
<1>1. /\ counter \in Nat /\ DOMAIN streams = 0..(counter - 1)
      /\ 0..(counter - 1) \cup {id} = 0..(n - 1)
      /\ \A i \in 0..(n - 1) : i # id => i \in 0..(counter - 1)
  BY StateTypes
<1>2. /\ DOMAIN streams' = 0..(n - 1) /\ streams'[id] = t
      /\ \A i \in 0..(n - 1) : i # id => streams'[i] = streams[i]
  BY WriteStream
<1>3. /\ DOMAIN book = {"streams", "cap"} /\ DOMAIN book.streams = 0..(counter - 1)
      /\ book.cap = supply_cap
      /\ ~initialized => supply_cap = DEFAULT_SUPPLY_CAP
      /\ \A i \in DOMAIN streams : Tells(book.streams[i], streams[i], refunded[i])
  BY DEF Booked
<1>4. /\ DOMAIN book' = {"streams", "cap"} /\ book'.cap = book.cap
      /\ book'.streams = Put(book.streams, id, record)
  BY <1>3
<1>5. /\ book'.streams = [i \in 0..(n - 1) |-> IF i = id THEN record ELSE book.streams[i]]
  BY <1>1, <1>3, <1>4 DEF Put
<1>6. book'.streams = [i \in 0..(n - 1) |-> book'.streams[i]]
  BY <1>5
<1>7. ASSUME NEW i \in 0..(n - 1)
      PROVE  Tells(book'.streams[i], streams'[i], refunded'[i])
  <2>1. CASE i = id
    BY <1>2, <1>5, <2>1
  <2>2. CASE i # id
    <3>1. /\ book'.streams[i] = book.streams[i] /\ streams'[i] = streams[i]
          /\ refunded'[i] = refunded[i] /\ i \in DOMAIN streams
      BY <1>1, <1>2, <1>5, <2>2
    <3> QED
      BY <1>3, <3>1
  <2> QED
    BY <2>1, <2>2
<1>8. book'.cap = supply_cap' /\ (~initialized' => supply_cap' = DEFAULT_SUPPLY_CAP)
  BY <1>3, <1>4
<1> QED
  BY <1>2, <1>4, <1>6, <1>7, <1>8 DEF Booked

\* What the book and the record of one stream hold.
LEMMA BookOf ==
  ASSUME Inv, Booked, NEW id \in DOMAIN streams
  PROVE  /\ Tells(book.streams[id], streams[id], refunded[id])
         /\ id \in 0..counter /\ id # counter /\ counter \in Nat
         /\ streams[id].total \in Nat /\ streams[id].withdrawn \in Nat
         /\ streams[id].withdrawn <= streams[id].total
         /\ refunded[id] \in Nat
<1>1. /\ id \in 0..(counter - 1) /\ counter \in Nat
      /\ streams[id].withdrawn \in 0..streams[id].total
      /\ streams[id].total \in Nat
  BY StoredStream DEF Window
<1>2. refunded[id] \in Nat
  BY <1>1, StateTypes
<1>3. Tells(book.streams[id], streams[id], refunded[id])
  BY DEF Booked
<1> QED
  BY <1>1, <1>2, <1>3

\* The event of each entrypoint tells what it wrote.
LEMMA CreateBooked ==
  ASSUME Inv, Inv', Booked, NEW sender \in Accounts, NEW request \in Requests,
         create_stream(sender, request), commit(working),
         CreateStage(Env, create_stream_code(Env, sender, request).statements, 7, working)
  PROVE  Booked'
<1> DEFINE start == normalize_start_time(timestamp, request.start_time)
           t == NewStream(sender, request, start)
           p == create_stream_code(Env, sender, request).statements
           e == p[6].event
<1>1. /\ counter \in Nat /\ counter + 1 \in Nat /\ counter \in 0..counter
      /\ refunded \in [0..(counter - 1) -> Nat]
      /\ DOMAIN streams = 0..(counter - 1)
  BY StateTypes
<1>2. /\ streams' = write_stream(counter, t) /\ counter' = counter + 1
      /\ UNCHANGED <<supply_cap, initialized>>
      /\ refunded' = Opened(refunded, counter + 1)
  BY DEF create_stream
<1>3. t \in Stream /\ t.total \in Nat \ {0}
  <2>1. counter \in DOMAIN streams' /\ streams'[counter] = t
    BY <1>1, <1>2 DEF write_stream
  <2>2. streams' \in [0..(counter' - 1) -> Stream] /\ DOMAIN streams' = 0..(counter' - 1)
    <3>1. TypeOK'
      BY DEF Inv
    <3> QED
      BY <3>1 DEF TypeOK
  <2>3. t \in Stream
    BY <2>1, <2>2
  <2> QED
    BY <2>3, VestingAssumption DEF Stream
<1>4. e = [topic |-> "created", id |-> counter, sender |-> t.sender,
           recipient |-> t.recipient, total |-> t.total]
  BY EnvFields DEF create_stream_code, stream_created, Publish
<1>5. book' = Learn(book, e)
  BY EnvFields DEF CreateStage, commit
<1> HIDE DEF e
<1>6. book' = [book EXCEPT !.streams = Put(@, counter, NewEntry(e))]
  BY <1>4, <1>5 DEF Learn
<1>7. refunded'[counter] = 0 /\ \A i \in DOMAIN streams : refunded'[i] = refunded[i]
  BY <1>1, <1>2 DEF Opened
<1>8. Tells(NewEntry(e), t, 0)
  <2>1. t.withdrawn = 0 /\ t.status = "Active"
    BY DEF NewStream
  <2> HIDE DEF t
  <2> QED
    BY <1>3, <1>4, <2>1 DEF Tells, NewEntry, EntryFields, StatusInBook
<1> HIDE DEF t
<1> QED
  BY <1>1, <1>2, <1>3, <1>6, <1>7, <1>8, BookStored

LEMMA TopUpBooked ==
  ASSUME Inv, Inv', Booked, NEW id \in DOMAIN streams, NEW sender \in Accounts,
         NEW amount \in Amounts, top_up(id, sender, amount), commit(working),
         TopUpStage(Env, top_up_code(Env, id, sender, amount).statements, 5, working)
  PROVE  Booked'
<1> DEFINE s == streams[id]
           t == [s EXCEPT !.total = s.total + amount]
           p == top_up_code(Env, id, sender, amount).statements
           e == p[4].event
           old == book.streams[id]
           record == [old EXCEPT !.deposited = @ + amount, !.total = s.total + amount]
<1>1. /\ Tells(old, s, refunded[id])
      /\ id \in 0..counter /\ id # counter /\ counter \in Nat
      /\ s.total \in Nat /\ s.withdrawn \in Nat /\ s.withdrawn <= s.total
  BY BookOf
<1>2. /\ streams' = write_stream(id, t) /\ s.status = "Active" /\ amount > 0
      /\ UNCHANGED <<supply_cap, initialized, counter, refunded>>
  <2>1. amount \in Int /\ MIN_STREAM_AMOUNT \in Nat \ {0}
    BY VestingAssumption, StreamsAssumption DEF I128MIN
  <2> QED
    BY <2>1 DEF top_up, is_valid_amount
<1>3. s \in Stream /\ t \in Stream
  <2>1. s \in Stream
    BY StoredStream
  <2>2. streams' \in [0..(counter' - 1) -> Stream] /\ counter' = counter
    <3>1. TypeOK'
      BY DEF Inv
    <3> QED
      BY <1>2, <3>1 DEF TypeOK
  <2>3. streams'[id] = t /\ id \in 0..(counter' - 1)
    BY <1>1, <1>2, <2>2, StateTypes DEF write_stream
  <2> QED
    BY <2>1, <2>2, <2>3
<1>4. e = [topic |-> "toppedup", id |-> id, sender |-> sender, amount |-> amount,
           new_total |-> s.total + amount]
  BY EnvFields DEF top_up_code, stream_topped_up, Publish, read_stream, Found
<1>5. book' = Learn(book, e)
  BY EnvFields DEF TopUpStage, commit
<1> HIDE DEF e
<1>6. book' = [book EXCEPT !.streams = Put(@, id, record)]
  BY <1>4, <1>5 DEF Learn
<1>7. Tells(record, t, refunded[id])
  <2>1. /\ t.total = s.total + amount /\ t.sender = s.sender /\ t.recipient = s.recipient
        /\ t.end = s.end /\ t.withdrawn = s.withdrawn /\ t.status = s.status
    BY <1>3 DEF Stream
  <2>2. amount \in Int
    BY StreamsAssumption DEF I128MIN
  <2> HIDE DEF t, s, old
  <2>3. /\ DOMAIN record = EntryFields
        /\ record.sender = old.sender /\ record.recipient = old.recipient
        /\ record.end = old.end /\ record.taken = old.taken
        /\ record.returned = old.returned /\ record.phase = old.phase
        /\ record.deposited = old.deposited + amount
        /\ record.total = s.total + amount
    BY <1>1 DEF Tells, EntryFields
  <2> HIDE DEF record
  <2>4. StatusInBook(record) = t.status
    BY <1>1, <1>2, <2>1, <2>2, <2>3 DEF Tells, StatusInBook
  <2> QED
    BY <1>1, <2>1, <2>3, <2>4 DEF Tells
<1> HIDE DEF t, record
<1> QED
  BY <1>1, <1>2, <1>3, <1>6, <1>7, BookStored

LEMMA ExtendBooked ==
  ASSUME Inv, Inv', Booked, NEW id \in DOMAIN streams, NEW sender \in Accounts,
         NEW new_end \in 0..U64MAX, extend_stream(id, sender, new_end), commit(working),
         ExtendStage(Env, extend_stream_code(Env, id, sender, new_end).statements, 3,
                     working)
  PROVE  Booked'
<1> DEFINE s == streams[id]
           t == [s EXCEPT !.end = new_end]
           p == extend_stream_code(Env, id, sender, new_end).statements
           e == p[2].event
           old == book.streams[id]
           record == [old EXCEPT !.end = new_end]
<1>1. /\ Tells(old, s, refunded[id])
      /\ id \in 0..counter /\ id # counter /\ counter \in Nat
  BY BookOf
<1>2. /\ streams' = write_stream(id, t)
      /\ UNCHANGED <<supply_cap, initialized, counter, refunded>>
  BY DEF extend_stream
<1>3. s \in Stream /\ t \in Stream
  BY StoredStream DEF Stream
<1>4. e = [topic |-> "extended", id |-> id, sender |-> sender, old_end |-> s.end,
           new_end |-> new_end]
  BY EnvFields DEF extend_stream_code, stream_extended, Publish, read_stream, Found
<1>5. book' = Learn(book, e)
  BY EnvFields DEF ExtendStage, commit
<1> HIDE DEF e
<1>6. book' = [book EXCEPT !.streams = Put(@, id, record)]
  BY <1>4, <1>5 DEF Learn
<1>7. Tells(record, t, refunded[id])
  <2>1. /\ t.total = s.total /\ t.sender = s.sender /\ t.recipient = s.recipient
        /\ t.end = new_end /\ t.withdrawn = s.withdrawn /\ t.status = s.status
    BY <1>3 DEF Stream
  <2> HIDE DEF t, s, old
  <2>2. /\ DOMAIN record = EntryFields
        /\ record.sender = old.sender /\ record.recipient = old.recipient
        /\ record.end = new_end /\ record.taken = old.taken
        /\ record.returned = old.returned /\ record.phase = old.phase
        /\ record.deposited = old.deposited /\ record.total = old.total
    BY <1>1 DEF Tells, EntryFields
  <2> HIDE DEF record
  <2> QED
    BY <1>1, <2>1, <2>2 DEF Tells, StatusInBook
<1> HIDE DEF t, record
<1> QED
  BY <1>1, <1>2, <1>3, <1>6, <1>7, BookStored

LEMMA WithdrawBooked ==
  ASSUME Inv, Inv', Booked, NEW id \in DOMAIN streams, NEW recipient \in Accounts,
         withdraw(id, recipient), commit(working),
         WithdrawStage(Env, withdraw_code(Env, id, recipient).statements, 5, working)
  PROVE  Booked'
<1> DEFINE s == streams[id]
           available == withdrawable(s, timestamp)
           withdrawn == s.withdrawn + available
           t == [s EXCEPT !.withdrawn = withdrawn,
                          !.status = IF completes(s, withdrawn) THEN "Completed" ELSE @]
           p == withdraw_code(Env, id, recipient).statements
           e == p[4].event
           old == book.streams[id]
           record == [old EXCEPT !.taken = @ + available]
<1>1. /\ Tells(old, s, refunded[id])
      /\ id \in 0..counter /\ id # counter /\ counter \in Nat
      /\ s.total \in Nat /\ s.withdrawn \in Nat
  BY BookOf
<1>2. /\ streams' = write_stream(id, t) /\ s.status = "Active"
      /\ UNCHANGED <<supply_cap, initialized, counter, refunded>>
  BY DEF withdraw
<1>3. s \in Stream /\ t \in Stream /\ t.withdrawn <= t.total
  <2>1. s \in Stream
    BY StoredStream
  <2>2. /\ streams' \in [0..(counter' - 1) -> Stream] /\ counter' = counter
        /\ StreamsWellFormed'
    <3>1. TypeOK' /\ StreamsWellFormed'
      BY DEF Inv
    <3> QED
      BY <1>2, <3>1 DEF TypeOK
  <2>3. streams'[id] = t /\ id \in 0..(counter' - 1)
    BY <1>1, <1>2, <2>2, StateTypes DEF write_stream
  <2>4. streams'[id].withdrawn <= streams'[id].total
    BY <2>2, <2>3 DEF StreamsWellFormed
  <2> QED
    BY <2>1, <2>2, <2>3, <2>4
<1>4. e = [topic |-> "withdrawn", id |-> id, recipient |-> recipient, amount |-> available]
  BY EnvFields DEF withdraw_code, stream_withdrawn, Publish, read_stream, Found
<1>5. book' = Learn(book, e)
  BY EnvFields DEF WithdrawStage, commit
<1> HIDE DEF e, available
<1>6. book' = [book EXCEPT !.streams = Put(@, id, record)]
  BY <1>4, <1>5 DEF Learn
<1>7. Tells(record, t, refunded[id])
  <2>1. /\ t.total = s.total /\ t.sender = s.sender /\ t.recipient = s.recipient
        /\ t.end = s.end /\ t.withdrawn = withdrawn
        /\ t.status = IF withdrawn >= s.total THEN "Completed" ELSE "Active"
    BY <1>2, <1>3 DEF Stream, completes
  <2>2. withdrawn \in Int /\ withdrawn <= s.total
    <3>1. t \in Stream /\ t.withdrawn <= t.total
      BY <1>3
    <3> HIDE DEF t, withdrawn
    <3>2. t.withdrawn \in Int
      BY <3>1, VestingAssumption DEF Stream
    <3> QED
      BY <2>1, <3>1, <3>2
  <2> HIDE DEF t, s, old
  <2>3. /\ DOMAIN record = EntryFields
        /\ record.sender = old.sender /\ record.recipient = old.recipient
        /\ record.end = old.end /\ record.taken = old.taken + available
        /\ record.returned = old.returned /\ record.phase = old.phase
        /\ record.deposited = old.deposited /\ record.total = old.total
    BY <1>1 DEF Tells, EntryFields
  <2> HIDE DEF record
  <2>4. old.phase # "cancelled"
    BY <1>1, <1>2 DEF Tells, StatusInBook
  <2>5. record.taken = withdrawn /\ record.total = s.total /\ record.phase # "cancelled"
    BY <1>1, <2>3, <2>4 DEF Tells
  <2> HIDE DEF withdrawn
  <2>6. StatusInBook(record) = t.status
    BY <1>1, <2>1, <2>2, <2>5 DEF StatusInBook
  <2> QED
    BY <1>1, <2>1, <2>3, <2>5, <2>6 DEF Tells
<1> HIDE DEF t, record
<1> QED
  BY <1>1, <1>2, <1>3, <1>6, <1>7, BookStored

LEMMA CancelBooked ==
  ASSUME Inv, Inv', Booked, NEW id \in DOMAIN streams, NEW caller \in Accounts,
         cancel(id, caller), commit(working),
         CancelStage(Env, cancel_code(Env, id, caller).statements, 6, working)
  PROVE  Booked'
<1> DEFINE s == streams[id]
           v == vested(s, timestamp)
           recipient_paid == v - s.withdrawn
           sender_refund == unvested(s, timestamp)
           t == [s EXCEPT !.withdrawn = v, !.status = "Cancelled"]
           p == cancel_code(Env, id, caller).statements
           e == p[5].event
           old == book.streams[id]
           record == [old EXCEPT !.taken = @ + recipient_paid,
                                 !.returned = @ + sender_refund,
                                 !.phase = "cancelled"]
<1>1. /\ Tells(old, s, refunded[id])
      /\ id \in 0..counter /\ id # counter /\ counter \in Nat
      /\ s.total \in Nat /\ s.withdrawn \in Nat /\ refunded[id] \in Nat
  BY BookOf
<1>2. /\ streams' = write_stream(id, t)
      /\ UNCHANGED <<supply_cap, initialized, counter>>
      /\ refunded' = Plus(refunded, id, sender_refund)
  BY DEF cancel
<1>3. /\ refunded'[id] = refunded[id] + sender_refund
      /\ \A i \in DOMAIN streams : i # id => refunded'[i] = refunded[i]
  BY <1>2, StateTypes DEF Plus
<1>4. v \in Nat /\ sender_refund \in Nat
  <2>1. Window(s) /\ timestamp \in Nat
    BY StoredStream
  <2>2. v \in 0..s.total /\ sender_refund \in 0..s.total
    BY <2>1, VestedBounds
  <2> QED
    BY <1>1, <2>2
<1>5. s \in Stream /\ t \in Stream
  <2>1. s \in Stream
    BY StoredStream
  <2>2. streams' \in [0..(counter' - 1) -> Stream] /\ counter' = counter
    <3>1. TypeOK'
      BY DEF Inv
    <3> QED
      BY <1>2, <3>1 DEF TypeOK
  <2>3. streams'[id] = t /\ id \in 0..(counter' - 1)
    BY <1>1, <1>2, <2>2, StateTypes DEF write_stream
  <2> QED
    BY <2>1, <2>2, <2>3
<1>6. e = [topic |-> "cancelled", id |-> id, caller |-> caller,
           sender_refund |-> sender_refund, recipient_paid |-> recipient_paid]
  BY EnvFields DEF cancel_code, stream_cancelled, Publish, read_stream, Found
<1>7. book' = Learn(book, e)
  BY EnvFields DEF CancelStage, commit
<1> HIDE DEF e, v, sender_refund
<1>8. book' = [book EXCEPT !.streams = Put(@, id, record)]
  BY <1>6, <1>7 DEF Learn
<1>9. Tells(record, t, refunded[id] + sender_refund)
  <2>1. /\ t.total = s.total /\ t.sender = s.sender /\ t.recipient = s.recipient
        /\ t.end = s.end /\ t.withdrawn = v /\ t.status = "Cancelled"
    BY <1>5 DEF Stream
  <2> HIDE DEF t, s, old
  <2>2. /\ DOMAIN record = EntryFields
        /\ record.sender = old.sender /\ record.recipient = old.recipient
        /\ record.end = old.end /\ record.taken = old.taken + (v - s.withdrawn)
        /\ record.returned = old.returned + sender_refund
        /\ record.phase = "cancelled"
        /\ record.deposited = old.deposited /\ record.total = old.total
    BY <1>1 DEF Tells, EntryFields
  <2> HIDE DEF record
  <2>3. record.taken = v
    BY <1>1, <1>4, <2>2 DEF Tells
  <2> QED
    BY <1>1, <2>1, <2>2, <2>3 DEF Tells, StatusInBook
<1> HIDE DEF t, record
<1> QED
  BY <1>1, <1>2, <1>3, <1>5, <1>8, <1>9, BookStored

\* A step that leaves the streams alone.
LEMMA BookKept ==
  ASSUME Booked, UNCHANGED <<streams, counter, refunded>>, UNCHANGED <<book, supply_cap>>,
         initialized => initialized'
  PROVE  Booked'
  BY DEF Booked

\* initialize and set_supply_cap touch no stream; the cap is announced.
LEMMA InitializeBooked ==
  ASSUME Inv, Booked, initialize, commit(working), InitializeStage(Env, 2, working)
  PROVE  Booked'
<1>1. /\ ~initialized /\ supply_cap' = DEFAULT_SUPPLY_CAP /\ initialized'
      /\ UNCHANGED <<streams, refunded, counter>>
  BY DEF initialize, Inv, NothingBeforeInitialize
<1>2. UNCHANGED book
  BY EnvFields DEF InitializeStage, Same, commit
<1> QED
  BY <1>1, <1>2 DEF Booked

LEMMA SetSupplyCapBooked ==
  ASSUME Booked, NEW new_cap \in Caps, set_supply_cap(new_cap), commit(working),
         SetSupplyCapStage(Env, set_supply_cap_code(Env, new_cap).statements, 3, working)
  PROVE  Booked'
<1> DEFINE p == set_supply_cap_code(Env, new_cap).statements
           e == p[2].event
<1>1. /\ initialized /\ supply_cap' = new_cap
      /\ UNCHANGED <<initialized, streams, counter, refunded>>
  BY DEF set_supply_cap
<1>2. e = [topic |-> "capadmin", old_cap |-> supply_cap, new_cap |-> new_cap]
  BY EnvFields DEF set_supply_cap_code, supply_cap_updated, Publish
<1>3. book' = Learn(book, e)
  BY EnvFields DEF SetSupplyCapStage, commit
<1> HIDE DEF e
<1>4. book' = [book EXCEPT !.cap = IF @ = e.old_cap THEN e.new_cap ELSE UNKNOWN]
  BY <1>2, <1>3 DEF Learn
<1>5. DOMAIN book = {"streams", "cap"} /\ book.cap = supply_cap
  BY DEF Booked
<1>6. DOMAIN book' = {"streams", "cap"} /\ book'.streams = book.streams /\ book'.cap = new_cap
  BY <1>2, <1>4, <1>5
<1> QED
  BY <1>1, <1>6 DEF Booked

\* A batch announces each stream it opened.
LEMMA BatchBooked ==
  ASSUME Inv, Inv', Booked, NEW sender \in Accounts, NEW requests \in Batches,
         create_stream_batch(sender, requests), commit(working),
         BatchStage(Env, create_stream_batch_code(Env, sender, requests).statements,
                    Len(requests), 2 * Len(requests) + 3, working)
  PROVE  Booked'
<1> DEFINE count == Len(requests)
           s(i) == NewStream(sender, requests[i], requests[i].start_time)
           p == create_stream_batch_code(Env, sender, requests).statements
<1>0. /\ requests \in Seq(StreamRequest) /\ count \in Nat /\ counter \in Nat
      /\ Env.counter = counter
  BY StreamsAssumption, StateTypes, EnvFields
<1>1. /\ streams' = [i \in 0..(counter + count - 1) |->
           IF i < counter THEN streams[i] ELSE s(i - counter + 1)]
      /\ counter' = counter + count
      /\ refunded' = Opened(refunded, counter + count)
      /\ UNCHANGED <<initialized, supply_cap>>
  BY DEF create_stream_batch
<1>2. \A i \in 1..count : p[2 * i + 1] = stream_created(counter + i - 1, s(i))
  <2>1. Env.counter \in Nat
    BY <1>0
  <2> DEFINE sum == aggregate_amount(SubSeq(requests, 1, count))
  <2>2. /\ p[1] = [do |-> "escrow", from |-> sender, amount |-> sum, untracked |-> sum]
        /\ \A i \in 1..count :
             /\ p[2 * i] = StoreStream(Env.counter + i - 1, s(i))
             /\ p[2 * i + 1] = stream_created(Env.counter + i - 1, s(i))
        /\ p[2 * count + 2] = [do |-> "write_counter", next |-> Env.counter + count]
        /\ p[2 * count + 3] = Return
    BY <1>0, <2>1, BatchShape
  <2> HIDE DEF p, s
  <2> QED
    BY <1>0, <2>2
<1> HIDE DEF p, s
<1>3. Opening(Env, p, count, count, working)
  <2>1. BatchStage(Env, p, count, 2 * count + 3, working)
    BY DEF p
  <2>2. /\ 2 * count + 3 # 1
        /\ \A i \in 0..count : 2 * count + 3 # 2 * i + 2
        /\ \A i \in 0..(count - 1) : 2 * count + 3 # 2 * i + 3
    BY <1>0
  <2> HIDE DEF count
  <2> QED
    BY <2>1, <2>2 DEF BatchStage
<1>4. /\ DOMAIN book' = {"streams", "cap"} /\ book'.cap = book.cap
      /\ book'.streams = AnnouncedStreams(Env, p, count)
  BY <1>3, EnvFields DEF Opening, commit
<1>5. /\ book'.streams = [i \in 0..(counter + count - 1) |-> book'.streams[i]]
      /\ \A i \in 0..(counter + count - 1) :
           book'.streams[i] = IF i < counter THEN book.streams[i]
                              ELSE NewEntry(p[2 * (i - counter + 1) + 1].event)
  <2> DEFINE entry(i) == IF i < counter THEN book.streams[i]
                         ELSE NewEntry(p[2 * (i - counter + 1) + 1].event)
  <2>1. book'.streams = [i \in 0..(counter + count - 1) |-> entry(i)]
    BY <1>4, EnvFields DEF AnnouncedStreams
  <2> HIDE DEF entry
  <2>2. /\ book'.streams = [i \in 0..(counter + count - 1) |-> book'.streams[i]]
        /\ \A i \in 0..(counter + count - 1) : book'.streams[i] = entry(i)
    BY <2>1
  <2> QED
    BY <2>2 DEF entry
<1> HIDE DEF count
<1>9. /\ \A i \in 0..(counter + count - 1) :
           streams'[i] = IF i < counter THEN streams[i] ELSE s(i - counter + 1)
      /\ DOMAIN streams' = 0..(counter + count - 1)
  BY <1>1
<1>10. ASSUME NEW i \in 0..(counter + count - 1)
       PROVE  refunded'[i] = IF i \in 0..(counter - 1) THEN refunded[i] ELSE 0
  <2>1. DOMAIN refunded = 0..(counter - 1)
    BY StateTypes
  <2>2. refunded' = Opened(refunded, counter + count)
    BY <1>1
  <2>3. Opened(refunded, counter + count)[i]
          = IF i \in DOMAIN refunded THEN refunded[i] ELSE 0
    <3> DEFINE n == counter + count
    <3>1. i \in 0..(n - 1)
      BY <1>0
    <3> HIDE DEF n
    <3>2. Opened(refunded, n)[i] = IF i \in DOMAIN refunded THEN refunded[i] ELSE 0
      BY <3>1 DEF Opened
    <3> QED
      BY <3>2 DEF n
  <2> QED
    BY <2>1, <2>2, <2>3
<1>6. ASSUME NEW i \in 0..(counter + count - 1)
      PROVE  Tells(book'.streams[i], streams'[i], refunded'[i])
  <2>1. CASE i < counter
    <3>1. i \in 0..(counter - 1) /\ i \in DOMAIN streams /\ DOMAIN refunded = 0..(counter - 1)
      BY <1>0, <2>1, StateTypes
    <3>2. /\ book'.streams[i] = book.streams[i] /\ streams'[i] = streams[i]
          /\ refunded'[i] = refunded[i]
      BY <1>5, <1>9, <1>10, <2>1, <3>1
    <3> QED
      BY <3>1, <3>2, BookOf
  <2>2. CASE ~(i < counter)
    <3> DEFINE k == i - counter + 1
               t == streams'[i]
    <3>1. k \in 1..count /\ counter + k - 1 = i /\ i \notin 0..(counter - 1)
      BY <1>0, <2>2
    <3>2. t = s(k) /\ p[2 * k + 1] = stream_created(i, s(k))
      BY <1>2, <1>9, <2>2, <3>1
    <3>3. refunded'[i] = 0
      BY <1>10, <3>1
    <3>4. t \in Stream
      <4>1. TypeOK' /\ counter' = counter + count
        BY <1>1 DEF Inv
      <4>2. streams' \in [0..(counter' - 1) -> Stream]
        BY <4>1 DEF TypeOK
      <4>3. i \in 0..(counter' - 1)
        BY <1>0, <4>1
      <4> QED
        BY <4>2, <4>3
    <3>5. t.withdrawn = 0 /\ t.status = "Active"
      BY <3>2 DEF s, NewStream
    <3> DEFINE e == p[2 * k + 1].event
    <3>6. e = [topic |-> "created", id |-> i, sender |-> t.sender,
               recipient |-> t.recipient, total |-> t.total]
      BY <3>2 DEF stream_created, Publish
    <3>7. book'.streams[i] = NewEntry(e)
      BY <1>5, <2>2
    <3> HIDE DEF t, e
    <3>8. Tells(NewEntry(e), t, 0)
      <4>1. t.total \in Nat \ {0}
        BY <3>4, VestingAssumption DEF Stream
      <4>2. /\ e.sender = t.sender /\ e.recipient = t.recipient /\ e.total = t.total
        BY <3>6
      <4> QED
        BY <4>1, <4>2, <3>5 DEF Tells, NewEntry, EntryFields, StatusInBook
    <3> QED
      BY <3>3, <3>7, <3>8 DEF t
  <2> QED
    BY <2>1, <2>2
<1>7. DOMAIN streams' = 0..(counter' - 1) /\ counter' - 1 = counter + count - 1
  BY <1>0, <1>1, <1>9
<1>8. book'.cap = supply_cap' /\ (~initialized' => supply_cap' = DEFAULT_SUPPLY_CAP)
  BY <1>1, <1>4 DEF Booked
<1> QED
  BY <1>4, <1>5, <1>6, <1>7, <1>8 DEF Booked

\* So the book is right whatever returned.
LEMMA BookedStep ==
  ASSUME Inv, Inv', Booked, Returns
  PROVE  Booked'
<1>1. commit(working)
  BY DEF Returns, return
<1> QED
  BY <1>1, InitializeBooked, CreateBooked, BatchBooked, TopUpBooked, ExtendBooked,
     WithdrawBooked, CancelBooked, SetSupplyCapBooked DEF Returns

-----------------------------------------------------------------------------
(* Invocations are atomic                                                  *)

\* What returns is an action of module Streams.
LEMMA ReturnsNext == Returns => Next
  BY DEF Returns, Next

\* Every step of the invocations keeps the invariant, and is for the ledger a
\* step of module Streams.
LEMMA IInvStep ==
  IInv /\ [InvocationNext]_invocation_vars => IInv' /\ [Next]_vars
<1> SUFFICES ASSUME Inv, Runs, Booked, [InvocationNext]_invocation_vars
             PROVE  Inv' /\ Runs' /\ Booked' /\ [Next]_vars
  BY DEF IInv
<1>1. /\ Runs'
      /\ UNCHANGED <<vars, book>> \/ (close_ledger /\ UNCHANGED book) \/ Returns
  BY RunsStep
<1>2. [Next]_vars
  BY <1>1, ReturnsNext DEF Next
<1>3. Inv'
  BY <1>2, InvStep
<1>4. CASE UNCHANGED <<vars, book>>
  <2>1. Booked'
    BY <1>4, BookKept DEF vars
  <2> QED
    BY <1>1, <1>2, <1>3, <2>1
<1>5. CASE close_ledger /\ UNCHANGED book
  <2>1. Booked'
    BY <1>5, BookKept DEF close_ledger
  <2> QED
    BY <1>1, <1>2, <1>3, <2>1
<1>6. CASE Returns
  BY <1>1, <1>2, <1>3, <1>6, BookedStep
<1> QED
  BY <1>1, <1>4, <1>5, <1>6

\* The deployed contract.
LEMMA IInvInit == InvocationInit => IInv
<1> SUFFICES ASSUME InvocationInit
             PROVE  IInv
  OBVIOUS
<1>1. Inv
  BY InvInit DEF InvocationInit
<1>2. working = Env /\ pc = 0 /\ outcome = "none"
  BY DEF InvocationInit
<1>3. Runs
  <2>1. working = [f \in Fields |-> working[f]]
    BY <1>2, EnvRecord
  <2>2. Idle /\ pc \in Nat
    BY <1>2 DEF Idle
  <2>3. /\ outcome # "running"
        /\ outcome \in Errors \cup {"none", "running", "trap", "Ok",
                                    "Ok, in an earlier ledger"}
    BY <1>2
  <2>4. outcome = "running" <=> ~Idle
    BY <2>2, <2>3
  <2>5. IF Idle THEN working = Env ELSE Running(Env, call, pc, working)
    BY <1>2, <2>2
  <2> QED
    BY <2>1, <2>2, <2>3, <2>4, <2>5 DEF Runs
<1>4. /\ book = [streams |-> [i \in {} |-> 0], cap |-> DEFAULT_SUPPLY_CAP]
      /\ counter = 0 /\ supply_cap = DEFAULT_SUPPLY_CAP /\ DOMAIN streams = {}
  BY DEF InvocationInit, Init, DEFAULT_SUPPLY_CAP
<1>5. /\ DOMAIN book = {"streams", "cap"} /\ book.cap = DEFAULT_SUPPLY_CAP
      /\ book.streams = [i \in {} |-> 0]
  BY <1>4
<1>6. 0..(counter - 1) = {}
  BY <1>4
<1>7. book.streams = [id \in 0..(counter - 1) |-> book.streams[id]]
  BY <1>5, <1>6
<1>8. Booked
  BY <1>4, <1>5, <1>7 DEF Booked
<1> QED
  BY <1>1, <1>3, <1>8 DEF IInv

\* Whatever calls, statements, traps and ledgers follow each other, IInv holds:
\* a copy is at a stage of its program and the book tells the ledger.
THEOREM InvocationInvariance == InvocationSpec => []IInv
<1>1. IInv /\ [InvocationNext]_invocation_vars => IInv'
  BY IInvStep
<1> QED
  BY <1>1, IInvInit, PTL DEF InvocationSpec

\* Whatever statement an invocation traps at, and although create_stream can
\* return an Err after its transfer: the ledger changes by the steps of module
\* Streams alone, each of them a whole invocation.
THEOREM InvocationsAreAtomic == InvocationSpec => AtomicInvocations
<1>1. IInv /\ [InvocationNext]_invocation_vars => [Next]_vars
  BY IInvStep
<1>2. InvocationInit => Init
  BY DEF InvocationInit
<1> QED
  BY <1>1, <1>2, InvocationInvariance, PTL DEF InvocationSpec, Spec, AtomicInvocations

\* So the escrow of the active streams is accounted for between any two
\* statements of any invocation, and after any trap.
THEOREM LedgerIsAccounted == InvocationSpec => []Accounted
  BY InvocationsAreAtomic, Accounting, PTL DEF AtomicInvocations

\* And so every stream, seen through the token transfers, is an escrow that is
\* settled once, however the statements of the entrypoints succeed or fail.
THEOREM InvocationsImplementEscrow == InvocationSpec => StreamsAreEscrows
  BY InvocationsAreAtomic, StreamsImplementEscrow, PTL DEF AtomicInvocations

\* An indexer that follows the events alone knows every stream and the cap.
THEOREM EventsTell == InvocationSpec => []EventsTellTheLedger
<1>1. IInv => EventsTellTheLedger
  <2> SUFFICES ASSUME Inv, Booked
               PROVE  EventsTellTheLedger
    BY DEF IInv
  <2>1. DOMAIN book.streams = DOMAIN streams /\ book.cap = supply_cap
    BY StateTypes DEF Booked
  <2>2. \A id \in DOMAIN streams : Tells(book.streams[id], streams[id], refunded[id])
    BY DEF Booked
  <2> QED
    BY <2>1, <2>2 DEF EventsTellTheLedger, Tells
<1> QED
  BY <1>1, InvocationInvariance, PTL

-----------------------------------------------------------------------------
(* The types of the running invocation's copy                              *)

CopyTypes(w) ==
  /\ w.balance \in [Addresses -> Nat]
  /\ w.total_supply \in I128MIN..I128MAX
  /\ \A id \in DOMAIN w.streams : w.streams[id] \in Stream
  /\ DOMAIN w.paid = DOMAIN w.streams

\* The committed ledger has the types of a copy.
LEMMA EnvTypes ==
  ASSUME Inv
  PROVE  CopyTypes(Env)
<1>1. /\ balance \in [Addresses -> Nat]
      /\ \A id \in DOMAIN streams : streams[id] \in Stream
      /\ DOMAIN paid = DOMAIN streams
  BY StateTypes
<1>2. total_supply \in I128MIN..I128MAX
  BY DEF Inv, TypeOK
<1> QED
  BY <1>1, <1>2, EnvFields DEF CopyTypes

\* Storing a stream in the copy, or having stored it there already.
LEMMA PutTypes ==
  ASSUME Inv, NEW id, NEW s \in Stream
  PROVE  /\ \A i \in DOMAIN Put(streams, id, s) : Put(streams, id, s)[i] \in Stream
         /\ DOMAIN WithEntry(paid, id) = DOMAIN Put(streams, id, s)
  BY StateTypes DEF Put, WithEntry

\* What is stored along with the history.
LEMMA StoredTypes ==
  ASSUME Inv, NEW id \in DOMAIN streams, NEW s \in Stream
  PROVE  /\ \A i \in DOMAIN Put(streams, id, s) : Put(streams, id, s)[i] \in Stream
         /\ DOMAIN paid = DOMAIN Put(streams, id, s)
  BY PutTypes, StoredHistory

\* A payout leaves the set of streams alone.
LEMMA PlusDomain ==
  ASSUME NEW history, NEW id, NEW amount
  PROVE  DOMAIN Plus(history, id, amount) = DOMAIN history
  BY DEF Plus

\* checked_sub(..).unwrap_or(0) stays an i128.
LEMMA ReducedType ==
  ASSUME NEW supply \in I128MIN..I128MAX, NEW amount \in Nat
  PROVE  reduced(supply, amount) \in I128MIN..I128MAX
  BY VestingAssumption DEF reduced, I128MIN

\* An escrow the token contract accepts, of an amount that passed the checks.
LEMMA EscrowPulled ==
  ASSUME Inv, NEW sender \in Accounts, NEW amount \in Nat \ {0},
         amount > 0 => CanPay(balance, sender, amount)
  PROVE  Transfer(balance, sender, Contract, amount) \in [Addresses -> Nat]
<1>1. /\ sender \in Addresses /\ Contract \in Addresses /\ amount > 0
      /\ balance \in [Addresses -> Nat]
  BY StateTypes DEF Addresses
<1> QED
  BY <1>1, TransferType

\* Each stage has them.
LEMMA CreateTypes ==
  ASSUME Inv, NEW sender \in Accounts, NEW request \in Requests, NEW n, NEW w,
         Passed(create_stream_code(Env, sender, request)),
         CreateStage(Env, create_stream_code(Env, sender, request).statements, n, w)
  PROVE  CopyTypes(w)
<1> DEFINE start == normalize_start_time(timestamp, request.start_time)
           amount == request.total_amount
           s == NewStream(sender, request, start)
           p == create_stream_code(Env, sender, request).statements
<1>1. /\ timestamp \in 0..U64MAX /\ total_supply \in I128MIN..I128MAX
      /\ request \in StreamRequest /\ start \in 0..U64MAX
      /\ amount \in Int /\ amount <= I128MAX
  BY StreamsAssumption DEF Inv, TypeOK, normalize_start_time, StreamRequest, I128MIN
<1>2. valid_request(request, start) /\ total_supply + amount <= I128MAX /\ amount > 0
  <2>1. MIN_STREAM_AMOUNT \in Nat \ {0}
    BY VestingAssumption
  <2> QED
    BY <1>1, <2>1, CreatePassed, EnvFields DEF valid_request
<1>3. s \in Stream
  BY <1>1, <1>2, NewStreamType
<1>4. /\ p[1].from = sender /\ p[1].amount = amount
      /\ p[3].id = counter /\ p[3].stream = s
      /\ p[5].supply = total_supply + amount
  BY EnvFields DEF create_stream_code, StoreStream
<1>5. /\ \/ w.balance = balance
         \/ /\ w.balance = Transfer(balance, sender, Contract, amount)
            /\ amount > 0 => CanPay(balance, sender, amount)
      /\ \/ w.streams = streams /\ w.paid = paid
         \/ w.streams = Put(streams, counter, s) /\ w.paid = WithEntry(paid, counter)
      /\ w.total_supply \in {total_supply, total_supply + amount}
  <2> HIDE DEF s, amount
  <2>1. CreateStage(Env, p, n, w)
    BY DEF p
  <2> HIDE DEF p
  <2>2. /\ \/ w.balance = Env.balance
           \/ /\ w.balance = Transfer(Env.balance, p[1].from, Contract, p[1].amount)
              /\ p[1].amount > 0 => CanPay(Env.balance, p[1].from, p[1].amount)
    BY <2>1, Zenon DEF CreateStage
  <2>3. w.total_supply \in {Env.total_supply, p[5].supply}
    BY <2>1 DEF CreateStage
  <2>4. \/ w.streams = Env.streams /\ w.paid = Env.paid
        \/ /\ w.streams = Put(Env.streams, p[3].id, p[3].stream)
           /\ w.paid = WithEntry(Env.paid, p[3].id)
    BY <2>1 DEF CreateStage, Same
  <2> QED
    BY <1>4, <2>2, <2>3, <2>4, EnvFields
<1> HIDE DEF s, amount
<1>6. w.balance \in [Addresses -> Nat]
  BY <1>1, <1>2, <1>5, EscrowPulled, StateTypes
<1>7. /\ \A id \in DOMAIN w.streams : w.streams[id] \in Stream
      /\ DOMAIN w.paid = DOMAIN w.streams
  BY <1>3, <1>5, PutTypes, StateTypes
<1>8. w.total_supply \in I128MIN..I128MAX
  BY <1>1, <1>2, <1>5, VestingAssumption DEF I128MIN
<1> QED
  BY <1>6, <1>7, <1>8 DEF CopyTypes

LEMMA TopUpTypes ==
  ASSUME Inv, NEW id, NEW sender \in Accounts, NEW amount \in Amounts, NEW n, NEW w,
         Passed(top_up_code(Env, id, sender, amount)),
         TopUpStage(Env, top_up_code(Env, id, sender, amount).statements, n, w)
  PROVE  CopyTypes(w)
<1> DEFINE s == streams[id]
           t == [s EXCEPT !.total = s.total + amount]
           p == top_up_code(Env, id, sender, amount).statements
<1>1. id \in DOMAIN streams /\ read_stream(Env, id) = s
  BY TopUpPassed, FoundStream
<1>2. /\ is_valid_amount(amount) /\ s.total + amount <= I128MAX
      /\ total_supply + amount <= I128MAX
  BY <1>1, TopUpPassed, EnvFields
<1>3. amount \in Nat \ {0} /\ total_supply \in I128MIN..I128MAX
  BY <1>2, VestingAssumption, StreamsAssumption DEF is_valid_amount, I128MIN, Inv, TypeOK
<1>4. t \in Stream
  <2>1. s \in Stream
    BY <1>1, StoredStream
  <2> QED
    BY <1>2, <1>3, <2>1, VestingAssumption DEF Stream
<1>5. /\ p[1].from = sender /\ p[1].amount = amount
      /\ p[2].id = id /\ p[2].stream = t
      /\ p[3].supply = total_supply + amount
  BY <1>1, EnvFields DEF top_up_code, StoreStream
<1> HIDE DEF t, s
<1>6. /\ \/ w.balance = balance
         \/ /\ w.balance = Transfer(balance, sender, Contract, amount)
            /\ amount > 0 => CanPay(balance, sender, amount)
      /\ w.streams \in {streams, Put(streams, id, t)} /\ w.paid = paid
      /\ w.total_supply \in {total_supply, total_supply + amount}
  <2>1. TopUpStage(Env, p, n, w)
    BY DEF p
  <2> HIDE DEF p
  <2>2. /\ \/ w.balance = Env.balance
           \/ /\ w.balance = Transfer(Env.balance, p[1].from, Contract, p[1].amount)
              /\ p[1].amount > 0 => CanPay(Env.balance, p[1].from, p[1].amount)
        /\ w.streams \in {Env.streams, Put(Env.streams, p[2].id, p[2].stream)}
        /\ w.paid = Env.paid
        /\ w.total_supply \in {Env.total_supply, p[3].supply}
    BY <2>1 DEF TopUpStage, Same
  <2> QED
    BY <1>5, <2>2, EnvFields
<1>7. w.balance \in [Addresses -> Nat]
  BY <1>3, <1>6, EscrowPulled, StateTypes
<1>8. /\ \A i \in DOMAIN w.streams : w.streams[i] \in Stream
      /\ DOMAIN w.paid = DOMAIN w.streams
  BY <1>1, <1>4, <1>6, StoredTypes, StateTypes
<1>9. w.total_supply \in I128MIN..I128MAX
  BY <1>2, <1>3, <1>6, VestingAssumption DEF I128MIN
<1> QED
  BY <1>7, <1>8, <1>9 DEF CopyTypes

LEMMA ExtendTypes ==
  ASSUME Inv, NEW id, NEW sender \in Accounts, NEW new_end \in 0..U64MAX, NEW n, NEW w,
         Passed(extend_stream_code(Env, id, sender, new_end)),
         ExtendStage(Env, extend_stream_code(Env, id, sender, new_end).statements, n, w)
  PROVE  CopyTypes(w)
<1> DEFINE s == streams[id]
           t == [s EXCEPT !.end = new_end]
           p == extend_stream_code(Env, id, sender, new_end).statements
<1>1. id \in DOMAIN streams /\ read_stream(Env, id) = s
  BY ExtendPassed, FoundStream
<1>2. t \in Stream
  BY <1>1, StoredStream DEF Stream
<1>3. p[1].id = id /\ p[1].stream = t
  BY <1>1, EnvFields DEF extend_stream_code, StoreStream
<1> HIDE DEF t, s
<1>4. /\ w.balance = balance /\ w.paid = paid /\ w.total_supply = total_supply
      /\ w.streams \in {streams, Put(streams, id, t)}
  <2>1. ExtendStage(Env, p, n, w)
    BY DEF p
  <2> HIDE DEF p
  <2>2. /\ w.balance = Env.balance /\ w.paid = Env.paid
        /\ w.total_supply = Env.total_supply
        /\ w.streams \in {Env.streams, Put(Env.streams, p[1].id, p[1].stream)}
    BY <2>1 DEF ExtendStage, Same
  <2> QED
    BY <1>3, <2>2, EnvFields
<1>5. /\ \A i \in DOMAIN w.streams : w.streams[i] \in Stream
      /\ DOMAIN w.paid = DOMAIN w.streams
  BY <1>1, <1>2, <1>4, StoredTypes, StateTypes
<1> QED
  BY <1>4, <1>5, EnvTypes, EnvFields DEF CopyTypes

LEMMA WithdrawTypes ==
  ASSUME Inv, NEW id, NEW recipient \in Accounts, NEW n, NEW w,
         Passed(withdraw_code(Env, id, recipient)),
         WithdrawStage(Env, withdraw_code(Env, id, recipient).statements, n, w)
  PROVE  CopyTypes(w)
<1> DEFINE s == streams[id]
           available == withdrawable(s, timestamp)
           withdrawn == s.withdrawn + available
           t == [s EXCEPT !.withdrawn = withdrawn,
                          !.status = IF completes(s, withdrawn) THEN "Completed" ELSE @]
           p == withdraw_code(Env, id, recipient).statements
<1>1. id \in DOMAIN streams /\ read_stream(Env, id) = s
  BY WithdrawPassed, FoundStream
<1>2. /\ s \in Stream /\ Window(s) /\ timestamp \in Nat
      /\ s.withdrawn \in 0..s.total /\ s.total \in 1..I128MAX /\ I128MAX \in Nat
  BY <1>1, StoredStream
<1>3. available \in 0..(s.total - s.withdrawn)
  BY <1>2, WithdrawableBounds
<1>4. /\ p[1].id = id /\ p[1].stream = t
      /\ p[2].id = id /\ p[2].to = recipient /\ p[2].amount = available
      /\ p[3].amount = available
  BY <1>1, EnvFields DEF withdraw_code, StoreStream
<1> HIDE DEF s, available
<1>5. available \in Nat /\ withdrawn \in 0..I128MAX
  BY <1>2, <1>3
<1>6. t \in Stream
  BY <1>2, <1>5 DEF Stream, Status
<1> HIDE DEF t, withdrawn
<1>7. /\ \/ w.balance = balance /\ w.paid = paid
         \/ /\ w.balance = PayOut(balance, recipient, available)
            /\ w.paid = Plus(paid, id, Transferred(available))
            /\ CanPayOut(balance, available)
      /\ w.streams \in {streams, Put(streams, id, t)}
      /\ w.total_supply \in {total_supply, reduced(total_supply, available)}
  <2>1. WithdrawStage(Env, p, n, w)
    BY DEF p
  <2> HIDE DEF p
  <2>2. /\ \/ w.balance = Env.balance /\ w.paid = Env.paid
           \/ /\ w.balance = PayOut(Env.balance, p[2].to, p[2].amount)
              /\ w.paid = Plus(Env.paid, p[2].id, Transferred(p[2].amount))
              /\ CanPayOut(Env.balance, p[2].amount)
        /\ w.streams \in {Env.streams, Put(Env.streams, p[1].id, p[1].stream)}
        /\ w.total_supply \in {Env.total_supply, reduced(Env.total_supply, p[3].amount)}
    BY <2>1 DEF WithdrawStage, Same
  <2> QED
    BY <1>4, <2>2, EnvFields
<1>8. w.balance \in [Addresses -> Nat]
  <2>1. recipient \in Addresses /\ available \in Int
    BY <1>5 DEF Addresses
  <2> QED
    BY <1>7, <2>1, PayOutType, StateTypes
<1>9. /\ \A i \in DOMAIN w.streams : w.streams[i] \in Stream
      /\ DOMAIN w.paid = DOMAIN w.streams
  <2>1. DOMAIN w.paid = DOMAIN paid
    BY <1>7, PlusDomain
  <2> QED
    BY <1>1, <1>6, <1>7, <2>1, StoredTypes, StateTypes
<1>10. w.total_supply \in I128MIN..I128MAX
  <2>1. total_supply \in I128MIN..I128MAX
    BY DEF Inv, TypeOK
  <2> QED
    BY <1>5, <1>7, <2>1, ReducedType
<1> QED
  BY <1>8, <1>9, <1>10 DEF CopyTypes

LEMMA CancelTypes ==
  ASSUME Inv, NEW id, NEW caller \in Accounts, NEW n, NEW w,
         Passed(cancel_code(Env, id, caller)),
         CancelStage(Env, cancel_code(Env, id, caller).statements, n, w)
  PROVE  CopyTypes(w)
<1> DEFINE s == streams[id]
           v == vested(s, timestamp)
           recipient_paid == v - s.withdrawn
           sender_refund == unvested(s, timestamp)
           t == [s EXCEPT !.withdrawn = v, !.status = "Cancelled"]
           p == cancel_code(Env, id, caller).statements
<1>1. id \in DOMAIN streams /\ read_stream(Env, id) = s
  BY CancelPassed, FoundStream
<1>2. /\ s \in Stream /\ Window(s) /\ timestamp \in Nat
      /\ s.withdrawn \in 0..s.total /\ s.total \in 1..I128MAX /\ I128MAX \in Nat
  BY <1>1, StoredStream
<1>3. v \in 0..s.total /\ sender_refund \in 0..s.total /\ v + sender_refund = s.total
  BY <1>2, VestedBounds
<1>4. /\ p[1].id = id /\ p[1].stream = t
      /\ p[2].id = id /\ p[2].to = s.recipient /\ p[2].amount = recipient_paid
      /\ p[3].id = id /\ p[3].to = s.sender /\ p[3].amount = sender_refund
      /\ p[4].amount = recipient_paid + sender_refund
  BY <1>1, EnvFields DEF cancel_code, StoreStream
<1> HIDE DEF s, v, sender_refund
<1>5. /\ recipient_paid \in Int /\ sender_refund \in Int
      /\ recipient_paid + sender_refund \in Nat /\ v \in 0..I128MAX
  BY <1>2, <1>3
<1>6. t \in Stream /\ s.recipient \in Addresses /\ s.sender \in Addresses
  BY <1>2, <1>5 DEF Stream, Status, Addresses
<1> HIDE DEF t, recipient_paid
<1> DEFINE after == PayOut(balance, s.recipient, recipient_paid)
<1>7. /\ \/ w.balance = balance
         \/ w.balance = after /\ CanPayOut(balance, recipient_paid)
         \/ /\ w.balance = PayOut(after, s.sender, sender_refund)
            /\ CanPayOut(balance, recipient_paid)
            /\ CanPayOut(after, sender_refund)
      /\ w.paid = paid \/ w.paid = Plus(paid, id, Transferred(recipient_paid))
      /\ w.streams \in {streams, Put(streams, id, t)}
      /\ w.total_supply \in
           {total_supply, reduced(total_supply, recipient_paid + sender_refund)}
  <2>1. CancelStage(Env, p, n, w) /\ n \in 1..6
    BY DEF p, CancelStage
  <2>2. /\ n > 3 => n > 2
        /\ p[2].to = s.recipient /\ p[2].amount = recipient_paid
    BY <1>4, <2>1
  <2> HIDE DEF p
  <2>3. \/ w.balance = Env.balance
        \/ /\ w.balance = PayOut(Env.balance, p[2].to, p[2].amount)
           /\ CanPayOut(Env.balance, p[2].amount)
        \/ /\ w.balance = PayOut(PayOut(Env.balance, p[2].to, p[2].amount),
                                 p[3].to, p[3].amount)
           /\ CanPayOut(Env.balance, p[2].amount)
           /\ CanPayOut(PayOut(Env.balance, p[2].to, p[2].amount), p[3].amount)
    BY <2>1, <2>2 DEF CancelStage
  <2>4. /\ \/ w.paid = Env.paid
           \/ w.paid = Plus(Env.paid, p[2].id, Transferred(p[2].amount))
        /\ w.streams \in {Env.streams, Put(Env.streams, p[1].id, p[1].stream)}
        /\ w.total_supply \in {Env.total_supply, reduced(Env.total_supply, p[4].amount)}
    BY <2>1 DEF CancelStage
  <2>5. \/ w.balance = balance
        \/ w.balance = after /\ CanPayOut(balance, recipient_paid)
        \/ /\ w.balance = PayOut(after, s.sender, sender_refund)
           /\ CanPayOut(balance, recipient_paid)
           /\ CanPayOut(after, sender_refund)
    BY <1>4, <2>3, EnvFields
  <2> QED
    BY <1>4, <2>4, <2>5, EnvFields
<1>8. w.balance \in [Addresses -> Nat]
  <2>1. balance \in [Addresses -> Nat]
    BY StateTypes
  <2>2. CanPayOut(balance, recipient_paid) => after \in [Addresses -> Nat]
    BY <1>5, <1>6, <2>1, PayOutType
  <2> HIDE DEF after
  <2> QED
    BY <1>5, <1>6, <1>7, <2>1, <2>2, PayOutType
<1>9. /\ \A i \in DOMAIN w.streams : w.streams[i] \in Stream
      /\ DOMAIN w.paid = DOMAIN w.streams
  <2>1. DOMAIN w.paid = DOMAIN paid
    BY <1>7, PlusDomain
  <2> QED
    BY <1>1, <1>6, <1>7, <2>1, StoredTypes, StateTypes
<1>10. w.total_supply \in I128MIN..I128MAX
  <2>1. total_supply \in I128MIN..I128MAX
    BY DEF Inv, TypeOK
  <2> QED
    BY <1>5, <1>7, <2>1, ReducedType
<1> QED
  BY <1>8, <1>9, <1>10 DEF CopyTypes

LEMMA BatchTypes ==
  ASSUME Inv, NEW sender \in Accounts, NEW requests \in Batches, NEW n, NEW w,
         Passed(create_stream_batch_code(Env, sender, requests)),
         BatchStage(Env, create_stream_batch_code(Env, sender, requests).statements,
                    Len(requests), n, w)
  PROVE  CopyTypes(w)
<1> DEFINE count == Len(requests)
           total == aggregate_amount(requests)
           s(i) == NewStream(sender, requests[i], requests[i].start_time)
           p == create_stream_batch_code(Env, sender, requests).statements
<1>0. /\ requests \in Seq(StreamRequest) /\ count \in Nat /\ counter \in Nat
      /\ \A i \in 1..count : requests[i] \in StreamRequest
      /\ Env.counter \in Nat
  BY StreamsAssumption, StateTypes, EnvFields
<1>1. /\ count > 0
      /\ \A i \in 1..count : valid_request(requests[i], requests[i].start_time)
      /\ total <= I128MAX
  BY <1>0, BatchPassed, EnvFields DEF valid_request
<1>2. /\ total \in Nat \ {0}
      /\ \A i \in 1..count : requests[i].total_amount \in 1..total
  <2>1. /\ total \in Nat
        /\ \A i \in 1..count : requests[i].total_amount \in 1..total
        /\ 1 \in 1..count
    BY <1>0, <1>1, Aggregate
  <2> HIDE DEF total
  <2> QED
    BY <2>1
<1>3. ASSUME NEW i \in 1..count
      PROVE  s(i) \in Stream
  <2>1. /\ requests[i] \in StreamRequest
        /\ valid_request(requests[i], requests[i].start_time)
        /\ requests[i].total_amount \in 1..total
    BY <1>0, <1>1, <1>2
  <2>2. timestamp \in 0..U64MAX
    BY DEF Inv, TypeOK
  <2> DEFINE request == requests[i]
  <2> HIDE DEF total, request
  <2>3. request.total_amount <= I128MAX /\ request.start_time \in 0..U64MAX
    BY <1>1, <1>2, <2>1, VestingAssumption DEF StreamRequest, request
  <2>4. NewStream(sender, request, request.start_time) \in Stream
    BY <2>1, <2>2, <2>3, NewStreamType DEF request
  <2> QED
    BY <2>4 DEF request
<1>4. /\ p[1].from = sender /\ p[1].amount = total
      /\ \A i \in 1..count : p[2 * i].stream = s(i)
  <2>1. SubSeq(requests, 1, count) = requests
    BY <1>0
  <2> DEFINE sum == aggregate_amount(SubSeq(requests, 1, count))
  <2>2. /\ p[1] = [do |-> "escrow", from |-> sender, amount |-> sum, untracked |-> sum]
        /\ \A i \in 1..count : p[2 * i] = StoreStream(Env.counter + i - 1, s(i))
        /\ p[2 * count + 2] = [do |-> "write_counter", next |-> Env.counter + count]
    BY <1>0, BatchShape
  <2>3. sum = total
    BY <2>1
  <2> HIDE DEF p, s, count, total, sum
  <2>4. ASSUME NEW i \in 1..count
        PROVE  p[2 * i].stream = s(i)
    <3>1. p[2 * i] = StoreStream(Env.counter + i - 1, s(i))
      BY <2>2
    <3> QED
      BY <3>1 DEF StoreStream
  <2> QED
    BY <2>2, <2>3, <2>4
<1>5. \/ Same(Env, w, Fields)
      \/ \E i \in 0..count, j \in 0..count : Opening(Env, p, i, j, w)
  <2>1. BatchStage(Env, p, count, n, w)
    BY DEF p
  <2> HIDE DEF p, count
  <2>2. CASE n = 1 /\ Same(Env, w, Fields)
    BY <2>2
  <2>3. CASE \E i \in 0..count : Opening(Env, p, i, i, w)
    BY <2>3
  <2>4. CASE \E i \in 0..(count - 1) : Opening(Env, p, i + 1, i, w)
    <3>1. PICK i \in 0..(count - 1) : Opening(Env, p, i + 1, i, w)
      BY <2>4
    <3>2. i + 1 \in 0..count /\ i \in 0..count
      BY <1>0
    <3> QED
      BY <3>1, <3>2
  <2>5. CASE Opening(Env, p, count, count, w)
    BY <1>0, <2>5
  <2> QED
    BY <2>1, <2>2, <2>3, <2>4, <2>5 DEF BatchStage
<1> HIDE DEF p, s, total, count
<1>6. CASE Same(Env, w, Fields)
  BY <1>6, EnvTypes DEF Same, Fields, CopyTypes
<1>7. ASSUME NEW i \in 0..count, NEW j \in 0..count, Opening(Env, p, i, j, w)
      PROVE  CopyTypes(w)
  <2>1. /\ w.total_supply = total_supply
        /\ w.balance = Transfer(balance, sender, Contract, total)
        /\ total > 0 => CanPay(balance, sender, total)
        /\ w.streams = OpenedStreams(Env, p, i)
        /\ w.paid = Opened(paid, counter + i)
    <3>1. /\ w.total_supply = Env.total_supply
          /\ w.balance = Transfer(Env.balance, p[1].from, Contract, p[1].amount)
          /\ p[1].amount > 0 => CanPay(Env.balance, p[1].from, p[1].amount)
          /\ w.streams = OpenedStreams(Env, p, i)
          /\ w.paid = Opened(Env.paid, Env.counter + i)
      BY <1>7 DEF Opening, Same
    <3> QED
      BY <1>4, <3>1, EnvFields
  <2>2. w.balance \in [Addresses -> Nat]
    BY <1>2, <2>1, EscrowPulled
  <2>3. w.total_supply \in I128MIN..I128MAX
    BY <2>1 DEF Inv, TypeOK
  <2>4. i \in Nat /\ i <= count /\ 0..((counter + i) - 1) = 0..(counter + i - 1)
    BY <1>0
  <2>5. w.streams = [k \in 0..(counter + i - 1) |->
                       IF k < counter THEN streams[k] ELSE p[2 * (k - counter + 1)].stream]
    BY <2>1, EnvFields DEF OpenedStreams
  <2>6. ASSUME NEW k \in 0..(counter + i - 1)
        PROVE  w.streams[k] \in Stream
    <3>1. CASE k < counter
      <4>1. k \in 0..(counter - 1)
        BY <1>0, <3>1
      <4> QED
        BY <2>5, <3>1, <4>1, StateTypes
    <3>2. CASE ~(k < counter)
      <4>1. k - counter + 1 \in 1..count
        BY <1>0, <2>4, <3>2
      <4>2. w.streams[k] = s(k - counter + 1)
        BY <1>4, <2>5, <3>2, <4>1
      <4> QED
        BY <1>3, <4>1, <4>2
    <3> QED
      BY <3>1, <3>2
  <2>7. DOMAIN w.streams = 0..(counter + i - 1)
    BY <2>5
  <2>8. DOMAIN w.paid = 0..((counter + i) - 1)
    BY <2>1 DEF Opened
  <2> QED
    BY <2>2, <2>3, <2>4, <2>6, <2>7, <2>8 DEF CopyTypes
<1> QED
  BY <1>5, <1>6, <1>7

LEMMA InitializeTypes ==
  ASSUME Inv, NEW n, NEW w, InitializeStage(Env, n, w)
  PROVE  CopyTypes(w)
<1>1. /\ w.balance = Env.balance /\ w.streams = Env.streams /\ w.paid = Env.paid
      /\ w.total_supply \in {Env.total_supply, 0}
  BY DEF InitializeStage, Same
<1>2. 0 \in I128MIN..I128MAX
  BY VestingAssumption DEF I128MIN
<1> QED
  BY <1>1, <1>2, EnvTypes DEF CopyTypes

LEMMA SetSupplyCapTypes ==
  ASSUME Inv, NEW p, NEW n, NEW w, SetSupplyCapStage(Env, p, n, w)
  PROVE  CopyTypes(w)
<1>1. /\ w.balance = Env.balance /\ w.streams = Env.streams /\ w.paid = Env.paid
      /\ w.total_supply = Env.total_supply
  BY DEF SetSupplyCapStage, Same
<1> QED
  BY <1>1, EnvTypes DEF CopyTypes

\* Between any two statements of any call, the copy has the ledger's types.
LEMMA RunningTypes ==
  ASSUME Inv, Runs
  PROVE  CopyTypes(working)
<1>1. CASE Idle
  BY <1>1, EnvTypes DEF Runs
<1>2. CASE ~Idle
  <2>1. Running(Env, call, pc, working)
    BY <1>2 DEF Runs
  <2> QED
    BY <2>1, CreateTypes, BatchTypes, TopUpTypes, ExtendTypes, WithdrawTypes,
       CancelTypes, InitializeTypes, SetSupplyCapTypes DEF Running
<1> QED
  BY <1>1, <1>2

\* No statement of any call leaves a value in the copy that its type cannot
\* hold, and no call that is over leaves anything behind.
THEOREM InvocationTypesCorrect == InvocationSpec => []InvocationTypeOK
<1>1. IInv => InvocationTypeOK
  <2> SUFFICES ASSUME Inv, Runs
               PROVE  InvocationTypeOK
    BY DEF IInv
  <2>1. TypeOK
    BY DEF Inv
  <2>2. CopyTypes(working)
    BY RunningTypes
  <2> QED
    BY <2>1, <2>2 DEF InvocationTypeOK, Runs, CopyTypes
<1> QED
  BY <1>1, InvocationInvariance, PTL

-----------------------------------------------------------------------------
(* Refusals                                                                *)

\* These claim nothing of the tokens.
LEMMA PlainIsJustified ==
  ASSUME NEW c, NEW error \in Plain
  PROVE  Justified(c, error)
  BY DEF Plain, Justified

\* Nor does the overflow of a sum.
LEMMA OverflowElsewhere ==
  ASSUME NEW c, c.op \notin {"withdraw", "cancel"}
  PROVE  Justified(c, "Overflow")
  BY DEF Justified

\* An id with no stream has not been given out.
LEMMA NotFound ==
  ASSUME Inv, NEW id \in Ids, ~Found(Env, id)
  PROVE  id >= counter
  BY StateTypes, EnvFields DEF Found, Ids

\* The cap refuses what the escrow, or more than it, leaves no room for.
LEMMA CapJustified ==
  ASSUME Inv, Accounted, NEW amount \in Int,
         ~(Env.total_supply + amount <= Env.supply_cap)
  PROVE  Escrow + amount > supply_cap
<1>1. total_supply <= Escrow /\ Escrow \in Int
  BY SumsType DEF Accounted, SupplyWithinEscrow
<1>2. total_supply \in Int /\ supply_cap \in Int
  BY StreamsAssumption DEF Inv, TypeOK
<1>3. ~(total_supply + amount <= supply_cap)
  BY EnvFields
<1> QED
  BY <1>1, <1>2, <1>3

\* The answers of each entrypoint that claims something.
LEMMA WithdrawJustified ==
  ASSUME Inv, NEW id \in Ids, NEW recipient, NEW error \in Errors,
         error = first_error(withdraw_code(Env, id, recipient).checks)
  PROVE  Justified([op |-> "withdraw", by |-> recipient, id |-> id], error)
<1> DEFINE c == [op |-> "withdraw", by |-> recipient, id |-> id]
           s == streams[id]
<1>1. c.op = "withdraw" /\ c.id = id
  OBVIOUS
<1> HIDE DEF c
<1>2. Found(Env, id) => id \in DOMAIN streams /\ read_stream(Env, id) = s
  BY FoundStream
<1>3. Env.timestamp = timestamp
  BY EnvFields
<1>4. CASE error \in Plain
  BY <1>4, PlainIsJustified DEF c
<1>5. CASE error = "StreamNotFound"
  <2>1. id >= counter
    BY <1>5, WithdrawRefused, NotFound DEF WithdrawTells
  <2> QED
    BY <1>1, <1>5, <2>1 DEF Justified, c
<1>6. CASE error \in {"AlreadyCancelled", "AlreadyCompleted", "Overflow", "NothingToWithdraw"}
  <2>1. Found(Env, id)
    BY <1>6, WithdrawRefused DEF WithdrawTells
  <2>2. id \in DOMAIN streams /\ read_stream(Env, id) = s
    BY <1>2, <2>1
  <2>3. InOrder(s, paid[id], refunded[id], timestamp)
    BY <2>2, InvIsInOrder
  <2>4. /\ paid[id] \in Nat /\ refunded[id] \in Nat
        /\ s.status \in Status
        /\ s.withdrawn \in Nat /\ s.total \in Nat
    BY <2>2, StoredStream, StateTypes DEF Stream
  <2>5. CASE error = "AlreadyCompleted"
    <3>1. paid[id] = s.total
      BY <1>3, <2>2, <2>3, <2>5, WithdrawRefused DEF InOrder, WithdrawTells
    <3> QED
      BY <1>1, <2>5, <3>1 DEF Justified, c
  <2>6. CASE error = "AlreadyCancelled"
    <3>1. s.withdrawn <= paid[id] /\ s.withdrawn + refunded[id] = s.total
      BY <1>3, <2>2, <2>3, <2>6, WithdrawRefused DEF InOrder, WithdrawTells
    <3>2. paid[id] + refunded[id] >= s.total
      BY <2>4, <3>1
    <3> QED
      BY <1>1, <2>6, <3>2 DEF Justified, c
  <2>7. CASE error = "NothingToWithdraw"
    <3>1. ~(withdrawable(s, timestamp) > 0) /\ s.status # "Cancelled" /\ s.status # "Completed"
      BY <1>3, <2>2, <2>7, WithdrawRefused DEF WithdrawTells
    <3>2. paid[id] = s.withdrawn
      BY <2>3, <2>4, <3>1 DEF InOrder, Status
    <3>3. paid[id] >= vested(s, timestamp)
      <4>1. vested(s, timestamp) \in Nat
        BY <2>2, StoredStream, VestedBounds
      <4>2. withdrawable(s, timestamp) =
              IF vested(s, timestamp) > s.withdrawn THEN vested(s, timestamp) - s.withdrawn
              ELSE 0
        BY DEF withdrawable
      <4> QED
        BY <2>4, <3>1, <3>2, <4>1, <4>2
    <3> QED
      BY <1>1, <2>7, <3>3 DEF Justified, c
  <2>8. CASE error = "Overflow"
    <3>1. s.start < timestamp /\ timestamp < s.end
      BY <1>3, <2>2, <2>8, WithdrawRefused DEF vesting_overflows, WithdrawTells
    <3> QED
      BY <1>1, <2>8, <3>1 DEF Justified, c
  <2> QED
    BY <1>6, <2>5, <2>6, <2>7, <2>8
<1>7. error # "Ok"
  BY DEF Errors
<1> QED
  BY <1>4, <1>5, <1>6, <1>7, WithdrawRefused DEF WithdrawTells

LEMMA CancelJustified ==
  ASSUME Inv, NEW id \in Ids, NEW caller, NEW error \in Errors,
         error = first_error(cancel_code(Env, id, caller).checks)
  PROVE  Justified([op |-> "cancel", by |-> caller, id |-> id], error)
<1> DEFINE c == [op |-> "cancel", by |-> caller, id |-> id]
           s == streams[id]
<1>1. c.op = "cancel" /\ c.id = id
  OBVIOUS
<1> HIDE DEF c
<1>2. Found(Env, id) => id \in DOMAIN streams /\ read_stream(Env, id) = s
  BY FoundStream
<1>3. Env.timestamp = timestamp
  BY EnvFields
<1>4. CASE error \in Plain
  BY <1>4, PlainIsJustified DEF c
<1>5. CASE error = "StreamNotFound"
  <2>1. id >= counter
    BY <1>5, CancelRefused, NotFound DEF CancelTells
  <2> QED
    BY <1>1, <1>5, <2>1 DEF Justified, c
<1>6. CASE error \in {"AlreadyCancelled", "Overflow"}
  <2>1. Found(Env, id)
    BY <1>6, CancelRefused DEF CancelTells
  <2>2. id \in DOMAIN streams /\ read_stream(Env, id) = s
    BY <1>2, <2>1
  <2>3. InOrder(s, paid[id], refunded[id], timestamp)
    BY <2>2, InvIsInOrder
  <2>4. /\ paid[id] \in Nat /\ refunded[id] \in Nat
        /\ s.withdrawn \in Nat /\ s.total \in Nat
    BY <2>2, StoredStream, StateTypes DEF Stream
  <2>5. CASE error = "AlreadyCancelled"
    <3>1. s.withdrawn <= paid[id] /\ s.withdrawn + refunded[id] = s.total
      BY <1>3, <2>2, <2>3, <2>5, CancelRefused DEF InOrder, CancelTells
    <3>2. paid[id] + refunded[id] >= s.total
      BY <2>4, <3>1
    <3> QED
      BY <1>1, <2>5, <3>2 DEF Justified, c
  <2>6. CASE error = "Overflow"
    <3>1. s.start < timestamp /\ timestamp < s.end
      BY <1>3, <2>2, <2>6, CancelRefused DEF vesting_overflows, CancelTells
    <3> QED
      BY <1>1, <2>6, <3>1 DEF Justified, c
  <2> QED
    BY <1>6, <2>5, <2>6
<1>7. error # "Ok"
  BY DEF Errors
<1> QED
  BY <1>4, <1>5, <1>6, <1>7, CancelRefused DEF CancelTells

LEMMA ExtendJustified ==
  ASSUME Inv, NEW id \in Ids, NEW sender, NEW new_end, NEW error \in Errors,
         error = first_error(extend_stream_code(Env, id, sender, new_end).checks)
  PROVE  Justified([op |-> "extend_stream", by |-> sender, id |-> id, new_end |-> new_end],
                   error)
<1> DEFINE c == [op |-> "extend_stream", by |-> sender, id |-> id, new_end |-> new_end]
<1>1. c.id = id
  OBVIOUS
<1> HIDE DEF c
<1>2. CASE error \in Plain
  BY <1>2, PlainIsJustified DEF c
<1>3. CASE error = "StreamNotFound"
  <2>1. id >= counter
    BY <1>3, ExtendRefused, NotFound DEF ExtendTells
  <2> QED
    BY <1>1, <1>3, <2>1 DEF Justified, c
<1>4. error # "Ok"
  BY DEF Errors
<1> QED
  BY <1>2, <1>3, <1>4, ExtendRefused DEF ExtendTells

LEMMA TopUpJustified ==
  ASSUME Inv, Accounted, NEW id \in Ids, NEW sender, NEW amount \in Int, NEW error \in Errors,
         error = first_error(top_up_code(Env, id, sender, amount).checks)
  PROVE  Justified([op |-> "top_up", by |-> sender, id |-> id, amount |-> amount], error)
<1> DEFINE c == [op |-> "top_up", by |-> sender, id |-> id, amount |-> amount]
<1>1. c.op = "top_up" /\ c.id = id /\ c.amount = amount
  OBVIOUS
<1> HIDE DEF c
<1>2. CASE error \in Plain
  BY <1>2, PlainIsJustified DEF c
<1>3. CASE error = "StreamNotFound"
  <2>1. id >= counter
    BY <1>3, TopUpRefused, NotFound DEF TopUpTells
  <2> QED
    BY <1>1, <1>3, <2>1 DEF Justified, c
<1>4. CASE error = "Overflow"
  BY <1>1, <1>4, OverflowElsewhere DEF c
<1>5. CASE error = "SupplyCapExceeded"
  <2>1. Escrow + amount > supply_cap
    BY <1>5, TopUpRefused, CapJustified DEF TopUpTells
  <2> QED
    BY <1>1, <1>5, <2>1 DEF Justified, c
<1>6. error # "Ok"
  BY DEF Errors
<1> QED
  BY <1>2, <1>3, <1>4, <1>5, <1>6, TopUpRefused DEF TopUpTells

LEMMA CreateJustified ==
  ASSUME Inv, Accounted, NEW sender, NEW request, request.total_amount \in Int,
         NEW error \in Errors,
         error = first_error(create_stream_code(Env, sender, request).checks)
  PROVE  Justified([op |-> "create_stream", by |-> sender, request |-> request], error)
<1> DEFINE c == [op |-> "create_stream", by |-> sender, request |-> request]
<1>1. c.op = "create_stream" /\ c.request = request
  OBVIOUS
<1> HIDE DEF c
<1>2. CASE error \in Plain
  BY <1>2, PlainIsJustified DEF c
<1>3. CASE error = "Overflow"
  BY <1>1, <1>3, OverflowElsewhere DEF c
<1>4. CASE error = "SupplyCapExceeded"
  <2>1. Escrow + request.total_amount > supply_cap
    BY <1>4, CreateRefused, CapJustified DEF CreateTells
  <2> QED
    BY <1>1, <1>4, <2>1 DEF Justified, c
<1>5. error # "Ok"
  BY DEF Errors
<1> QED
  BY <1>2, <1>3, <1>4, <1>5, CreateRefused DEF CreateTells

\* The error of an invocation that its checks refuse.
LEMMA InvokeRefused ==
  ASSUME NEW c, invoke(c), outcome' \in Errors,
         ASSUME first_error(code(Env, c).checks) \in Errors
         PROVE  Justified(c, first_error(code(Env, c).checks))
  PROVE  Justified(call', outcome')
<1> DEFINE error == first_error(code(Env, c).checks)
<1>1. call' = c /\ outcome' = IF error = "Ok" THEN "running" ELSE error
  BY DEF invoke
<1> HIDE DEF error
<1>2. outcome' = error /\ error \in Errors
  BY <1>1 DEF Errors
<1>3. Justified(c, error)
  BY <1>2 DEF error
<1> QED
  BY <1>1, <1>2, <1>3

\* So for every call that its checks refuse.
LEMMA EntrypointRefused ==
  ASSUME Inv, Accounted, Entrypoint, outcome' \in Errors
  PROVE  Justified(call', outcome')
<1>0. /\ \A amount \in Amounts : amount \in Int
      /\ \A request \in Requests : request.total_amount \in Int
      /\ Batches \subseteq Seq(StreamRequest)
  <2>1. \A amount \in Amounts : amount \in Int
    BY StreamsAssumption
  <2>2. \A request \in Requests : request.total_amount \in Int
    BY StreamsAssumption DEF StreamRequest
  <2> QED
    BY <2>1, <2>2, StreamsAssumption
<1>1. ASSUME invoke([op |-> "initialize"])
      PROVE  Justified(call', outcome')
  <2> DEFINE c == [op |-> "initialize"]
  <2>1. code(Env, c) = initialize_code(Env)
    BY DEF code
  <2>2. ASSUME first_error(code(Env, c).checks) \in Errors
        PROVE  Justified(c, first_error(code(Env, c).checks))
    <3>1. first_error(code(Env, c).checks) \in Plain
      BY <2>1, <2>2, InitializeRefused DEF Errors
    <3> QED
      BY <3>1, PlainIsJustified
  <2>3. invoke(c)
    BY <1>1
  <2> HIDE DEF c
  <2> QED
    BY <2>2, <2>3, InvokeRefused
<1>2. ASSUME NEW sender \in Accounts, NEW request \in Requests,
             invoke([op |-> "create_stream", by |-> sender, request |-> request])
      PROVE  Justified(call', outcome')
  <2> DEFINE c == [op |-> "create_stream", by |-> sender, request |-> request]
  <2>1. code(Env, c) = create_stream_code(Env, sender, request)
    BY DEF code
  <2>2. ASSUME first_error(code(Env, c).checks) \in Errors
        PROVE  Justified(c, first_error(code(Env, c).checks))
    BY <1>0, <2>1, <2>2, CreateJustified
  <2>3. invoke(c)
    BY <1>2
  <2> HIDE DEF c
  <2> QED
    BY <2>2, <2>3, InvokeRefused
<1>3. ASSUME NEW sender \in Accounts, NEW requests \in Batches,
             invoke([op |-> "create_stream_batch", by |-> sender, requests |-> requests])
      PROVE  Justified(call', outcome')
  <2> DEFINE c == [op |-> "create_stream_batch", by |-> sender, requests |-> requests]
  <2>1. code(Env, c) = create_stream_batch_code(Env, sender, requests)
    BY DEF code
  <2>2. ASSUME first_error(code(Env, c).checks) \in Errors
        PROVE  Justified(c, first_error(code(Env, c).checks))
    <3>1. first_error(code(Env, c).checks) \in Mild
      BY <1>0, <2>1, BatchRefused
    <3>2. CASE first_error(code(Env, c).checks) \in Plain
      BY <3>2, PlainIsJustified
    <3>3. CASE first_error(code(Env, c).checks) = "Overflow"
      <4>1. c.op \notin {"withdraw", "cancel"}
        OBVIOUS
      <4> HIDE DEF c
      <4> QED
        BY <3>3, <4>1, OverflowElsewhere
    <3>4. first_error(code(Env, c).checks) # "Ok"
      BY <2>2 DEF Errors
    <3> HIDE DEF c
    <3> QED
      BY <3>1, <3>2, <3>3, <3>4 DEF Mild
  <2>3. invoke(c)
    BY <1>3
  <2> HIDE DEF c
  <2> QED
    BY <2>2, <2>3, InvokeRefused
<1>4. ASSUME NEW id \in Ids, NEW sender \in Accounts, NEW amount \in Amounts,
             invoke([op |-> "top_up", by |-> sender, id |-> id, amount |-> amount])
      PROVE  Justified(call', outcome')
  <2> DEFINE c == [op |-> "top_up", by |-> sender, id |-> id, amount |-> amount]
  <2>1. code(Env, c) = top_up_code(Env, id, sender, amount)
    BY DEF code
  <2>2. ASSUME first_error(code(Env, c).checks) \in Errors
        PROVE  Justified(c, first_error(code(Env, c).checks))
    BY <1>0, <2>1, <2>2, TopUpJustified
  <2>3. invoke(c)
    BY <1>4
  <2> HIDE DEF c
  <2> QED
    BY <2>2, <2>3, InvokeRefused
<1>5. ASSUME NEW id \in Ids, NEW sender \in Accounts, NEW new_end \in 0..U64MAX,
             invoke([op |-> "extend_stream", by |-> sender, id |-> id, new_end |-> new_end])
      PROVE  Justified(call', outcome')
  <2> DEFINE c == [op |-> "extend_stream", by |-> sender, id |-> id, new_end |-> new_end]
  <2>1. code(Env, c) = extend_stream_code(Env, id, sender, new_end)
    BY DEF code
  <2>2. ASSUME first_error(code(Env, c).checks) \in Errors
        PROVE  Justified(c, first_error(code(Env, c).checks))
    BY <2>1, <2>2, ExtendJustified
  <2>3. invoke(c)
    BY <1>5
  <2> HIDE DEF c
  <2> QED
    BY <2>2, <2>3, InvokeRefused
<1>6. ASSUME NEW id \in Ids, NEW recipient \in Accounts,
             invoke([op |-> "withdraw", by |-> recipient, id |-> id])
      PROVE  Justified(call', outcome')
  <2> DEFINE c == [op |-> "withdraw", by |-> recipient, id |-> id]
  <2>1. code(Env, c) = withdraw_code(Env, id, recipient)
    BY DEF code
  <2>2. ASSUME first_error(code(Env, c).checks) \in Errors
        PROVE  Justified(c, first_error(code(Env, c).checks))
    BY <2>1, <2>2, WithdrawJustified
  <2>3. invoke(c)
    BY <1>6
  <2> HIDE DEF c
  <2> QED
    BY <2>2, <2>3, InvokeRefused
<1>7. ASSUME NEW id \in Ids, NEW caller \in Accounts,
             invoke([op |-> "cancel", by |-> caller, id |-> id])
      PROVE  Justified(call', outcome')
  <2> DEFINE c == [op |-> "cancel", by |-> caller, id |-> id]
  <2>1. code(Env, c) = cancel_code(Env, id, caller)
    BY DEF code
  <2>2. ASSUME first_error(code(Env, c).checks) \in Errors
        PROVE  Justified(c, first_error(code(Env, c).checks))
    BY <2>1, <2>2, CancelJustified
  <2>3. invoke(c)
    BY <1>7
  <2> HIDE DEF c
  <2> QED
    BY <2>2, <2>3, InvokeRefused
<1>8. ASSUME NEW new_cap \in Caps,
             invoke([op |-> "set_supply_cap", cap |-> new_cap])
      PROVE  Justified(call', outcome')
  <2> DEFINE c == [op |-> "set_supply_cap", cap |-> new_cap]
  <2>1. code(Env, c) = set_supply_cap_code(Env, new_cap)
    BY DEF code
  <2>2. ASSUME first_error(code(Env, c).checks) \in Errors
        PROVE  Justified(c, first_error(code(Env, c).checks))
    <3>1. first_error(code(Env, c).checks) \in Plain
      BY <2>1, <2>2, SetSupplyCapRefused DEF Errors
    <3> QED
      BY <3>1, PlainIsJustified
  <2>3. invoke(c)
    BY <1>8
  <2> HIDE DEF c
  <2> QED
    BY <2>2, <2>3, InvokeRefused
<1> QED
  BY <1>1, <1>2, <1>3, <1>4, <1>5, <1>6, <1>7, <1>8 DEF Entrypoint

\* A statement that returns an Err: create_stream's checked_add, after the
\* transfer.
LEMMA ExecuteRefused ==
  ASSUME Inv, Runs, ~Idle, execute(statement), outcome' \in Errors
  PROVE  Justified(call', outcome')
<1>1. /\ DOMAIN working = Fields
      /\ Running(Env, call, pc, working)
      /\ outcome = "running"
  BY DEF Runs
<1>2. call' = call /\ (outcome' = outcome \/ outcome' = "Ok" \/ outcome' = "Overflow")
  BY DEF execute, escrow, pay, refund, store_stream, checked_add_counter, write_counter,
     write_total_supply, reduce_total_supply, write_supply_cap, write_instance, publish,
     return, proceed, fail
<1>3. outcome' = "Overflow"
  BY <1>1, <1>2 DEF Errors
<1>4. ASSUME NEW id \in 0..Env.counter, NEW recipient \in Accounts,
             call = [op |-> "withdraw", by |-> recipient, id |-> id],
             Passed(withdraw_code(Env, id, recipient)),
             WithdrawStage(Env, withdraw_code(Env, id, recipient).statements, pc, working)
      PROVE  FALSE
  <2>1. Changes(Fields) \/ return(statement)
    BY <1>1, <1>4, WithdrawRuns
  <2> QED
    BY <1>1, <1>3, <2>1 DEF Changes, return
<1>5. ASSUME NEW id \in 0..Env.counter, NEW caller \in Accounts,
             call = [op |-> "cancel", by |-> caller, id |-> id],
             Passed(cancel_code(Env, id, caller)),
             CancelStage(Env, cancel_code(Env, id, caller).statements, pc, working)
      PROVE  FALSE
  <2>1. Changes(Fields) \/ return(statement)
    BY <1>1, <1>5, CancelRuns
  <2> QED
    BY <1>1, <1>3, <2>1 DEF Changes, return
<1>6. call.op \notin {"withdraw", "cancel"}
  <2> SUFFICES ASSUME call.op \in {"withdraw", "cancel"} PROVE FALSE
    OBVIOUS
  <2> QED
    BY <1>1, <1>4, <1>5 DEF Running
<1> QED
  BY <1>2, <1>3, <1>6, OverflowElsewhere

\* No other step answers with an Err.
LEMMA RefusedStep ==
  ASSUME IInv, Accounted, InvocationNext, outcome' \in Errors,
         <<call, outcome, pc>>' # <<call, outcome, pc>>
  PROVE  Justified(call', outcome')
<1>1. CASE Entrypoint
  BY <1>1, EntrypointRefused DEF IInv
<1>2. CASE ~Idle /\ execute(statement)
  BY <1>2, ExecuteRefused DEF IInv
<1>3. CASE trap
  BY <1>3 DEF trap, fail, Errors
<1>4. CASE noted
  BY <1>4 DEF noted, Errors
<1>5. CASE next_ledger
  BY <1>5 DEF next_ledger, Errors
<1> QED
  BY <1>1, <1>2, <1>3, <1>4, <1>5 DEF InvocationNext

\* An Err is no false alarm: what it says of the stream, the window or the cap
\* is so of the tokens themselves.
THEOREM RefusalsAreJustified == InvocationSpec => RefusalsJustified
<1>1. IInv /\ Accounted /\ [InvocationNext]_invocation_vars
        => [outcome' \in Errors => Justified(call', outcome')]_<<call, outcome, pc>>
  <2> SUFFICES ASSUME IInv, Accounted, [InvocationNext]_invocation_vars,
                      outcome' \in Errors,
                      <<call, outcome, pc>>' # <<call, outcome, pc>>
               PROVE  Justified(call', outcome')
    OBVIOUS
  <2>1. InvocationNext
    BY DEF invocation_vars
  <2> QED
    BY <2>1, RefusedStep
<1> QED
  BY <1>1, InvocationInvariance, LedgerIsAccounted, PTL DEF InvocationSpec, RefusalsJustified

-----------------------------------------------------------------------------
(* Retries                                                                 *)

\* The work of c is done: another c finds it so at any later time ...
Done(c) ==
  /\ c.op = "initialize" => initialized
  /\ c.op = "extend_stream" => within_window(c.new_end, streams[c.id])
  /\ c.op = "cancel" => streams[c.id].status = "Cancelled"

\* ... or in the same ledger.
Pulled(c) ==
  c.op = "withdraw" => vested(streams[c.id], timestamp) <= streams[c.id].withdrawn

\* No call runs whose work an earlier one, the same, has done.
NotAgain ==
  /\ earlier = "Ok" => call.op \notin OncePerLedger
  /\ earlier = "Ok, in an earlier ledger" => call.op \notin Once

\* What an answer still says of the ledger when the next call comes.
Remembered ==
  /\ outcome \in {"Ok", "Ok, in an earlier ledger"} => Done(call)
  /\ outcome = "Ok" => Pulled(call)
  /\ ~Idle => NotAgain

\* The checks of a call whose work is done do not let it through.
LEMMA DoneIsRefused ==
  ASSUME NEW c, Done(c), Passed(code(Env, c))
  PROVE  c.op \notin Once
<1>1. CASE c.op = "initialize"
  <2>1. code(Env, c) = initialize_code(Env)
    BY <1>1 DEF code
  <2>2. ~initialized
    BY <2>1, InitializePassed, EnvFields
  <2> QED
    BY <1>1, <2>2 DEF Done
<1>2. CASE c.op = "extend_stream"
  <2>1. code(Env, c) = extend_stream_code(Env, c.id, c.by, c.new_end)
    BY <1>2 DEF code
  <2>2. Found(Env, c.id) /\ ~within_window(c.new_end, read_stream(Env, c.id))
    BY <2>1, ExtendPassed
  <2> QED
    BY <1>2, <2>2, FoundStream DEF Done
<1>3. CASE c.op = "cancel"
  <2>1. code(Env, c) = cancel_code(Env, c.id, c.by)
    BY <1>3 DEF code
  <2>2. Found(Env, c.id) /\ read_stream(Env, c.id).status # "Cancelled"
    BY <2>1, CancelPassed
  <2> QED
    BY <1>3, <2>2, FoundStream DEF Done
<1> QED
  BY <1>1, <1>2, <1>3 DEF Once

\* A drained stream has nothing to withdraw.
LEMMA PulledIsRefused ==
  ASSUME Inv, NEW c, Pulled(c), Passed(code(Env, c))
  PROVE  c.op # "withdraw"
<1> SUFFICES ASSUME c.op = "withdraw" PROVE FALSE
  OBVIOUS
<1>1. code(Env, c) = withdraw_code(Env, c.id, c.by)
  BY DEF code
<1>2. Found(Env, c.id) /\ withdrawable(read_stream(Env, c.id), Env.timestamp) > 0
  BY <1>1, WithdrawPassed
<1>3. c.id \in DOMAIN streams /\ withdrawable(streams[c.id], timestamp) > 0
  BY <1>2, FoundStream, EnvFields
<1>4. /\ Window(streams[c.id]) /\ timestamp \in Nat
      /\ streams[c.id].total \in Nat /\ streams[c.id].withdrawn \in 0..streams[c.id].total
  BY <1>3, StoredStream
<1>5. vested(streams[c.id], timestamp) \in Nat /\ streams[c.id].withdrawn \in Nat
  BY <1>4, VestedBounds
<1>6. vested(streams[c.id], timestamp) <= streams[c.id].withdrawn
  BY DEF Pulled
<1> QED
  BY <1>3, <1>5, <1>6 DEF withdrawable

\* A call that returned Ok has done its work.
LEMMA ReturnsDone ==
  ASSUME Inv, Returns
  PROVE  Done(call)' /\ Pulled(call)'
<1>1. call' = call
  BY DEF Returns, return
<1>2. CASE call = [op |-> "initialize"] /\ initialize
  <2>1. call.op = "initialize"
    BY <1>2
  <2> QED
    BY <1>1, <1>2, <2>1 DEF Done, Pulled, initialize
<1>3. ASSUME NEW id \in DOMAIN streams, NEW sender \in Accounts, NEW new_end \in 0..U64MAX,
             call = [op |-> "extend_stream", by |-> sender, id |-> id, new_end |-> new_end],
             extend_stream(id, sender, new_end)
      PROVE  Done(call)' /\ Pulled(call)'
  <2>1. call.op = "extend_stream" /\ call.id = id /\ call.new_end = new_end
    BY <1>3
  <2>2. streams'[id].end = new_end
    <3>1. streams' = write_stream(id, [streams[id] EXCEPT !.end = new_end])
      BY <1>3 DEF extend_stream
    <3>2. streams[id] \in Stream
      BY StoredStream
    <3> QED
      BY <3>1, <3>2 DEF write_stream, Stream
  <2>3. new_end <= new_end
    BY StreamsAssumption
  <2> QED
    BY <1>1, <2>1, <2>2, <2>3 DEF Done, Pulled, within_window
<1>4. ASSUME NEW id \in DOMAIN streams, NEW caller \in Accounts,
             call = [op |-> "cancel", by |-> caller, id |-> id],
             cancel(id, caller)
      PROVE  Done(call)' /\ Pulled(call)'
  <2>1. call.op = "cancel" /\ call.id = id
    BY <1>4
  <2>2. streams'[id].status = "Cancelled"
    <3>1. streams' = write_stream(id, [streams[id] EXCEPT
            !.withdrawn = vested(streams[id], timestamp), !.status = "Cancelled"])
      BY <1>4 DEF cancel
    <3>2. streams[id] \in Stream
      BY StoredStream
    <3> QED
      BY <3>1, <3>2 DEF write_stream, Stream
  <2> QED
    BY <1>1, <2>1, <2>2 DEF Done, Pulled
<1>5. ASSUME NEW id \in DOMAIN streams, NEW recipient \in Accounts,
             call = [op |-> "withdraw", by |-> recipient, id |-> id],
             withdraw(id, recipient)
      PROVE  Done(call)' /\ Pulled(call)'
  <2> DEFINE s == streams[id]
             withdrawn == s.withdrawn + withdrawable(s, timestamp)
             after == [s EXCEPT !.withdrawn = withdrawn,
                        !.status = IF completes(s, withdrawn) THEN "Completed" ELSE @]
  <2>1. call.op = "withdraw" /\ call.id = id
    BY <1>5
  <2>2. s \in Stream /\ Window(s) /\ timestamp \in Nat /\ s.withdrawn \in 0..s.total
    BY StoredStream
  <2>3. withdrawable(s, timestamp) > 0 /\ timestamp' = timestamp
    BY <1>5 DEF withdraw
  <2>4. withdrawn = vested(s, timestamp) /\ vested(s, timestamp) \in Nat
    BY <2>2, <2>3, WithdrawableBounds, VestedBounds
  <2>5. streams'[id] = after
    BY <1>5 DEF withdraw, write_stream
  <2> HIDE DEF withdrawn
  <2>6. /\ after.withdrawn = withdrawn
        /\ after.total = s.total /\ after.start = s.start /\ after.end = s.end
    BY <2>2 DEF Stream
  <2> HIDE DEF after, s
  <2>7. vested(after, timestamp) = vested(s, timestamp)
    BY <2>6 DEF vested
  <2>8. vested(streams'[id], timestamp') <= streams'[id].withdrawn
    BY <2>3, <2>4, <2>5, <2>6, <2>7
  <2> QED
    BY <1>1, <2>1, <2>8 DEF Done, Pulled
<1>6. CASE call.op \notin OncePerLedger
  BY <1>1, <1>6 DEF Done, Pulled, OncePerLedger, Once
<1> QED
  BY <1>2, <1>3, <1>4, <1>5, <1>6 DEF Returns, OncePerLedger, Once

\* A call that is let through is not one that was answered.
LEMMA InvokeRemembers ==
  ASSUME Inv, Remembered, NEW c, invoke(c), outcome' \in Errors \cup {"running"}
  PROVE  Remembered'
<1>1. /\ call' = c
      /\ earlier' = IF c = call THEN outcome ELSE "none"
      /\ ~Idle' => Passed(code(Env, c))
  BY DEF invoke, Passed, Idle
<1>2. outcome' # "Ok" /\ outcome' # "Ok, in an earlier ledger"
  BY DEF Errors
<1>3. ASSUME ~Idle'
      PROVE  NotAgain'
  <2>1. Passed(code(Env, c))
    BY <1>1, <1>3
  <2>2. CASE earlier' = "Ok"
    <3>1. c = call /\ outcome = "Ok"
      BY <1>1, <2>2
    <3>2. Done(c) /\ Pulled(c)
      BY <3>1 DEF Remembered
    <3> QED
      BY <1>1, <2>1, <2>2, <3>2, DoneIsRefused, PulledIsRefused DEF NotAgain, OncePerLedger
  <2>3. CASE earlier' = "Ok, in an earlier ledger"
    <3>1. c = call /\ outcome = "Ok, in an earlier ledger"
      BY <1>1, <2>3
    <3>2. Done(c)
      BY <3>1 DEF Remembered
    <3> QED
      BY <1>1, <2>1, <2>3, <3>2, DoneIsRefused DEF NotAgain
  <2> QED
    BY <2>2, <2>3 DEF NotAgain
<1> QED
  BY <1>2, <1>3 DEF Remembered

\* Every step keeps what was answered, and no Ok comes twice.
LEMMA RememberedStep ==
  ASSUME IInv, Remembered, [InvocationNext]_invocation_vars
  PROVE  Remembered' /\ (outcome' = "Ok" /\ outcome # "Ok" => NotAgain)
<1>0. Inv /\ Runs /\ Booked
  BY DEF IInv
<1>1. CASE UNCHANGED invocation_vars
  BY <1>1 DEF invocation_vars, ledger, Remembered, Done, Pulled, NotAgain, Idle, vested
<1>2. CASE Entrypoint
  <2>1. outcome' \in Errors \cup {"running"}
    BY <1>0, <1>2, EntrypointStep
  <2>2. PICK c : invoke(c)
    BY <1>2 DEF Entrypoint
  <2> QED
    BY <1>0, <2>1, <2>2, InvokeRemembers DEF Errors
<1>3. CASE ~Idle /\ execute(statement)
  <2>1. NotAgain /\ outcome = "running"
    BY <1>0, <1>3 DEF Remembered, Runs
  <2>2. CASE Returns
    <3>1. Idle'
      BY <2>2 DEF Returns, return, Idle
    <3> QED
      BY <1>0, <2>1, <2>2, <3>1, ReturnsDone DEF Remembered
  <2>3. CASE outcome' # "Ok"
    <3>1. \/ outcome' = "Overflow" /\ pc' = 0
          \/ UNCHANGED <<call, outcome, earlier>>
      BY <1>3, <2>3 DEF execute, escrow, pay, refund, store_stream, checked_add_counter,
         write_counter, write_total_supply, reduce_total_supply, write_supply_cap,
         write_instance, publish, return, proceed, fail
    <3> QED
      BY <2>1, <3>1 DEF Remembered, NotAgain, Idle
  <2> QED
    BY <1>0, <1>3, <2>2, <2>3, ExecuteStep
<1>4. CASE trap
  <2>1. outcome' = "trap" /\ Idle'
    BY <1>4 DEF trap, fail, Idle
  <2> QED
    BY <2>1 DEF Remembered
<1>5. CASE noted
  <2>1. outcome' = "none" /\ UNCHANGED pc /\ outcome \in Errors \cup {"trap"}
    BY <1>5 DEF noted, Failed
  <2>2. Idle'
    BY <1>0, <2>1 DEF Runs, Errors, Idle
  <2> QED
    BY <2>1, <2>2 DEF Remembered
<1>6. CASE next_ledger
  <2>1. /\ Idle' /\ call' = call
        /\ outcome' = IF outcome = "Ok" THEN "Ok, in an earlier ledger" ELSE "none"
        /\ UNCHANGED <<initialized, streams>>
    BY <1>6 DEF next_ledger, Idle, close_ledger
  <2>2. Done(call) => Done(call)'
    BY <2>1 DEF Done, within_window
  <2> QED
    BY <2>1, <2>2 DEF Remembered
<1> QED
  BY <1>1, <1>2, <1>3, <1>4, <1>5, <1>6 DEF InvocationNext

\* A caller that does not learn the answer can resubmit: what it asked for is
\* not executed twice, a withdrawal within one ledger and the others ever.
THEOREM RetriesAreRefused == InvocationSpec => RetriesRefused
<1>1. InvocationInit => Remembered
  BY DEF InvocationInit, Remembered, Idle
<1>2. IInv /\ Remembered /\ [InvocationNext]_invocation_vars => Remembered'
  BY RememberedStep
<1>3. IInv /\ Remembered /\ [InvocationNext]_invocation_vars
        => [outcome' = "Ok" => /\ earlier = "Ok" => call.op \notin OncePerLedger
                               /\ earlier = "Ok, in an earlier ledger" => call.op \notin Once]_outcome
  BY RememberedStep DEF NotAgain
<1> QED
  BY <1>1, <1>2, <1>3, InvocationInvariance, PTL DEF InvocationSpec, RetriesRefused

=============================================================================
