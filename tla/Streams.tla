------------------------------- MODULE Streams -------------------------------
(***************************************************************************)
(* The payment streams of StreamPayContract (src/lib.rs) with the storage  *)
(* they live in (src/storage.rs), the token ledger that escrows the funds  *)
(* and the ledger clock.                                                   *)
(*                                                                         *)
(* One action is one successful contract invocation.  An invocation that   *)
(* returns an Err or panics is rolled back by the host and changes         *)
(* nothing, so every early return of an entrypoint is a conjunct of its    *)
(* action's guard.  require_auth(a) is the quantification over the account *)
(* a that signs: only Accounts can, the contract's own address cannot.     *)
(***************************************************************************)
EXTENDS Vesting, Sums, Sequences, FiniteSets

CONSTANTS
  Accounts,    \* addresses that can authorize a call
  Contract,    \* env.current_contract_address()
  Funds,       \* tokens held by each account at the start
  Requests,    \* the stream requests callers make
  Batches,     \* the sequences of requests callers batch
  Amounts,     \* the amounts callers top up
  Caps,        \* the caps the admin sets
  U64MAX,      \* the largest u64: timestamps and the counter
  MaxStreams   \* bound of the model: streams created

Addresses == Accounts \cup {Contract}

\* types::StreamRequest, as a caller may fill it in.
StreamRequest ==
  [recipient: Addresses, total_amount: I128MIN..I128MAX,
   start_time: 0..U64MAX, end_time: 0..U64MAX]

ASSUME StreamsAssumption ==
  /\ Contract \notin Accounts
  /\ Funds \in [Accounts -> Nat]
  /\ Requests \subseteq StreamRequest
  /\ Batches \subseteq Seq(StreamRequest)
  /\ Amounts \subseteq I128MIN..I128MAX
  /\ Caps \subseteq I128MIN..I128MAX
  /\ U64MAX \in Nat \ {0}
  /\ MaxStreams \in Nat

VARIABLES
  initialized,   \* DataKey::Admin is set (has_admin)
  streams,       \* DataKey::Stream(id), for the ids in storage
  counter,       \* DataKey::Counter
  total_supply,  \* DataKey::TotalSupply
  supply_cap,    \* DataKey::SupplyCap
  balance,       \* the token contract's ledger
  timestamp,     \* env.ledger().timestamp()
  \* History variables: what the token transfers of each stream added up to.
  paid,          \* tokens transferred to the recipient, by stream
  refunded,      \* tokens transferred back to the sender, by stream
  untracked      \* tokens escrowed without being added to total_supply

vars == <<initialized, streams, counter, total_supply, supply_cap, balance,
          timestamp, paid, refunded, untracked>>

Status == {"Active", "Cancelled", "Completed"}

Stream ==
  [sender: Accounts, recipient: Addresses, total: 1..I128MAX,
   withdrawn: 0..I128MAX, start: 0..U64MAX, end: 0..U64MAX, status: Status]

-----------------------------------------------------------------------------
(* The token contract, as token::Client::transfer is used.                 *)

CanPay(bal, from, amount) == amount <= bal[from]

Transfer(bal, from, to, amount) ==
  LET debited == [bal EXCEPT ![from] = @ - amount]
  IN  [debited EXCEPT ![to] = @ + amount]

\* Transfers out of the escrow are skipped for amounts that are not positive.
PayOut(bal, to, amount) ==
  IF amount > 0 THEN Transfer(bal, Contract, to, amount) ELSE bal

CanPayOut(bal, amount) == amount > 0 => CanPay(bal, Contract, amount)

-----------------------------------------------------------------------------
(* Storage and the initial state                                           *)

write_stream(id, stream) ==
  [i \in DOMAIN streams \cup {id} |-> IF i = id THEN stream ELSE streams[i]]

supply_unreduced(amount) == total_supply

\* checked_sub(amount).unwrap_or(0) on an i128.
reduced_supply(amount) ==
  IF total_supply - amount < I128MIN THEN 0 ELSE total_supply - amount

NewStream(sender, request, start) ==
  [sender |-> sender, recipient |-> request.recipient,
   total |-> request.total_amount, withdrawn |-> 0,
   start |-> start, end |-> request.end_time, status |-> "Active"]

DEFAULT_SUPPLY_CAP == I128MAX

\* A deployed, uninitialized contract.  A missing instance entry reads as the
\* default its accessor gives it; the clock of a live network is positive.
Init ==
  /\ initialized = FALSE
  /\ streams = [i \in {} |-> 0]
  /\ counter = 0
  /\ total_supply = 0
  /\ supply_cap = I128MAX
  /\ balance = [a \in Addresses |-> IF a = Contract THEN 0 ELSE Funds[a]]
  /\ timestamp = 1
  /\ paid = [i \in {} |-> 0]
  /\ refunded = [i \in {} |-> 0]
  /\ untracked = 0

initialize ==
  /\ ~initialized
  /\ initialized' = TRUE
  /\ counter' = 0
  /\ total_supply' = 0
  /\ supply_cap' = DEFAULT_SUPPLY_CAP
  /\ UNCHANGED <<streams, balance, timestamp, paid, refunded, untracked>>

\* History of one payout: added to a stream's running total.
Plus(history, id, amount) == [history EXCEPT ![id] = @ + amount]

\* History of new streams: nothing paid out yet.
Opened(history, n) ==
  [i \in 0..(n - 1) |-> IF i \in DOMAIN history THEN history[i] ELSE 0]

-----------------------------------------------------------------------------
(* Opening streams                                                         *)

\* The global supply cap, and the checked_add before it.
only_in_range(new_supply) == new_supply <= I128MAX

within_cap(new_supply) == new_supply <= I128MAX /\ new_supply <= supply_cap

\* The amount and window checks shared by create_stream and
\* create_stream_batch; start is the request's start as it will be stored.
valid_request_any_amount(request, start) ==
  request.end_time > start /\ request.end_time > timestamp
valid_request_any_window(request, start) ==
  is_valid_amount(request.total_amount) /\ request.end_time > timestamp
valid_request_past_end(request, start) ==
  is_valid_amount(request.total_amount) /\ request.end_time > start

valid_request(request, start) ==
  /\ is_valid_amount(request.total_amount)
  /\ request.total_amount >= MIN_STREAM_AMOUNT
  /\ request.end_time > start
  /\ request.end_time > timestamp

create_stream(sender, request) ==
  LET start      == normalize_start_time(timestamp, request.start_time)
      new_supply == total_supply + request.total_amount
  IN  /\ initialized
      /\ counter < MaxStreams
      /\ valid_request(request, start)
      /\ within_cap(new_supply)
      /\ CanPay(balance, sender, request.total_amount)
      /\ counter + 1 <= U64MAX
      /\ balance' = Transfer(balance, sender, Contract, request.total_amount)
      /\ streams' = write_stream(counter, NewStream(sender, request, start))
      /\ counter' = counter + 1
      /\ total_supply' = new_supply
      /\ paid' = Opened(paid, counter + 1)
      /\ refunded' = Opened(refunded, counter + 1)
      /\ UNCHANGED <<initialized, supply_cap, timestamp, untracked>>

aggregate_first_amount(requests) == requests[1].total_amount

\* Sum of the requests' amounts, checked to stay in the i128 range.
aggregate_amount(requests) ==
  SumTo([i \in Nat |-> IF i < Len(requests) THEN requests[i + 1].total_amount
                                            ELSE 0])[Len(requests)]

\* No cap check, no start normalisation and no total_supply update here.
create_stream_batch(sender, requests) ==
  LET count == Len(requests)
      total == aggregate_amount(requests)
  IN  /\ initialized
      /\ count > 0
      /\ counter + count <= MaxStreams
      /\ \A i \in 1..count : valid_request(requests[i], requests[i].start_time)
      /\ total <= I128MAX
      /\ counter + count <= U64MAX
      /\ CanPay(balance, sender, total)
      /\ balance' = Transfer(balance, sender, Contract, total)
      /\ streams' = [i \in 0..(counter + count - 1) |->
           IF i < counter THEN streams[i]
           ELSE NewStream(sender, requests[i - counter + 1],
                          requests[i - counter + 1].start_time)]
      /\ counter' = counter + count
      /\ paid' = Opened(paid, counter + count)
      /\ refunded' = Opened(refunded, counter + count)
      /\ untracked' = untracked + total
      /\ UNCHANGED <<initialized, total_supply, supply_cap, timestamp>>

-----------------------------------------------------------------------------
(* Changing an active stream                                               *)

top_up(id, sender, amount) ==
  LET s          == streams[id]
      new_supply == total_supply + amount
  IN  /\ is_valid_amount(amount)
      /\ sender = s.sender
      /\ s.status = "Active"
      /\ s.total + amount <= I128MAX
      /\ within_cap(new_supply)
      /\ CanPay(balance, sender, amount)
      /\ balance' = Transfer(balance, sender, Contract, amount)
      /\ streams' = write_stream(id, [s EXCEPT !.total = @ + amount])
      /\ total_supply' = new_supply
      /\ UNCHANGED <<initialized, counter, supply_cap, timestamp, paid, refunded,
                     untracked>>

extend_stream(id, sender, new_end) ==
  LET s == streams[id]
  IN  /\ sender = s.sender
      /\ s.status = "Active"
      /\ new_end > s.end
      /\ streams' = write_stream(id, [s EXCEPT !.end = new_end])
      /\ UNCHANGED <<initialized, counter, total_supply, supply_cap, balance,
                     timestamp, paid, refunded, untracked>>

-----------------------------------------------------------------------------
(* Paying out                                                              *)

completes_when_drained(s, withdrawn) == withdrawn >= vested(s, timestamp)

\* Whether a withdrawal that brings the total pulled to withdrawn is the last.
completes(s, withdrawn) == withdrawn >= s.total

withdraw(id, recipient) ==
  LET s         == streams[id]
      available == withdrawable(s, timestamp)
      withdrawn == s.withdrawn + available
  IN  /\ recipient = s.recipient
      /\ s.status = "Active"
      /\ ~vesting_overflows(s, timestamp)
      /\ available > 0
      /\ CanPay(balance, Contract, available)
      /\ streams' = write_stream(id, [s EXCEPT
           !.withdrawn = withdrawn,
           !.status = IF completes(s, withdrawn) THEN "Completed" ELSE @])
      /\ balance' = Transfer(balance, Contract, recipient, available)
      /\ total_supply' = reduced_supply(available)
      /\ paid' = Plus(paid, id, available)
      /\ UNCHANGED <<initialized, counter, supply_cap, timestamp, refunded, untracked>>

\* recipient_paid is negative when the window was extended after a
\* withdrawal: its checked_sub does not fail and the transfer is skipped.
cancel(id, caller) ==
  LET s              == streams[id]
      recipient_paid == vested(s, timestamp) - s.withdrawn
      sender_refund  == unvested(s, timestamp)
      after_payout   == PayOut(balance, s.recipient, recipient_paid)
  IN  /\ caller \in {s.sender, s.recipient}
      /\ s.status # "Cancelled"
      /\ ~vesting_overflows(s, timestamp)
      /\ CanPayOut(balance, recipient_paid)
      /\ CanPayOut(after_payout, sender_refund)
      /\ streams' = write_stream(id, [s EXCEPT !.withdrawn = vested(s, timestamp),
                                               !.status = "Cancelled"])
      /\ balance' = PayOut(after_payout, s.sender, sender_refund)
      /\ total_supply' = reduced_supply(recipient_paid + sender_refund)
      /\ paid' = Plus(paid, id, IF recipient_paid > 0 THEN recipient_paid ELSE 0)
      /\ refunded' = Plus(refunded, id, sender_refund)
      /\ UNCHANGED <<initialized, counter, supply_cap, timestamp, untracked>>

-----------------------------------------------------------------------------
(* The admin's cap and the ledger clock                                    *)

\* The admin signs; who that is, is module Governance's.
set_supply_cap(new_cap) ==
  /\ initialized
  /\ new_cap > 0
  /\ supply_cap' = new_cap
  /\ UNCHANGED <<initialized, streams, counter, total_supply, balance, timestamp,
                 paid, refunded, untracked>>

\* A ledger closes.  Any number of invocations share one timestamp.
close_ledger ==
  /\ timestamp < U64MAX
  /\ timestamp' = timestamp + 1
  /\ UNCHANGED <<initialized, streams, counter, total_supply, supply_cap, balance,
                 paid, refunded, untracked>>

Next ==
  \/ initialize
  \/ \E sender \in Accounts, request \in Requests : create_stream(sender, request)
  \/ \E sender \in Accounts, requests \in Batches :
       create_stream_batch(sender, requests)
  \/ \E id \in DOMAIN streams, sender \in Accounts, amount \in Amounts :
       top_up(id, sender, amount)
  \/ \E id \in DOMAIN streams, sender \in Accounts, new_end \in 0..U64MAX :
       extend_stream(id, sender, new_end)
  \/ \E id \in DOMAIN streams, recipient \in Accounts : withdraw(id, recipient)
  \/ \E id \in DOMAIN streams, caller \in Accounts : cancel(id, caller)
  \/ \E new_cap \in Caps : set_supply_cap(new_cap)
  \/ close_ledger

Spec == Init /\ [][Next]_vars

\* Ledgers keep closing, and the recipient of every stream keeps asking for
\* the vested balance: the two things a stream relies on to be paid out.
Fairness ==
  /\ WF_vars(close_ledger)
  /\ \A id \in 0..(MaxStreams - 1), recipient \in Accounts :
       WF_vars(id \in DOMAIN streams /\ withdraw(id, recipient))

FairSpec == Spec /\ Fairness

-----------------------------------------------------------------------------
(* Safety                                                                  *)

\* Every variable has its type; the ids in storage are those below counter.
TypeOK ==
  /\ initialized \in BOOLEAN
  /\ counter \in 0..U64MAX
  /\ streams \in [0..(counter - 1) -> Stream]
  /\ total_supply \in I128MIN..I128MAX
  /\ supply_cap \in 1..I128MAX
  /\ balance \in [Addresses -> Nat]
  /\ timestamp \in 0..U64MAX
  /\ paid \in [0..(counter - 1) -> Nat]
  /\ refunded \in [0..(counter - 1) -> Nat]
  /\ untracked \in Nat

\* A stored stream has a window, has not paid out more than its total
\* through withdrawals, and is Completed only when all of it was pulled after
\* the window closed.
StreamsWellFormed ==
  \A id \in DOMAIN streams :
    LET s == streams[id]
    IN  /\ s.start < s.end
        /\ s.withdrawn <= s.total
        /\ s.status = "Completed" => s.withdrawn = s.total /\ s.end <= timestamp

\* The tokens moved for a stream agree with its record.  A settled stream
\* leaves nothing behind in the contract; a cancelled one may have paid more
\* than its total, when its recipient had withdrawn more than counts as
\* vested after an extension.
PayoutsMatchRecord ==
  \A id \in DOMAIN streams :
    LET s == streams[id]
    IN  /\ s.status = "Active" => paid[id] = s.withdrawn /\ refunded[id] = 0
        /\ s.status = "Completed" => paid[id] = s.total /\ refunded[id] = 0
        /\ s.status = "Cancelled" =>
             s.withdrawn <= paid[id] /\ s.withdrawn + refunded[id] = s.total

\* What the contract still has to hold for a stream.
Held(s) == IF s.status = "Active" THEN s.total - s.withdrawn ELSE 0

\* The sum of the active streams' balances.
Escrow == SumTo([i \in Nat |-> IF i < counter THEN Held(streams[i]) ELSE 0])[counter]

\* A stream's recipient kept, by withdrawing before an extension, more than
\* its cancellation counted as vested.
Clawback(id) ==
  IF streams[id].status = "Cancelled" THEN paid[id] - streams[id].withdrawn ELSE 0

\* A stream to the contract's own address pays the contract itself.
Stranded(id) == IF streams[id].recipient = Contract THEN paid[id] ELSE 0

\* The contract's token balance is what its active streams hold, plus what it
\* paid to itself, minus the clawbacks nobody paid for.
BalanceAccounted ==
  balance[Contract] =
    SumTo([i \in Nat |-> IF i < counter
                         THEN Held(streams[i]) + Stranded(i) - Clawback(i)
                         ELSE 0])[counter]

\* README, Invariants: "the contract never holds less than the sum of its
\* active streams' balances".  Not so when a stream is extended after a
\* withdrawal and then cancelled.
Solvent == Escrow <= balance[Contract]

\* total_supply falls short of the escrow by exactly what batches brought in,
\* for as long as that cannot have saturated the i128.
SupplyAccounted ==
  untracked <= I128MAX => total_supply + untracked = Escrow

-----------------------------------------------------------------------------
(* Action properties                                                       *)

\* create_stream and top_up keep the escrow they track within the cap in
\* force, whatever the cap was when earlier streams were opened.
CapBoundsTrackedEscrow ==
  [][Escrow' > Escrow /\ untracked' = untracked
       => Escrow' - untracked <= supply_cap]_vars

\* No stream is opened that is already fully vested.
NewStreamsNotVested ==
  [][\A id \in DOMAIN streams' \ DOMAIN streams :
       vested(streams'[id], timestamp') < streams'[id].total]_vars

\* Once a stream is Cancelled or Completed no more of its tokens move, even
\* when a Completed stream is cancelled.
SettledStreamsMoveNothing ==
  [][\A id \in DOMAIN streams :
       streams[id].status # "Active"
         => paid'[id] = paid[id] /\ refunded'[id] = refunded[id]]_vars

\* What a recipient can withdraw never shrinks while the stream is active,
\* unless it is paid out or the sender extends the window: not by time, by a
\* top-up, or by anything that happens to other streams.
ClaimKept ==
  [][\A id \in DOMAIN streams :
       /\ streams'[id].status = "Active"
       /\ streams'[id].end = streams[id].end
       /\ paid'[id] = paid[id]
       => withdrawable(streams[id], timestamp)
            <= withdrawable(streams'[id], timestamp')]_vars

-----------------------------------------------------------------------------
(* The abstract specification                                              *)

\* The record and the transfers of a stream, seen as an escrow.
PhaseOf(s) == IF s.status = "Active" THEN "open" ELSE "settled"

EscrowView(id) ==
  [phase |-> PhaseOf(streams[id]), deposited |-> streams[id].total,
   released |-> paid[id], returned |-> refunded[id]]

EscrowsView == [id \in DOMAIN streams |-> EscrowView(id)]

Ledger == INSTANCE Escrow WITH
  escrows <- EscrowsView, MaxDeposit <- I128MAX, MaxEscrows <- MaxStreams

\* Every stream is an escrow that is settled once: a call deposits into,
\* releases from or splits one open escrow or opens new ones, whatever the
\* clock, the cap, the supply counter and the other streams do; a withdrawal
\* never leaves an empty escrow open, and cancelling a Completed stream is
\* not a second settlement.
StreamsAreEscrows == Ledger!Spec

-----------------------------------------------------------------------------
(* Liveness                                                                *)

\* A recipient who keeps withdrawing sees the stream settled, unless the
\* contract stays short of the tokens to pay it: rounding leaves no dust and
\* an overflow in the middle of the window resolves at its end.
StreamsSettle ==
  \A id \in 0..(MaxStreams - 1) :
    []<>(id \in DOMAIN streams =>
           \/ streams[id].status # "Active"
           \/ streams[id].recipient = Contract
           \/ balance[Contract] < withdrawable(streams[id], timestamp))
=============================================================================
