------------------------------ MODULE Invocation ------------------------------
(***************************************************************************)
(* One contract invocation, statement by statement (src/lib.rs): the       *)
(* checks in the order that decides which Error a caller gets, then the    *)
(* token transfers, storage writes and events in the order of the code.    *)
(* The host works on a copy of the ledger.  It keeps the copy, and the     *)
(* events, when the entrypoint returns Ok; it drops both when the          *)
(* entrypoint returns an Err or a statement traps, as a transfer does to   *)
(* an account that cannot receive the token.                               *)
(*                                                                         *)
(* The variables of module Streams are the committed ledger.  That module  *)
(* takes an invocation for one step; AtomicInvocations says that it may.   *)
(* The admin's signature is module Governance's, the time to live of       *)
(* entries module Archival's.                                              *)
(***************************************************************************)
EXTENDS Streams
LOCAL INSTANCE FiniteSetsExt

VARIABLES
  book,     \* what an indexer has made of the events of the ledger
  working,  \* the running invocation's copy of the ledger and the book
  pc,       \* the statement it executes next; 0 when none runs
  call,     \* the call that runs, or ran last
  outcome,  \* what it returned
  earlier   \* what the call before it returned, if it was the same one

ledger == <<initialized, streams, counter, total_supply, supply_cap, balance,
            paid, refunded, untracked, book>>

invocation_vars == <<ledger, timestamp, working, pc, call, outcome, earlier>>

Errors ==
  {"AlreadyInitialized", "NotInitialized", "StreamNotFound", "InvalidAmount",
   "InvalidTimeRange", "Unauthorized", "Overflow", "AlreadyCancelled",
   "NothingToWithdraw", "AlreadyCompleted", "EndTimeInPast",
   "AmountBelowMinimum", "StreamNotActive", "SupplyCapExceeded", "EmptyBatch"}

-----------------------------------------------------------------------------
(* The events (src/events.rs), and an indexer that sees nothing else       *)

Publish(event) == [do |-> "publish", event |-> event]

UNKNOWN == -1  \* created does not tell the window

stream_created(id, s) ==
  Publish([topic |-> "created", id |-> id, sender |-> s.sender,
           recipient |-> s.recipient, total |-> s.total])

stream_withdrawn(id, recipient, amount) ==
  Publish([topic |-> "withdrawn", id |-> id, recipient |-> recipient, amount |-> amount])

stream_topped_up(id, sender, amount, new_total) ==
  Publish([topic |-> "toppedup", id |-> id, sender |-> sender, amount |-> amount,
           new_total |-> new_total])

stream_extended(id, sender, old_end, new_end) ==
  Publish([topic |-> "extended", id |-> id, sender |-> sender, old_end |-> old_end,
           new_end |-> new_end])

stream_cancelled_net(id, caller, sender_refund, recipient_paid) ==
  Publish([topic |-> "cancelled", id |-> id, caller |-> caller,
           sender_refund |-> sender_refund,
           recipient_paid |-> IF recipient_paid > 0 THEN recipient_paid ELSE 0])
stream_cancelled(id, caller, sender_refund, recipient_paid) ==
  Publish([topic |-> "cancelled", id |-> id, caller |-> caller,
           sender_refund |-> sender_refund, recipient_paid |-> recipient_paid])

supply_cap_updated(old_cap, new_cap) ==
  Publish([topic |-> "capadmin", old_cap |-> old_cap, new_cap |-> new_cap])

Put(f, id, value) == [i \in DOMAIN f \cup {id} |-> IF i = id THEN value ELSE f[i]]

NewEntry(e) ==
  [sender |-> e.sender, recipient |-> e.recipient, deposited |-> e.total,
   total |-> e.total, end |-> UNKNOWN, taken |-> 0, returned |-> 0, phase |-> "open"]

\* What one event adds to the indexer's book.
Learn(b, e) ==
  LET Entry(record) == [b EXCEPT !.streams = Put(@, e.id, record)]
      old == b.streams[e.id]
  IN  CASE e.topic = "created" -> Entry(NewEntry(e))
        [] e.topic = "toppedup" ->
             Entry([old EXCEPT !.deposited = @ + e.amount, !.total = e.new_total])
        [] e.topic = "extended" -> Entry([old EXCEPT !.end = e.new_end])
        [] e.topic = "withdrawn" -> Entry([old EXCEPT !.taken = @ + e.amount])
        [] e.topic = "cancelled" ->
             Entry([old EXCEPT !.taken = @ + e.recipient_paid,
                               !.returned = @ + e.sender_refund,
                               !.phase = "cancelled"])
        [] e.topic = "capadmin" ->
             [b EXCEPT !.cap = IF @ = e.old_cap THEN e.new_cap ELSE UNKNOWN]

-----------------------------------------------------------------------------
(* The entrypoints: their checks, then their statements, in code order     *)

\* The error of a check, if it fails.
require(condition, error) == IF condition THEN "Ok" ELSE error

\* The error of the first check that fails.
first_error(checks) ==
  LET failed == {i \in DOMAIN checks : checks[i] # "Ok"}
  IN  IF failed = {} THEN "Ok" ELSE checks[Min(failed)]

StoreStream(id, s) == [do |-> "write_stream", id |-> id, stream |-> s]
Return == [do |-> "return"]

\* read_stream(id), or any record at all when there is none to read.
Found(env, id) == id \in DOMAIN env.streams
read_stream(env, id) ==
  IF Found(env, id) THEN env.streams[id]
  ELSE [sender |-> Contract, recipient |-> Contract, total |-> 1, withdrawn |-> 0,
        start |-> 0, end |-> 1, status |-> "Active"]

initialize_code(env) ==
  [checks |-> << require(~env.initialized, "AlreadyInitialized") >>,
   statements |-> << [do |-> "write_instance"], Return >>]

amount_error(amount) ==
  first_error(<< require(is_valid_amount(amount), "InvalidAmount"),
                 require(amount >= MIN_STREAM_AMOUNT, "AmountBelowMinimum") >>)

window_error(env, start, end) ==
  first_error(<< require(end > start, "InvalidTimeRange"),
                 require(end > env.timestamp, "EndTimeInPast") >>)

supply_error(env, amount) ==
  first_error(<< require(env.total_supply + amount <= I128MAX, "Overflow"),
                 require(env.total_supply + amount <= env.supply_cap, "SupplyCapExceeded") >>)

create_stream_code(env, sender, request) ==
  LET start  == normalize_start_time(env.timestamp, request.start_time)
      amount == request.total_amount
      s      == NewStream(sender, request, start)
  IN  [checks |->
         << require(env.initialized, "NotInitialized"),
            amount_error(amount),
            window_error(env, start, request.end_time),
            supply_error(env, amount) >>,
       statements |->
         << [do |-> "escrow", from |-> sender, amount |-> amount, untracked |-> 0],
            [do |-> "checked_add_counter"],
            StoreStream(env.counter, s),
            [do |-> "write_counter", next |-> env.counter + 1],
            [do |-> "write_total_supply", supply |-> env.total_supply + amount],
            stream_created(env.counter, s),
            Return >>]

\* Statements 2 * i and 2 * i + 1 open the stream of request i.
create_stream_batch_code(env, sender, requests) ==
  LET count  == Len(requests)
      sum(i) == aggregate_amount(SubSeq(requests, 1, i))
      s(i)   == NewStream(sender, requests[i], requests[i].start_time)
  IN  [checks |-> [k \in 1..(count + 3) |->
         CASE k = 1 -> require(env.initialized, "NotInitialized")
           [] k = 2 -> require(count > 0, "EmptyBatch")
           [] k \in 3..(count + 2) ->
                first_error(<< amount_error(requests[k - 2].total_amount),
                               window_error(env, requests[k - 2].start_time,
                                            requests[k - 2].end_time),
                               require(sum(k - 2) <= I128MAX, "Overflow") >>)
           [] k = count + 3 -> require(env.counter + count <= U64MAX, "Overflow")],
       statements |-> [k \in 1..(2 * count + 3) |->
         CASE k = 1 -> [do |-> "escrow", from |-> sender, amount |-> sum(count),
                        untracked |-> sum(count)]
           [] k \in 2..(2 * count + 1) /\ k % 2 = 0 ->
                StoreStream(env.counter + k \div 2 - 1, s(k \div 2))
           [] k \in 2..(2 * count + 1) /\ k % 2 = 1 ->
                stream_created(env.counter + k \div 2 - 1, s(k \div 2))
           [] k = 2 * count + 2 -> [do |-> "write_counter", next |-> env.counter + count]
           [] k = 2 * count + 3 -> Return]]

top_up_code(env, id, sender, amount) ==
  LET s         == read_stream(env, id)
      new_total == s.total + amount
  IN  [checks |->
         << require(is_valid_amount(amount), "InvalidAmount"),
            require(Found(env, id), "StreamNotFound"),
            require(sender = s.sender, "Unauthorized"),
            require(s.status = "Active", "StreamNotActive"),
            require(new_total <= I128MAX, "Overflow"),
            supply_error(env, amount) >>,
       statements |->
         << [do |-> "escrow", from |-> sender, amount |-> amount, untracked |-> 0],
            StoreStream(id, [s EXCEPT !.total = new_total]),
            [do |-> "write_total_supply", supply |-> env.total_supply + amount],
            stream_topped_up(id, sender, amount, new_total),
            Return >>]

not_later(new_end, s) == new_end < s.end
within_window(new_end, s) == new_end <= s.end

extend_stream_code(env, id, sender, new_end) ==
  LET s == read_stream(env, id)
  IN  [checks |->
         << require(Found(env, id), "StreamNotFound"),
            require(sender = s.sender, "Unauthorized"),
            require(s.status = "Active", "StreamNotActive"),
            require(~within_window(new_end, s), "InvalidTimeRange") >>,
       statements |->
         << StoreStream(id, [s EXCEPT !.end = new_end]),
            stream_extended(id, sender, s.end, new_end),
            Return >>]

withdraw_code(env, id, recipient) ==
  LET s         == read_stream(env, id)
      available == withdrawable(s, env.timestamp)
      withdrawn == s.withdrawn + available
  IN  [checks |->
         << require(Found(env, id), "StreamNotFound"),
            require(recipient = s.recipient, "Unauthorized"),
            require(s.status # "Cancelled", "AlreadyCancelled"),
            require(s.status # "Completed", "AlreadyCompleted"),
            require(~vesting_overflows(s, env.timestamp), "Overflow"),
            require(available > 0, "NothingToWithdraw") >>,
       statements |->
         << StoreStream(id, [s EXCEPT
              !.withdrawn = withdrawn,
              !.status = IF completes(s, withdrawn) THEN "Completed" ELSE @]),
            [do |-> "pay", id |-> id, to |-> recipient, amount |-> available],
            [do |-> "reduce_total_supply", amount |-> available],
            stream_withdrawn(id, recipient, available),
            Return >>]

cancel_code(env, id, caller) ==
  LET s              == read_stream(env, id)
      recipient_paid == vested(s, env.timestamp) - s.withdrawn
      sender_refund  == unvested(s, env.timestamp)
  IN  [checks |->
         << require(Found(env, id), "StreamNotFound"),
            require(caller \in {s.sender, s.recipient}, "Unauthorized"),
            require(s.status # "Cancelled", "AlreadyCancelled"),
            require(~vesting_overflows(s, env.timestamp), "Overflow") >>,
       statements |->
         << StoreStream(id, [s EXCEPT !.withdrawn = vested(s, env.timestamp),
                                      !.status = "Cancelled"]),
            [do |-> "pay", id |-> id, to |-> s.recipient, amount |-> recipient_paid],
            [do |-> "refund", id |-> id, to |-> s.sender, amount |-> sender_refund],
            [do |-> "reduce_total_supply", amount |-> recipient_paid + sender_refund],
            stream_cancelled(id, caller, sender_refund, recipient_paid),
            Return >>]

set_supply_cap_code(env, new_cap) ==
  [checks |->
     << require(env.initialized, "NotInitialized"),
        require(new_cap > 0, "InvalidAmount") >>,
   statements |->
     << [do |-> "write_supply_cap", cap |-> new_cap],
        supply_cap_updated(env.supply_cap, new_cap),
        Return >>]

code(env, c) ==
  CASE c.op = "initialize" -> initialize_code(env)
    [] c.op = "create_stream" -> create_stream_code(env, c.by, c.request)
    [] c.op = "create_stream_batch" -> create_stream_batch_code(env, c.by, c.requests)
    [] c.op = "top_up" -> top_up_code(env, c.id, c.by, c.amount)
    [] c.op = "extend_stream" -> extend_stream_code(env, c.id, c.by, c.new_end)
    [] c.op = "withdraw" -> withdraw_code(env, c.id, c.by)
    [] c.op = "cancel" -> cancel_code(env, c.id, c.by)
    [] c.op = "set_supply_cap" -> set_supply_cap_code(env, c.cap)

-----------------------------------------------------------------------------
(* The host                                                                *)

NoCall == [op |-> "none"]

\* The ledger and the book an invocation starts from.
Env ==
  [initialized |-> initialized, streams |-> streams, counter |-> counter,
   total_supply |-> total_supply, supply_cap |-> supply_cap, balance |-> balance,
   paid |-> paid, refunded |-> refunded, untracked |-> untracked, book |-> book,
   timestamp |-> timestamp]

commit(l) ==
  /\ initialized' = l.initialized /\ streams' = l.streams /\ counter' = l.counter
  /\ total_supply' = l.total_supply /\ supply_cap' = l.supply_cap
  /\ balance' = l.balance /\ paid' = l.paid /\ refunded' = l.refunded
  /\ untracked' = l.untracked /\ book' = l.book

InvocationInit ==
  /\ Init
  /\ book = [streams |-> [i \in {} |-> 0], cap |-> DEFAULT_SUPPLY_CAP]
  /\ working = Env
  /\ pc = 0 /\ call = NoCall /\ outcome = "none" /\ earlier = "none"

Idle == pc = 0
Failed == outcome \in Errors \cup {"trap"}

\* A caller submits c; its checks pass and it has statements to execute, or
\* it returns an Err.
invoke(c) ==
  LET error == first_error(code(Env, c).checks)
  IN  /\ Idle /\ ~Failed
      /\ call' = c
      /\ earlier' = IF c = call THEN outcome ELSE "none"
      /\ outcome' = IF error = "Ok" THEN "running" ELSE error
      /\ pc' = IF error = "Ok" THEN 1 ELSE 0
      /\ UNCHANGED <<ledger, timestamp, working>>

after_failure_kept == working

\* The ledger an invocation that did not return Ok leaves.
after_failure == Env

\* An Err or a trap: the host drops what the invocation did.
fail(error) ==
  /\ commit(after_failure)
  /\ working' = after_failure
  /\ pc' = 0
  /\ outcome' = error
  /\ UNCHANGED <<timestamp, call, earlier>>

\* Any statement may trap: no trustline, a frozen account, the budget spent.
trap == ~Idle /\ fail("trap")

\* The caller has read that the call failed.
noted ==
  /\ Failed
  /\ call' = NoCall /\ outcome' = "none" /\ earlier' = "none"
  /\ UNCHANGED <<ledger, timestamp, working, pc>>

next_ledger ==
  /\ Idle /\ ~Failed
  /\ close_ledger
  /\ outcome' = IF outcome = "Ok" THEN "Ok, in an earlier ledger" ELSE "none"
  /\ UNCHANGED <<book, pc, call, earlier>>
  /\ working' = Env'

-----------------------------------------------------------------------------
(* What a statement does                                                   *)

statement == code(Env, call).statements[pc]

\* The running invocation changes its copy and goes on.
proceed(new) ==
  /\ working' = new
  /\ pc' = pc + 1
  /\ UNCHANGED <<ledger, timestamp, call, outcome, earlier>>

\* The token contract refuses a transfer the sender has no tokens for.  The
\* payouts are skipped unless their amount is positive.
affordable_always(from, amount) == TRUE
affordable(from, amount) == amount > 0 => CanPay(working.balance, from, amount)

Transferred(amount) == IF amount > 0 THEN amount ELSE 0

escrow(t) ==
  /\ affordable(t.from, t.amount)
  /\ proceed([working EXCEPT
       !.balance = Transfer(@, t.from, Contract, t.amount),
       !.untracked = @ + t.untracked])

pay(t) ==
  /\ affordable(Contract, t.amount)
  /\ proceed([working EXCEPT !.balance = PayOut(@, t.to, t.amount),
                             !.paid = Plus(@, t.id, Transferred(t.amount))])

refund(t) ==
  /\ affordable(Contract, t.amount)
  /\ proceed([working EXCEPT !.balance = PayOut(@, t.to, t.amount),
                             !.refunded = Plus(@, t.id, Transferred(t.amount))])

\* write_stream, over an old record or as a new one nothing was paid out for.
WithEntry(history, id) ==
  Put(history, id, IF id \in DOMAIN history THEN history[id] ELSE 0)

store_stream(t) ==
  proceed([working EXCEPT !.streams = Put(@, t.id, t.stream),
                          !.paid = WithEntry(@, t.id),
                          !.refunded = WithEntry(@, t.id)])

\* id.checked_add(1) in create_stream comes after the transfer.
checked_add_counter(t) ==
  IF working.counter + 1 > U64MAX THEN fail("Overflow") ELSE proceed(working)

write_counter(t) == proceed([working EXCEPT !.counter = t.next])

write_total_supply(t) == proceed([working EXCEPT !.total_supply = t.supply])

not_reduced(supply, amount) == supply
reduced(supply, amount) == IF supply - amount < I128MIN THEN 0 ELSE supply - amount

reduce_total_supply(t) ==
  proceed([working EXCEPT !.total_supply = reduced(@, t.amount)])

write_supply_cap(t) == proceed([working EXCEPT !.supply_cap = t.cap])

write_instance(t) ==
  proceed([working EXCEPT !.initialized = TRUE, !.counter = 0, !.total_supply = 0,
                          !.supply_cap = DEFAULT_SUPPLY_CAP])

publish(t) == proceed([working EXCEPT !.book = Learn(@, t.event)])

\* The entrypoint returns Ok.
return(t) ==
  /\ commit(working)
  /\ pc' = 0
  /\ outcome' = "Ok"
  /\ UNCHANGED <<timestamp, working, call, earlier>>

execute(t) ==
  \/ t.do = "escrow" /\ escrow(t)
  \/ t.do = "pay" /\ pay(t)
  \/ t.do = "refund" /\ refund(t)
  \/ t.do = "write_stream" /\ store_stream(t)
  \/ t.do = "checked_add_counter" /\ checked_add_counter(t)
  \/ t.do = "write_counter" /\ write_counter(t)
  \/ t.do = "write_total_supply" /\ write_total_supply(t)
  \/ t.do = "reduce_total_supply" /\ reduce_total_supply(t)
  \/ t.do = "write_supply_cap" /\ write_supply_cap(t)
  \/ t.do = "write_instance" /\ write_instance(t)
  \/ t.do = "publish" /\ publish(t)
  \/ t.do = "return" /\ return(t)

-----------------------------------------------------------------------------

\* The streams there are, and one there is not.
Ids == 0..counter

Entrypoint ==
  \/ invoke([op |-> "initialize"])
  \/ \E sender \in Accounts, request \in Requests :
       /\ counter < MaxStreams
       /\ invoke([op |-> "create_stream", by |-> sender, request |-> request])
  \/ \E sender \in Accounts, requests \in Batches :
       /\ counter + Len(requests) <= MaxStreams
       /\ invoke([op |-> "create_stream_batch", by |-> sender, requests |-> requests])
  \/ \E id \in Ids, sender \in Accounts, amount \in Amounts :
       invoke([op |-> "top_up", by |-> sender, id |-> id, amount |-> amount])
  \/ \E id \in Ids, sender \in Accounts, new_end \in 0..U64MAX :
       invoke([op |-> "extend_stream", by |-> sender, id |-> id, new_end |-> new_end])
  \/ \E id \in Ids, recipient \in Accounts :
       invoke([op |-> "withdraw", by |-> recipient, id |-> id])
  \/ \E id \in Ids, caller \in Accounts :
       invoke([op |-> "cancel", by |-> caller, id |-> id])
  \/ \E new_cap \in Caps : invoke([op |-> "set_supply_cap", cap |-> new_cap])

InvocationNext ==
  Entrypoint \/ (~Idle /\ execute(statement)) \/ trap \/ noted \/ next_ledger

InvocationSpec == InvocationInit /\ [][InvocationNext]_invocation_vars

-----------------------------------------------------------------------------
(* Properties                                                              *)

\* The ledger has the types of module Streams, and so has what changes in the
\* running invocation's copy, between any two statements; an invocation that
\* is not running leaves nothing behind.
InvocationTypeOK ==
  /\ TypeOK
  /\ working.balance \in [Addresses -> Nat]
  /\ working.total_supply \in I128MIN..I128MAX
  /\ \A id \in DOMAIN working.streams : working.streams[id] \in Stream
  /\ DOMAIN working.paid = DOMAIN working.streams
  /\ outcome \in Errors \cup {"none", "running", "trap", "Ok", "Ok, in an earlier ledger"}
  /\ outcome = "running" <=> ~Idle
  /\ Idle => working = Env

\* Whatever statement an invocation traps at, and although create_stream can
\* return an Err after its transfer, the ledger only ever changes by whole
\* invocations, the ones module Streams allows: a cancel that pays its
\* recipient and cannot refund its sender has neither paid nor cancelled.
AtomicInvocations == Spec

StatusInBook(b) ==
  IF b.phase = "cancelled" THEN "Cancelled"
  ELSE IF b.taken = b.total THEN "Completed" ELSE "Active"

\* An indexer that follows the events alone knows every stream the ledger
\* holds, what it still pays and to whom, and the cap: no event comes from a
\* call that was rolled back, none is missing, a Completed status and the
\* negative recipient_paid of a cancel after an extension included.
EventsTellTheLedger ==
  /\ DOMAIN book.streams = DOMAIN streams
  /\ book.cap = supply_cap
  /\ \A id \in DOMAIN book.streams :
       LET b == book.streams[id]
           s == streams[id]
       IN  /\ <<b.sender, b.recipient>> = <<s.sender, s.recipient>>
           /\ b.total = s.total /\ b.deposited = s.total
           /\ b.end \in {UNKNOWN, s.end}
           /\ b.taken = s.withdrawn
           /\ b.returned = refunded[id]
           /\ StatusInBook(b) = s.status

\* What a caller may conclude from an Err about the tokens themselves.
Justified(c, error) ==
  LET s == streams[c.id]
  IN  /\ error = "StreamNotFound" => c.id >= counter
      /\ error = "AlreadyCompleted" => paid[c.id] = s.total
      /\ error = "AlreadyCancelled" => paid[c.id] + refunded[c.id] >= s.total
      /\ error = "NothingToWithdraw" => paid[c.id] >= vested(s, timestamp)
      /\ error = "Overflow" /\ c.op \in {"withdraw", "cancel"} =>
           s.start < timestamp /\ timestamp < s.end
      /\ error = "SupplyCapExceeded" =>
           LET amount == IF c.op = "top_up" THEN c.amount ELSE c.request.total_amount
           IN  Escrow + amount > supply_cap

\* An Err is no false alarm: a recipient is told that a stream is settled or
\* has nothing to withdraw only when the tokens were really transferred, an
\* overflow only blocks a payout inside the window, and the cap refuses only
\* what would really put the escrow above it.
RefusalsJustified ==
  [][outcome' \in Errors => Justified(call', outcome')]_<<call, outcome, pc>>

\* Calls that have the same effect once or twice: at any later time, or
\* within the same ledger only.
Once == {"initialize", "extend_stream", "cancel"}
OncePerLedger == Once \cup {"withdraw"}

\* A caller that does not learn the answer can resubmit: a withdrawal in the
\* same ledger, an extension, a cancellation and initialize at any time, are
\* never executed twice.  create_stream and top_up are, and escrow twice.
RetriesRefused ==
  [][outcome' = "Ok" =>
       /\ earlier = "Ok" => call.op \notin OncePerLedger
       /\ earlier = "Ok, in an earlier ledger" => call.op \notin Once]_outcome
=============================================================================
