# StreamPay in TLA+

A verification project for StreamPay, the Soroban payment-streaming contract in
`src/`: TLA+ modules translated from the Rust sources, TLC configurations that
check them on small instances, and theorems about them that TLAPS checks for
every value of the constants. Paths below are relative to the repository's
parent (`src/src/lib.rs` is the contract).

## The system

StreamPay is one contract. Users call its entrypoints; the Soroban host runs an
invocation atomically (one that returns an `Err` or panics is rolled back) and
invocations of one contract one after the other. Concurrency is therefore the
order in which senders, recipients, the admin and the ledger clock take their
turns; there are no callbacks, the token contract being the only callee.

| Component | State it keeps | Operations | Talks to |
|---|---|---|---|
| Vesting arithmetic (`vesting.rs`, `normalize.rs`, `constants.rs`) | none | `vested`, `unvested`, `withdrawable`, `elapsed`, `progress_bps`, `normalize_start_time`, `clamp_to_window`, `is_valid_amount`, and the getters of `lib.rs` built on them | called by Streams |
| Streams and escrow (`lib.rs`, `storage.rs`, `types.rs`) | stream records, counter, `total_supply`, `supply_cap` | `create_stream`, `create_stream_batch`, `top_up`, `extend_stream`, `withdraw`, `cancel`, `set_supply_cap`, `initialize` | token contract (`transfer`), ledger clock, admin (for the cap) |
| Governance (`lib.rs`, `storage.rs`) | admin, pending admin, its deadline, the installed code | `initialize`, `schedule_admin_transfer`, `execute_admin_transfer`, `cancel_admin_transfer`, `set_admin`, `upgrade` | ledger clock |
| Storage (`storage.rs`) | instance and persistent entries, each with a time-to-live | accessors with defaults, `extend_ttl` | host |
| Events (`events.rs`) | none in the contract; what an indexer rebuilds | one publication per successful mutation | indexers |
| Errors (`error.rs`) | none | the error of the first check that fails | callers |
| Token contract and host (external) | balances, clock | `transfer`, `require_auth`, rollback | - |
| Scripts (`scripts/`), tests | none | - | - |

What is hard, and the properties that make each component correct:

* **Arithmetic.** Floor division, three-way case splits written twice
  (`vested` and `clamp_to_window`), an overflow that exists only inside the
  window. Correct: the exact floored share, monotone in time and total,
  antitone in the end, all views in agreement.
* **Streams.** Every stream is paid out of one token balance and counted in one
  `total_supply`, each kept by hand in six entrypoints, while rate and end of a
  stream change under a partly withdrawn balance. Correct: record, transfers,
  balance, tracked supply and cap stay related; a claim shrinks only when it is
  paid or the sender extends; a settled stream moves nothing; a recipient who
  keeps withdrawing is eventually paid.
* **Governance.** A deadline that must start over when a transfer is replaced,
  an execution anyone may trigger, an immediate `set_admin` beside it. Correct:
  what the getters say is what was announced; nobody takes over by the timelock
  early; an announced transfer is carried out unless replaced or cancelled.
* **Storage lifetime.** Every call needs the instance entry, but payouts extend
  only the stream's; the host ignores an extension asked for too early. Correct:
  what was used within the threshold is live, rent is not paid on every call,
  and archival delays a payout but does not prevent it.
* **One invocation.** Transfers, writes and events one after the other, any of
  which may fail, and an `Err` that can still follow a transfer. Correct: the
  ledger changes by whole invocations only, the events tell what happened, an
  `Err` is no false alarm, and a call resubmitted because its answer was lost is
  not executed twice (where the code can tell).

## The modules

| Module | What it is |
|---|---|
| `Vesting` | the arithmetic as operators on a stream record and a time; checked arithmetic is a predicate that says when it fails and the value otherwise |
| `MCVesting` | drives it over every small stream while a clock runs through the window |
| `Sums` | sums of the first n values of a function, as a recursive function |
| `Streams` | the streams, the token ledger and the clock: one action per entrypoint |
| `Escrow` | what a payment stream promises its two parties, without arithmetic, clock, balance, cap or supply; `Streams` implements it |
| `MCStreams` | accounts, funds, requests and batches for TLC |
| `MCClaims` | statements of the documentation the code does not keep |
| `Governance` | admin role, timelock, upgrade |
| `Invocation` | the stream entrypoints statement by statement, with errors, rollback, events and an indexer; implements `Streams` |
| `MCInvocation` | accounts, funds, requests and batches for it |
| `Archival` | time-to-live of the instance and stream entries, archival, restore |
| `ArithmeticProofs` | lemmas about the arithmetic and about sums |
| `StreamsProofs` | invariant of `Streams` about records and payouts |
| `AccountingProofs` | invariant of `Streams` about balance and supply, and solvency |
| `StreamsActionProofs` | action properties of `Streams`, and that it implements `Escrow` |
| `InvocationProofs` | that `Invocation` implements `Streams`, and all its properties |
| `MCVestingProofs` | properties of `MCVesting` for every bound |
| `GovernanceProofs` | invariant and action property of `Governance` |
| `ArchivalProofs` | invariant and action property of `Archival` |

How state and actions correspond to the code:

* In `Streams`, `Governance` and `Archival` an action is a **successful**
  invocation. Its guard holds the negation of every early return, overflow check
  and failing transfer; its primed variables are the storage writes. An
  unsuccessful one is rolled back, so it has no action; `Invocation` is the
  module that has them. `require_auth(a)` is the quantification over `Accounts`, the addresses
  that can sign; the contract's own address can be named as a recipient or an
  admin but cannot sign.
* `streams` is `DataKey::Stream(id)` as a function on the stored ids; `counter`,
  `total_supply`, `supply_cap`, `admin`, `pending_admin` and `execute_after` are
  the instance entries; `initialized` is `has_admin`. An absent entry has the
  default its accessor gives it, or `None`.
* `balance` is the token contract (external): `transfer` fails when the balance
  is too small. A payout to oneself leaves the balance unchanged.
* `timestamp` advances in `close_ledger`; any number of invocations share a
  timestamp.
* History variables record what the code does not store: `paid` and `refunded`
  (the tokens transferred for each stream), `untracked` (the tokens batches
  escrowed without counting them), `announced` (the `admin_scheduled` event of
  the transfer that stands). No action's guard reads them.
* `EscrowsView` in `Streams` is the refinement mapping to `Escrow`: a stream is
  `open` while Active and `settled` otherwise; what was released and returned are
  the token transfers (`paid`, `refunded`), not the record's `withdrawn`, which a
  cancellation after an extension lowers (README.md:195, "`withdrawn` only ever
  increases", does not hold then).
* `Invocation` extends `Streams`, whose variables are the **committed** ledger.
  `working` is the host's copy of it, which a statement changes; `pc` numbers the
  statement that is next (0: nothing runs). `code(env, c)` is what call `c` does
  when it starts from the ledger `env`: a list of checks, each with its error,
  and a list of statements. Both are computed from the committed ledger, which
  stays what it was until the end, as the code loads the stream and computes the
  amounts before its first write. `return` commits the copy, `fail` drops it.
  `trap` may strike before any statement and stands for whatever the host or the
  token can refuse: a missing trustline, a frozen account, a budget, a
  signature. `AtomicInvocations` is the specification of `Streams` itself. The
  indexer (`book`, `Learn`) is external: it uses what each event carries and
  nothing else, so it does not know a stream's window until an `extended` event,
  since `created` does not carry it. `earlier` is what the call before the
  present one returned, if it was the same call.
* In `Archival` a `ttl` is the number of ledgers an entry has left, or
  `Archived`; `close_ledger` takes one from every entry. `extends` is the host's
  threshold test. `idle` and `rented` are history. Of a stream only the status is
  kept; `withdraw(id, last)` leaves open whether it is the last withdrawal.
* Definitions named after a slip (`vested_by_rate`, `deadline_kept`, ...) are
  not used by the specifications: they are plausible bugs, each of which some
  property is shown to catch.

## What is checked

| Run | Question | Result |
|---|---|---|
| `vesting` (`MCVesting`) | Is the arithmetic exact, and does it move the right way under time, extension and top-up? | holds |
| `streams` (`MCStreams`) | Do records, transfers, balance, supply and cap stay related under every interleaving? | holds |
| `streams_live` (`MCStreams`) | Does a recipient who keeps withdrawing see the stream settle? | holds |
| `governance` (`Governance`) | Do pending entries, deadline and hand-over agree with what was announced, and is it carried out? | holds |
| `invocation` (`MCInvocation`) | Is a stream entrypoint atomic, do its events and errors tell the truth, may it be resubmitted? | holds |
| `archival` (`Archival`) | Do used entries stay alive at rare cost, and do archived streams still settle? | holds |
| `claim_solvent` | README: the contract never holds less than its active streams need | violated: withdraw, extend, cancel |
| `claim_supply` | docs/invariants.md: `total_supply` is the sum of the active escrows | violated by `create_stream_batch` |
| `claim_terminal` | docs/invariants.md: a Completed stream accepts no `cancel` | violated: it becomes Cancelled, nothing is paid |
| `claim_sentinel` | normalize.rs: every entry point applies the same normalisation | violated by `create_stream_batch` |
| `claim_timelock` | README: the administrator cannot be changed immediately | violated by `set_admin` |
| `claim_ttl` | README: an entry accessed at least once a month stays alive | violated by an access above the threshold |

The properties of `streams` say what is true in place of the broken statements:
`BalanceAccounted` gives the contract's balance **exactly** - the escrow of its
active streams, plus tokens a stream to the contract's own address left in it,
minus the clawbacks of streams extended after a withdrawal and then cancelled -
and `SupplyAccounted` gives `total_supply` exactly, short of the escrow by what
batches brought in. The shortfall of `claim_solvent` has one cause: as long as
no stream is extended after a withdrawal the contract is solvent, which is the
theorem `SolventWithoutLateExtension`.

`StreamsAreEscrows` is the refinement. It says more than the invariants: a
stream does nothing but open, take deposits, release and, once, settle; one call
never touches two streams except to open them; a withdrawal that empties an
escrow closes it; cancelling a Completed stream is not a second settlement.

`invocation` closes the gap between an action and the code. `AtomicInvocations`
shows that the order of the statements is of no consequence to the ledger: a
`cancel` whose refund fails after its payout (no tokens left, or a party that
cannot receive) has done neither. So a party that cannot receive the token keeps
the other from cancelling; the contract has no way around that.
`EventsTellTheLedger` shows that `recipient_paid` of a `cancelled` event must be
read as a signed correction: after an extension it can be negative (events.rs
calls it an amount paid), and only then do the books agree with the record.
`RefusalsJustified` relates each `Err` to the tokens: `AlreadyCompleted` means
the total was transferred, `SupplyCapExceeded` that the real escrow would exceed
the cap. `RetriesRefused` holds for `withdraw`, `extend_stream`, `cancel` and
`initialize`; a resubmitted `create_stream`, `create_stream_batch` or `top_up`
escrows again, and nothing in the call could tell. Two remarks on
docs/initialization.md, met while writing the checks: before `initialize` the
entrypoints `top_up`, `extend_stream`, `withdraw` and `cancel` answer
`InvalidAmount` or `StreamNotFound`, not `NotInitialized`; and `withdraw` and
`cancel` write an instance key without extending the instance (also
docs/ttl-and-rent.md, "every write call bumps the instance TTL").

`archival` shows what the extensions do guarantee: `BUMP_THRESHOLD` ledgers
after the last use of a stream, or after the last use of the instance by a call
other than `withdraw` and `cancel` - not the month the README promises.

### Bounds, and why they are enough

* `vesting`: totals to 7, windows inside 0..6, times to 7; every combination of
  start, end, total and withdrawn amount. This holds all remainders of small
  divisions, empty prefixes and suffixes of the window and a time on each edge.
* `streams`: two accounts with 4 and 1 tokens, two streams, times 1 to 5,
  amounts to 3, i128 of 4 bits (-8..7), caps 0 and 3. Requests: a window from
  now, one in the future, one that starts late enough to be in the past when it
  opens, an empty one, a zero amount, one to the contract itself, one to
  oneself; batches: empty, of one with the sentinel start, of two. Two streams
  are the fewest for one to be paid with another's tokens. A total of 3 over two
  or three seconds leaves remainders; the cap of 3 is reached by two streams and
  by a stream and a top-up; with a batch and a window starting at 0 a product
  leaves the i128 range inside its window. 4-bit arithmetic, not 128: the code
  compares, adds, multiplies once and divides once, and the proofs cover every
  width.
* `streams_live`: the same with times to 4 and a 4-bit i128 cut to -6..5, so that
  an overflow inside the window happens more often.
* `invocation`: two accounts, three tokens, times to 3, a counter of 0..3, i128
  of -6..5. A batch of two streams, the first with the sentinel start, makes the
  negative payout, the overflow inside the window and the refund the contract
  cannot pay happen; cancelled streams return tokens for up to three streams and
  a fourth that overflows the counter after its transfer. Every stream
  entrypoint returns each of its errors in some state, but for
  `AmountBelowMinimum`, which the code cannot return. Wider interleavings are
  left to `streams`, the specification `AtomicInvocations` refers to.
* `archival`: a threshold of 1 and an extension to 3 ledgers, so that a call can
  come above, at and below the threshold and an entry can be archived, restored
  and archived again; minimum lifetimes shorter and longer than the extension;
  two streams, for the instance to be kept alive by one and missing for the
  other. `claim_ttl` needs an extension of 4 for the gap to show.
* `governance`: three accounts and the contract's own address, a delay of 3,
  times to 8, so that a transfer can be scheduled, replaced and executed and the
  last deadline that fits is reached; two code builds.
* `MaxStreams` bounds the streams created; `U64MAX` bounds time, where a ledger
  simply stops closing. The runs may stop there, so deadlock is not checked:
  nothing in the contract has to be able to move.

### Fairness

* `WF(close_ledger)`: ledgers keep closing; the network does this whatever the
  contract does.
* `WF(withdraw(id, recipient))` for every stream: a recipient who is owed
  something keeps asking. The contract never acts by itself, so this is the
  user's part, and the property promises nothing to one who does not. It needs
  only weak fairness; senders may top up, extend and cancel as they like.
  `StreamsSettle` excuses streams to the contract's own address, which nobody
  can withdraw, and a contract that lacks the tokens after a clawback. It also
  assumes the recipient can receive the token.
* In `Archival`, `WF(restore({Instance, id} \cap ArchivedKeys))`: a recipient restores what their
  withdrawal needs in one operation, as the network allows anyone to; and
  `SF(withdraw(id, TRUE))`: they keep trying, since an entry may be archived
  again before they get to it. The module keeps no times: that the last
  withdrawal is possible stands for the closed window, which `streams_live`
  reaches with its clock.
* `WF(execute_admin_transfer)`: somebody calls the permissionless execution once
  it is due. No fairness is assumed of the admin.

## What is proved

All constants are arbitrary under the assumptions named in the modules:
any accounts, funds, requests, batches, integer widths and delays.

* **`StreamsProofs`.** `Inv` is `TypeOK`, `StreamsWellFormed`,
  `PayoutsMatchRecord` and `NothingBeforeInitialize` (no stream exists before
  the contract is initialized: `initialize` resets the counter, and without this
  conjunct the step could leave records behind it). `Inv` is inductive: one
  lemma per action, each splitting on whether a stream is the one the action
  writes. They rest on `ArithmeticProofs`: `VestedBounds` (0 <= vested <= total),
  `VestedAtEnd`, `WithdrawableBounds`. Theorems: `TypeCorrect`,
  `StreamsStayWellFormed`, `PayoutsAgree`.
* **`AccountingProofs`.** Relative to `Inv`, the two sums are inductive for any
  number of streams. `ArithmeticProofs` shows that a sum over the stored ids changes by
  the change of the one summand an action writes (`SumUpdate`), is extended by
  new streams (`SumAppend`) and depends on its summands only (`SumSame`). The
  supply is read and written in the i128 range, so the saturating subtraction is
  harmless until batches brought in more than `I128MAX`; `SupplyAccounted` says
  exactly that; its companion `SupplyCovers` is the inequality that survives the
  saturation, and `SupplyWithinEscrow` the one in the other direction, which a
  refusal for the cap rests on: the supply never counts more than is escrowed.
  Theorems: `SupplyIsAccounted`, `BalanceIsAccounted`.
* **Solvency** (`AccountingProofs`). `AllEarned` says that no stream has paid
  more than it vested, or had vested when it was cancelled. It is preserved by
  every action but an `extend_stream` on a stream its recipient has withdrawn
  from; with `BalanceAccounted`, and since larger summands have the larger sum
  (`SumMono`), it bounds the escrow by the balance. Theorem:
  `Spec /\ [][NoLateExtension]_vars => []Solvent`.
* **`StreamsActionProofs`.** The four action properties, each from the
  invariants before and after a step: `SettledMoveNothing` needs that a
  Completed stream was drained after its end, so its cancellation has nothing to
  pay; `NothingOpensVested` that only the end of the window vests everything;
  `CapBoundsEscrow` that the supply the cap is compared with covers the escrow
  apart from the batches (`SupplyCovers`); `ClaimAlwaysKept` that vesting is
  monotone in time and total. `StreamsImplementEscrow` is the refinement: one
  lemma per action says which escrow step it is, from `Inv` (a cancellation of a
  Completed stream is a stutter because it was drained after its end).
* **`GovernanceProofs`.** `TypeOK` and `PendingIsAnnounced` are inductive
  together; the action property `TransfersWaitDelay` follows from the invariant
  before each step. Theorems: `TypeCorrect`, `PendingStaysAnnounced`,
  `TransfersAlwaysWait`.
* **`MCVestingProofs`** proves for every bound what `vesting` checks on small
  streams, from the lemmas of `ArithmeticProofs` about floor division: `AlwaysExact`,
  `AlwaysMonotone`, `ExtendingAlwaysSlows`, `TopUpAlwaysAddsAtMost`,
  `ViewsAlwaysAgree` (two shares of one window rounded down, `SharesAgree`) and
  `SummaryAlwaysConsistent`.
* **`ArchivalProofs`.** `Inv` adds to `TypeOK`, for every entry, that lifetime
  left and ledgers since the last use add up to more than the threshold
  (`OutlivesUse`), and that an entry extended less than
  `BUMP_EXTEND - BUMP_THRESHOLD` ledgers ago has exactly the rest of that
  extension left (`KeepsExtension`). `RecentlyUsedLive` follows from the first,
  `RentPaidRarely` from the second. Theorems: `TypeCorrect`,
  `UsedEntriesStayLive`, `RentIsRare`.
* **`InvocationProofs`** proves every property of `invocation`, for batches of
  any length and whatever an invocation fails at. The invariant `IInv` is `Inv`
  of `Streams` over the committed ledger, `Runs` and `Booked`. `Runs` says of
  the running call that its checks passed and that the copy is at a **stage** of
  its program: one predicate per entrypoint says what the copy holds before
  statement n (`CancelStage`: the record is written from statement 2 on, the
  recipient paid from 3 on, ...), in terms of the committed ledger, without
  which nothing could be said of a copy between two statements. The batch, whose
  program has any length, has a stage that counts the streams stored and
  announced. `Booked` relates an indexer's book to the ledger. The argument has
  three parts per entrypoint: its checks let through exactly what the guard of
  the action in `Streams` allows (the lemmas `...Passed`), each statement leads
  to the next stage or is dropped (`...Steps`), and the last stage is that
  action's effect (`...Returns`). `InvocationsAreAtomic` is the refinement that
  follows; with it the theorems about `Streams` hold of the statements, e.g.
  `LedgerIsAccounted` and `InvocationsImplementEscrow`.
  `EventsTell` is `Booked` without its strengthening.
  `InvocationTypesCorrect` types the copy stage by stage.
  `RefusalsAreJustified` needs of every entrypoint what its error says
  (`...Tells`), and from `Inv` and `Accounted` that this is so of the tokens.
  `RetriesAreRefused` rests on `Remembered`: a call that returned Ok has left
  something on the ledger that stays until the next call comes (a stream
  cancelled, a window at least that long, nothing left to withdraw in this
  ledger), and the checks of the same call refuse it where they find that.

Only model-checked: the three liveness properties (liveness under fairness, and
`ENABLED`, are outside what the prover does). The prover has no induction over
data with an operator parameter; the sums of `ArithmeticProofs` go through the
well-foundedness of `<` instead, and the batch's loop is a stage whose counter is
the program counter. The properties of the `claim_` runs are refuted, not proved.

## What is not modelled, and why

* **Fees, budgets, the Wasm VM.** The host's own. What they can refuse is the
  `trap` of `Invocation`; an upgrade installs another build of this same source.
* **Trustlines, in the liveness properties.** `streams_live` assumes that the
  recipient can receive the token.
* **Errors of the admin entrypoints.** Guards of `Governance`'s actions; the
  stream entrypoints' errors are in `Invocation`.
* **Payloads of `admin_transfer`, `admin_cancelled`, `admin_set`, `upgraded`.**
  They repeat the step that publishes them; `admin_scheduled` is modelled.
* **One clock for streams and governance.** The two share only the clock and the
  admin entry: no stream entrypoint but `set_supply_cap` reads the admin, and
  that one only for its signature. A composition would repeat both modules.
* **The token's address and `get_token`.** Written once, never changed.
* **`scripts/`.** Straight-line build tooling.
* **`has_stream`, `LimitError`, the reference checks of `constants.rs` that
  nothing calls.** Dead code. `AmountBelowMinimum` cannot be returned, since
  `is_valid_amount` tests the same floor first.

## Order of the work

1. `Vesting`, `Streams`, `Governance`: runs and proofs of every safety and action
   property, solvency under its condition.
2. `Escrow` and the proof that `Streams` implements it.
3. `Archival` and its proofs.
4. `Invocation`: errors, rollback, events, retries.
5. The proof that `Invocation` implements `Streams`, and of its other properties.

What could still be added: streams, governance and archival over one clock,
should a later version of the contract let them depend on each other.
