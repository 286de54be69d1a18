----------------------------- MODULE Governance -----------------------------
(***************************************************************************)
(* The administration of StreamPayContract (src/lib.rs): the one-time      *)
(* initialization, the immediate and the timelocked hand-over of the admin *)
(* role and the upgrade of the contract's code, with the instance entries  *)
(* of src/storage.rs they keep.                                            *)
(*                                                                         *)
(* One action is one successful invocation; every early return is a        *)
(* conjunct of its guard.  The parameter caller is the account that signs. *)
(***************************************************************************)
EXTENDS Integers

CONSTANTS
  Accounts,              \* addresses that can authorize a call
  Addresses,             \* addresses that can be named as admin
  Hashes,                \* Wasm builds of this source that can be installed
  None,                  \* an absent instance entry
  ADMIN_TIMELOCK_DELAY,  \* seconds between scheduling and execution
  U64MAX                 \* the largest u64: timestamps

\* An admin_scheduled event, with the time it was emitted.
Announcement == [by: Accounts, to: Addresses, at: 0..U64MAX]

ASSUME GovernanceAssumption ==
  /\ Accounts \subseteq Addresses
  /\ None \notin Addresses \cup Announcement
  /\ None \notin Int
  /\ ADMIN_TIMELOCK_DELAY \in Nat \ {0}
  /\ U64MAX \in Nat \ {0}

VARIABLES
  admin,          \* DataKey::Admin
  pending_admin,  \* DataKey::PendingAdmin
  execute_after,  \* DataKey::AdminActionExecuteAfter
  wasm,           \* the code installed
  timestamp,      \* env.ledger().timestamp()
  \* History: the admin_scheduled event of the transfer that stands.
  announced

vars == <<admin, pending_admin, execute_after, wasm, timestamp, announced>>

has_admin == admin # None

Init ==
  /\ admin = None
  /\ pending_admin = None
  /\ execute_after = None
  /\ wasm \in Hashes
  /\ timestamp = 1
  /\ announced = None

\* Anyone may be first to initialize: nothing is signed.
initialize(new_admin) ==
  /\ ~has_admin
  /\ admin' = new_admin
  /\ UNCHANGED <<pending_admin, execute_after, wasm, timestamp, announced>>

-----------------------------------------------------------------------------
(* The timelocked hand-over                                                *)

\* Slips of the deadline: unchecked_add, and a replaced transfer that keeps
\* the deadline of the one it replaces.
deadline_fits_always(now) == TRUE
deadline_kept(now) ==
  IF execute_after = None THEN now + ADMIN_TIMELOCK_DELAY ELSE execute_after

\* timestamp.checked_add(ADMIN_TIMELOCK_DELAY)
deadline(now) == now + ADMIN_TIMELOCK_DELAY

deadline_fits(now) == now + ADMIN_TIMELOCK_DELAY <= U64MAX

\* Slips of the timelock: the deadline itself excluded, and one second early.
expired_after(time) == timestamp > time
expired_early(time) == timestamp + 1 >= time

timelock_expired(time) == timestamp >= time

write_pending_admin_action(new_admin, time) ==
  pending_admin' = new_admin /\ execute_after' = time

clear_pending_admin_action == pending_admin' = None /\ execute_after' = None

schedule_admin_transfer(caller, new_admin) ==
  /\ has_admin
  /\ caller = admin
  /\ new_admin # admin
  /\ deadline_fits(timestamp)
  /\ write_pending_admin_action(new_admin, deadline(timestamp))
  /\ announced' = [by |-> caller, to |-> new_admin, at |-> timestamp]
  /\ UNCHANGED <<admin, wasm, timestamp>>

execute_admin_transfer ==
  /\ has_admin
  /\ pending_admin # None
  /\ execute_after # None
  /\ timelock_expired(execute_after)
  /\ admin' = pending_admin
  /\ clear_pending_admin_action
  /\ announced' = None
  /\ UNCHANGED <<wasm, timestamp>>

cancel_admin_transfer(caller) ==
  /\ has_admin
  /\ caller = admin
  /\ pending_admin # None
  /\ clear_pending_admin_action
  /\ announced' = None
  /\ UNCHANGED <<admin, wasm, timestamp>>

-----------------------------------------------------------------------------
(* What the admin does at once                                             *)

\* A scheduled transfer is left standing.
set_admin(caller, new_admin) ==
  /\ has_admin
  /\ caller = admin
  /\ admin' = new_admin
  /\ UNCHANGED <<pending_admin, execute_after, wasm, timestamp, announced>>

upgrade(caller, new_wasm_hash) ==
  /\ has_admin
  /\ caller = admin
  /\ wasm' = new_wasm_hash
  /\ UNCHANGED <<admin, pending_admin, execute_after, timestamp, announced>>

\* A ledger closes and its clock advances.
close_ledger ==
  /\ timestamp < U64MAX
  /\ timestamp' = timestamp + 1
  /\ UNCHANGED <<admin, pending_admin, execute_after, wasm, announced>>

Next ==
  \/ \E new_admin \in Addresses : initialize(new_admin)
  \/ \E caller \in Accounts, new_admin \in Addresses :
       schedule_admin_transfer(caller, new_admin)
  \/ execute_admin_transfer
  \/ \E caller \in Accounts : cancel_admin_transfer(caller)
  \/ \E caller \in Accounts, new_admin \in Addresses : set_admin(caller, new_admin)
  \/ \E caller \in Accounts, new_wasm_hash \in Hashes : upgrade(caller, new_wasm_hash)
  \/ close_ledger

Spec == Init /\ [][Next]_vars

\* Ledgers keep closing and somebody, anybody, keeps calling
\* execute_admin_transfer, which needs no authorization.
FairSpec == Spec /\ WF_vars(close_ledger) /\ WF_vars(execute_admin_transfer)

-----------------------------------------------------------------------------
(* Properties                                                              *)

\* Every entry has its type; a deadline is a u64.
TypeOK ==
  /\ admin \in Addresses \cup {None}
  /\ pending_admin \in Addresses \cup {None}
  /\ execute_after \in (0..U64MAX) \cup {None}
  /\ wasm \in Hashes
  /\ timestamp \in 0..U64MAX
  /\ announced \in Announcement \cup {None}

\* The getters tell a watcher the truth: get_pending_admin and
\* get_admin_action_execute_after answer together, for the transfer announced
\* last, with a deadline a full delay after its announcement - a replaced
\* transfer starts over - and nothing is left of a cancelled or executed one.
PendingIsAnnounced ==
  IF announced = None
  THEN pending_admin = None /\ execute_after = None
  ELSE /\ has_admin
       /\ pending_admin = announced.to
       /\ execute_after = announced.at + ADMIN_TIMELOCK_DELAY
       /\ announced.at <= timestamp

\* Without set_admin no one becomes admin who was not announced a full delay
\* before, by whoever was admin then; and every announcement is carried out at
\* most once.
TransfersWaitDelay ==
  [][\/ admin' = admin
     \/ admin = None
     \/ \E caller \in Accounts : set_admin(caller, admin')
     \/ /\ announced # None /\ announced' = None
        /\ announced.to = admin'
        /\ timestamp - announced.at >= ADMIN_TIMELOCK_DELAY]_vars

\* An announced transfer that is neither replaced nor cancelled is carried
\* out, whatever becomes of the admin who announced it.
TransfersCarriedOut ==
  \A to \in Addresses, at \in 0..U64MAX :
    []<>(announced = None \/ announced.to # to \/ announced.at # at)

\* README: "The administrator cannot be changed immediately."  Every change
\* of the admin was scheduled, and waited for, the full delay.
AdminNotChangedImmediately ==
  [][\/ admin' = admin
     \/ admin = None
     \/ /\ pending_admin = admin'
        /\ timestamp >= execute_after]_vars
=============================================================================
