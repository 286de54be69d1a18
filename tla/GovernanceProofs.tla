-------------------------- MODULE GovernanceProofs --------------------------
(***************************************************************************)
(* Theorems of module Governance: for any accounts, delay and clock.       *)
(***************************************************************************)
EXTENDS Governance, TLAPS

Inv == TypeOK /\ PendingIsAnnounced

LEMMA InvInit == Init => Inv
<1> SUFFICES ASSUME Init PROVE Inv
  OBVIOUS
<1>1. timestamp \in 0..U64MAX
  BY GovernanceAssumption DEF Init
<1>2. TypeOK
  BY <1>1 DEF Init, TypeOK
<1> QED
  BY <1>2 DEF Init, Inv, PendingIsAnnounced

LEMMA ScheduleStep ==
  ASSUME Inv, NEW caller \in Accounts, NEW new_admin \in Addresses,
         schedule_admin_transfer(caller, new_admin)
  PROVE  Inv'
<1> DEFINE event == [by |-> caller, to |-> new_admin, at |-> timestamp]
<1>1. /\ has_admin
      /\ timestamp + ADMIN_TIMELOCK_DELAY <= U64MAX
      /\ pending_admin' = new_admin
      /\ execute_after' = timestamp + ADMIN_TIMELOCK_DELAY
      /\ announced' = event
      /\ UNCHANGED <<admin, wasm, timestamp>>
  BY DEF schedule_admin_transfer, deadline_fits, deadline, write_pending_admin_action
<1>2. timestamp \in 0..U64MAX /\ execute_after' \in 0..U64MAX
  BY <1>1, GovernanceAssumption DEF Inv, TypeOK
<1>3. event \in Announcement /\ event.to = new_admin /\ event.at = timestamp
  BY <1>2 DEF Announcement
<1>4. event # None
  BY <1>3, GovernanceAssumption
<1> HIDE DEF event
<1>5. TypeOK'
  BY <1>1, <1>2, <1>3 DEF Inv, TypeOK
<1>6. PendingIsAnnounced'
  BY <1>1, <1>2, <1>3, <1>4 DEF PendingIsAnnounced, has_admin
<1> QED
  BY <1>5, <1>6 DEF Inv

LEMMA ClearStep ==
  ASSUME Inv, clear_pending_admin_action, announced' = None,
         admin' \in Addresses \cup {None}, UNCHANGED <<wasm, timestamp>>
  PROVE  Inv'
  BY DEF Inv, TypeOK, PendingIsAnnounced, clear_pending_admin_action

\* A step that leaves the pending transfer alone.
LEMMA PendingKept ==
  ASSUME Inv, admin' \in Addresses, wasm' \in Hashes,
         timestamp' \in 0..U64MAX, timestamp <= timestamp',
         UNCHANGED <<pending_admin, execute_after, announced>>
  PROVE  Inv'
<1>1. TypeOK'
  BY DEF Inv, TypeOK
<1>2. has_admin'
  BY GovernanceAssumption DEF has_admin
<1>3. announced # None => announced.at <= timestamp'
  <2>1. announced # None => announced.at \in 0..U64MAX /\ announced.at <= timestamp
    BY DEF Inv, TypeOK, PendingIsAnnounced, Announcement
  <2>2. timestamp \in 0..U64MAX
    BY DEF Inv, TypeOK
  <2> QED
    BY <2>1, <2>2, GovernanceAssumption
<1>4. PendingIsAnnounced'
  BY <1>2, <1>3 DEF Inv, PendingIsAnnounced
<1> QED
  BY <1>1, <1>4 DEF Inv

LEMMA InvStep == Inv /\ [Next]_vars => Inv'
<1> SUFFICES ASSUME Inv, [Next]_vars PROVE Inv'
  OBVIOUS
<1>0. /\ timestamp \in 0..U64MAX /\ timestamp \in Nat /\ U64MAX \in Nat
      /\ admin \in Addresses \cup {None} /\ wasm \in Hashes
      /\ timestamp <= timestamp
  BY GovernanceAssumption DEF Inv, TypeOK
<1>1. ASSUME NEW new_admin \in Addresses, initialize(new_admin) PROVE Inv'
  BY <1>0, <1>1, PendingKept DEF initialize
<1>2. ASSUME NEW caller \in Accounts, NEW new_admin \in Addresses,
             schedule_admin_transfer(caller, new_admin)
      PROVE  Inv'
  BY <1>2, ScheduleStep
<1>3. CASE execute_admin_transfer
  BY <1>3, ClearStep DEF execute_admin_transfer, Inv, TypeOK
<1>4. ASSUME NEW caller \in Accounts, cancel_admin_transfer(caller) PROVE Inv'
  BY <1>0, <1>4, ClearStep DEF cancel_admin_transfer
<1>5. ASSUME NEW caller \in Accounts, NEW new_admin \in Addresses,
             set_admin(caller, new_admin)
      PROVE  Inv'
  BY <1>0, <1>5, PendingKept DEF set_admin
<1>6. ASSUME NEW caller \in Accounts, NEW new_wasm_hash \in Hashes,
             upgrade(caller, new_wasm_hash)
      PROVE  Inv'
  <2>1. admin' \in Addresses
    BY <1>0, <1>6 DEF upgrade, has_admin
  <2> QED
    BY <1>0, <1>6, <2>1, PendingKept DEF upgrade
<1>7. CASE close_ledger
  <2>1. timestamp' \in 0..U64MAX /\ timestamp <= timestamp'
    BY <1>0, <1>7 DEF close_ledger
  <2>2. CASE admin = None
    BY <1>0, <1>7, <2>1, <2>2 DEF close_ledger, Inv, TypeOK, PendingIsAnnounced, has_admin
  <2>3. CASE admin # None
    BY <1>0, <1>7, <2>1, <2>3, PendingKept DEF close_ledger
  <2> QED
    BY <2>2, <2>3
<1>8. CASE UNCHANGED vars
  BY <1>8 DEF vars, Inv, TypeOK, PendingIsAnnounced, has_admin
<1> QED
  BY <1>1, <1>2, <1>3, <1>4, <1>5, <1>6, <1>7, <1>8 DEF Next

\* The invariant the other theorems rest on, after any sequence of calls.
THEOREM Invariance == Spec => []Inv
  BY InvInit, InvStep, PTL DEF Spec

\* Every entry keeps its type: no scheduled deadline leaves the u64.
THEOREM TypeCorrect == Spec => []TypeOK
<1>1. Inv => TypeOK
  BY DEF Inv
<1> QED
  BY <1>1, Invariance, PTL

\* The getters always announce the transfer that stands, with a deadline a full
\* delay after it was scheduled.
THEOREM PendingStaysAnnounced == Spec => []PendingIsAnnounced
<1>1. Inv => PendingIsAnnounced
  BY DEF Inv
<1> QED
  BY <1>1, Invariance, PTL

\* What one step may do to the admin.
AdminStep ==
  \/ admin' = admin
  \/ admin = None
  \/ \E caller \in Accounts : set_admin(caller, admin')
  \/ /\ announced # None /\ announced' = None
     /\ announced.to = admin'
     /\ timestamp - announced.at >= ADMIN_TIMELOCK_DELAY

LEMMA ExecuteWaits ==
  ASSUME Inv, execute_admin_transfer
  PROVE  AdminStep
<1>1. /\ pending_admin # None /\ timestamp >= execute_after
      /\ admin' = pending_admin /\ announced' = None
  BY DEF execute_admin_transfer, timelock_expired
<1>2. /\ announced # None /\ announced.to = pending_admin
      /\ execute_after = announced.at + ADMIN_TIMELOCK_DELAY
  BY <1>1 DEF Inv, PendingIsAnnounced
<1>3. announced.at \in Int /\ timestamp \in Int /\ ADMIN_TIMELOCK_DELAY \in Int
  BY <1>2, GovernanceAssumption DEF Inv, TypeOK, Announcement
<1>4. timestamp - announced.at >= ADMIN_TIMELOCK_DELAY
  BY <1>1, <1>2, <1>3
<1> QED
  BY <1>1, <1>2, <1>4 DEF AdminStep

LEMMA AdminStepOfNext == Inv /\ [Next]_vars => [AdminStep]_vars
<1> SUFFICES ASSUME Inv, [Next]_vars PROVE [AdminStep]_vars
  OBVIOUS
<1>1. CASE execute_admin_transfer
  BY <1>1, ExecuteWaits
<1>2. CASE UNCHANGED vars
  BY <1>2
<1>3. ASSUME NEW new_admin \in Addresses, initialize(new_admin) PROVE AdminStep
  BY <1>3 DEF initialize, has_admin, AdminStep
<1>4. ASSUME NEW caller \in Accounts, NEW new_admin \in Addresses,
             set_admin(caller, new_admin)
      PROVE  AdminStep
  <2>1. admin' = new_admin
    BY <1>4 DEF set_admin
  <2>2. set_admin(caller, admin')
    BY <1>4, <2>1
  <2> QED
    BY <2>2 DEF AdminStep
<1>5. ASSUME \/ \E caller \in Accounts, new_admin \in Addresses :
                  schedule_admin_transfer(caller, new_admin)
             \/ \E caller \in Accounts : cancel_admin_transfer(caller)
             \/ \E caller \in Accounts, new_wasm_hash \in Hashes :
                  upgrade(caller, new_wasm_hash)
             \/ close_ledger
      PROVE  AdminStep
  BY <1>5 DEF schedule_admin_transfer, cancel_admin_transfer, upgrade, close_ledger,
              AdminStep
<1> QED
  BY <1>1, <1>2, <1>3, <1>4, <1>5 DEF Next

\* Nobody becomes admin by executing a transfer that was not announced, to that
\* admin, a full delay before.
THEOREM TransfersAlwaysWait == Spec => TransfersWaitDelay
<1>1. Spec => [][AdminStep]_vars
  BY Invariance, AdminStepOfNext, PTL DEF Spec
<1>2. TransfersWaitDelay <=> [][AdminStep]_vars
  BY DEF TransfersWaitDelay, AdminStep
<1> QED
  BY <1>1, <1>2
=============================================================================
