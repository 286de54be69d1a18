------------------------------- MODULE Archival -------------------------------
(***************************************************************************)
(* The lifetime of StreamPay's storage entries: which calls extend the     *)
(* time-to-live of which entry (src/storage.rs and the extend_instance     *)
(* calls of src/lib.rs), entries the network archives, and the restore     *)
(* operation that brings them back.                                        *)
(*                                                                         *)
(* Of a stream only its status is kept, because it decides which calls     *)
(* succeed.  Every call loads the contract's instance entry and every call *)
(* on a stream loads that stream's entry; the host refuses a call when an  *)
(* entry it loads is archived.  Views extend nothing and are left out.     *)
(***************************************************************************)
EXTENDS Integers

CONSTANTS
  BUMP_THRESHOLD,  \* an entry with more ledgers left than this is not extended
  BUMP_EXTEND,     \* ledgers left after an extension
  Instance,        \* key of the instance entry; a stream's key is its id
  MinTTLs,         \* ledgers the network may give a new or restored entry
  MaxStreams       \* bound of the model: streams created

ASSUME ArchivalAssumption ==
  /\ BUMP_THRESHOLD \in Nat
  /\ BUMP_EXTEND \in Nat
  /\ BUMP_THRESHOLD < BUMP_EXTEND
  /\ Instance \notin Nat
  /\ MinTTLs \subseteq Nat \ {0}
  /\ MaxStreams \in Nat

VARIABLES
  initialized,  \* initialize has succeeded
  counter,      \* streams created
  status,       \* status of each stream
  ttl,          \* ledgers each entry has left, or Archived
  \* History variables.  Both stop counting one ledger after BUMP_EXTEND.
  idle,         \* ledgers since a call that is to keep an entry alive
  rented        \* ledgers since an entry's lifetime was last extended

vars == <<initialized, counter, status, ttl, idle, rented>>

Archived == -1
Live(key) == ttl[key] # Archived
ArchivedKeys == {key \in DOMAIN ttl : ~Live(key)}

AGE_CAP == BUMP_EXTEND + 1
Older(age) == IF age < AGE_CAP THEN age + 1 ELSE age

-----------------------------------------------------------------------------
(* The host's extend_ttl                                                   *)

extends_always(left) == TRUE
extends_below(left) == left < BUMP_THRESHOLD

\* extend_ttl(BUMP_THRESHOLD, BUMP_EXTEND) only acts near the end of the
\* entry's life.
extends(left) == left <= BUMP_THRESHOLD

\* A call extends the entries in keys, those it creates with min_ttl ledgers.
extend_ttl(keys, min_ttl) ==
  LET entries   == DOMAIN ttl \cup keys
      left(key) == IF key \in DOMAIN ttl THEN ttl[key] ELSE min_ttl - 1
      extended  == {key \in keys : extends(left(key))}
  IN  /\ ttl' = [key \in entries |->
           IF key \in extended THEN BUMP_EXTEND ELSE left(key)]
      /\ rented' = [key \in entries |->
           IF key \in extended THEN 0
           ELSE IF key \in DOMAIN ttl THEN rented[key] ELSE AGE_CAP]

\* History of a call that the entries in keys are to outlive.
Touched(keys) ==
  idle' = [key \in DOMAIN ttl \cup keys |-> IF key \in keys THEN 0 ELSE idle[key]]

-----------------------------------------------------------------------------
(* The calls, by the entries they load and extend                          *)

\* The deployed contract, before initialize.
Init ==
  /\ initialized = FALSE
  /\ counter = 0
  /\ status = [id \in {} |-> "Active"]
  /\ \E min_ttl \in MinTTLs : ttl = [key \in {Instance} |-> min_ttl - 1]
  /\ idle = [key \in {Instance} |-> AGE_CAP]
  /\ rented = [key \in {Instance} |-> AGE_CAP]

initialize ==
  /\ Live(Instance)
  /\ ~initialized
  /\ initialized' = TRUE
  /\ extend_ttl({Instance}, 1)
  /\ Touched({Instance})
  /\ UNCHANGED <<counter, status>>

\* The entries a call that opens or changes streams extends.
entries_only(ids) == ids
entries_and_instance(ids) == ids \cup {Instance}

new_ids_inclusive(count) == counter..(counter + count)
new_ids(count) == counter..(counter + count - 1)

\* create_stream, or create_stream_batch with several requests.
create(count) ==
  /\ Live(Instance)
  /\ initialized
  /\ counter + count <= MaxStreams
  /\ \E min_ttl \in MinTTLs :
       extend_ttl(entries_and_instance(new_ids(count)), min_ttl)
  /\ Touched(new_ids(count) \cup {Instance})
  /\ counter' = counter + count
  /\ status' = [id \in DOMAIN status \cup new_ids(count) |->
                  IF id \in DOMAIN status THEN status[id] ELSE "Active"]
  /\ UNCHANGED initialized

\* top_up and extend_stream.
change(id) ==
  /\ Live(Instance) /\ Live(id)
  /\ status[id] = "Active"
  /\ extend_ttl(entries_and_instance({id}), 1)
  /\ Touched({id, Instance})
  /\ UNCHANGED <<initialized, counter, status>>

drained_kept(id, last) == status[id]
\* The status a withdrawal leaves; the last one takes all that was left.
drained(id, last) == IF last THEN "Completed" ELSE status[id]

\* withdraw and cancel write the instance's total supply, but extend only the
\* stream's entry.
withdraw(id, last) ==
  /\ Live(Instance) /\ Live(id)
  /\ status[id] = "Active"
  /\ status' = [status EXCEPT ![id] = drained(id, last)]
  /\ extend_ttl({id}, 1)
  /\ Touched({id})
  /\ UNCHANGED <<initialized, counter>>

cancel(id) ==
  /\ Live(Instance) /\ Live(id)
  /\ status[id] # "Cancelled"
  /\ status' = [status EXCEPT ![id] = "Cancelled"]
  /\ extend_ttl({id}, 1)
  /\ Touched({id})
  /\ UNCHANGED <<initialized, counter>>

\* set_supply_cap, set_admin, upgrade and the three calls of the timelock.
administer ==
  /\ Live(Instance)
  /\ initialized
  /\ extend_ttl({Instance}, 1)
  /\ Touched({Instance})
  /\ UNCHANGED <<initialized, counter, status>>

-----------------------------------------------------------------------------
(* The network                                                             *)

\* RestoreFootprint on archived entries; anyone may submit it.
restore(keys) ==
  /\ keys # {} /\ keys \subseteq ArchivedKeys
  /\ \E min_ttl \in MinTTLs :
       ttl' = [key \in DOMAIN ttl |-> IF key \in keys THEN min_ttl - 1 ELSE ttl[key]]
  /\ UNCHANGED <<initialized, counter, status, idle, rented>>

\* A ledger closes: every entry has one ledger less to live, and is archived
\* when it had none left.
close_ledger ==
  /\ ttl' = [key \in DOMAIN ttl |-> IF Live(key) THEN ttl[key] - 1 ELSE Archived]
  /\ idle' = [key \in DOMAIN ttl |-> Older(idle[key])]
  /\ rented' = [key \in DOMAIN ttl |-> Older(rented[key])]
  /\ UNCHANGED <<initialized, counter, status>>

Next ==
  \/ initialize
  \/ \E count \in 1..MaxStreams : create(count)
  \/ \E id \in DOMAIN status : change(id)
  \/ \E id \in DOMAIN status, last \in BOOLEAN : withdraw(id, last)
  \/ \E id \in DOMAIN status : cancel(id)
  \/ administer
  \/ \E keys \in SUBSET ArchivedKeys : restore(keys)
  \/ close_ledger

Spec == Init /\ [][Next]_vars

\* A recipient restores what their withdrawal needs, in one operation, and
\* keeps trying the withdrawal that drains the stream: it may be archived
\* again before they get to it, hence strong fairness.
Fairness ==
  \A id \in 0..(MaxStreams - 1) :
    /\ WF_vars(id \in DOMAIN status /\ restore({Instance, id} \cap ArchivedKeys))
    /\ SF_vars(id \in DOMAIN status /\ withdraw(id, TRUE))

FairSpec == Spec /\ Fairness

-----------------------------------------------------------------------------
(* Properties                                                              *)

Statuses == {"Active", "Cancelled", "Completed"}

TypeOK ==
  /\ initialized \in BOOLEAN
  /\ counter \in 0..MaxStreams
  /\ status \in [0..(counter - 1) -> Statuses]
  /\ DOMAIN ttl = {Instance} \cup 0..(counter - 1)
  /\ ttl \in [DOMAIN ttl -> Nat \cup {Archived}]
  /\ idle \in [DOMAIN ttl -> 0..AGE_CAP]
  /\ rented \in [DOMAIN ttl -> 0..AGE_CAP]

\* A stream's entry survives BUMP_THRESHOLD ledgers, and one more, after any
\* call on the stream, and the instance after any call but withdraw and
\* cancel, whatever lifetime the network gave the entry and whether or not
\* the host acted on the extension.  That is all the code guarantees: not
\* BUMP_EXTEND ledgers, and nothing for the instance of a contract that is
\* only paid out of.
RecentlyUsedLive ==
  \A key \in DOMAIN ttl : idle[key] <= BUMP_THRESHOLD + 1 => Live(key)

\* Rent for the same entry is not paid again before BUMP_EXTEND less
\* BUMP_THRESHOLD ledgers have passed, however often it is written.
RentPaidRarely ==
  [][\A key \in DOMAIN ttl :
       Live(key) /\ ttl'[key] > ttl[key]
         => rented[key] >= BUMP_EXTEND - BUMP_THRESHOLD]_vars

\* README, Storage TTL: "Any entry accessed at least once a month is
\* guaranteed to stay alive", the month being BUMP_EXTEND ledgers.  Not so:
\* a call made while more than BUMP_THRESHOLD ledgers are left extends
\* nothing.
MonthlyAccessKeepsAlive ==
  \A id \in DOMAIN status : idle[id] < BUMP_EXTEND => Live(id)

\* Archival delays a stream but does not strand it: although payouts never
\* extend the instance they need, a recipient who restores and withdraws gets
\* the stream settled.
ArchivedStreamsSettle ==
  \A id \in 0..(MaxStreams - 1) :
    []<>(id \in DOMAIN status => status[id] # "Active")
=============================================================================
