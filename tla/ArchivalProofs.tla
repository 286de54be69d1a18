---------------------------- MODULE ArchivalProofs ----------------------------
(***************************************************************************)
(* Theorems of module Archival, for every threshold, extension and network *)
(* lifetime.                                                               *)
(***************************************************************************)
EXTENDS Archival, TLAPS

\* An entry has outlived the threshold when its last use is that long ago.
OutlivesUse(key) == ttl[key] + idle[key] >= BUMP_THRESHOLD + 1

\* An entry extended a short while ago still has the rest of that extension.
KeepsExtension(key) ==
  \/ rented[key] >= BUMP_EXTEND - BUMP_THRESHOLD
  \/ ttl[key] = BUMP_EXTEND - rented[key]

\* The inductive invariant.
Inv ==
  /\ TypeOK
  /\ \A key \in DOMAIN ttl : OutlivesUse(key) /\ KeepsExtension(key)

-----------------------------------------------------------------------------
(* Types                                                                   *)

LEMMA Types ==
  ASSUME Inv
  PROVE  /\ counter \in Nat
         /\ DOMAIN status = 0..(counter - 1)
         /\ \A key \in DOMAIN ttl : /\ ttl[key] \in Nat \cup {Archived}
                                    /\ idle[key] \in 0..AGE_CAP
                                    /\ rented[key] \in 0..AGE_CAP
         /\ BUMP_THRESHOLD \in Nat /\ BUMP_EXTEND \in Nat
         /\ BUMP_THRESHOLD < BUMP_EXTEND /\ AGE_CAP = BUMP_EXTEND + 1
         /\ AGE_CAP \in Nat
<1>1. TypeOK /\ BUMP_THRESHOLD \in Nat /\ BUMP_EXTEND \in Nat
  BY ArchivalAssumption DEF Inv
<1> QED
  BY <1>1, ArchivalAssumption DEF TypeOK, AGE_CAP

\* The entries after a call that extends keys and is to keep used alive.
LEMMA CallEntries ==
  ASSUME Inv, NEW keys, NEW used, NEW min_ttl \in Nat \ {0},
         extend_ttl(keys, min_ttl), Touched(used), used \subseteq keys,
         keys \ DOMAIN ttl \subseteq used
  PROVE  /\ DOMAIN ttl' = DOMAIN ttl \cup keys
         /\ DOMAIN idle' = DOMAIN ttl' /\ DOMAIN rented' = DOMAIN ttl'
         /\ \A key \in DOMAIN ttl' :
              /\ ttl'[key] \in Nat \cup {Archived}
              /\ idle'[key] \in 0..AGE_CAP
              /\ rented'[key] \in 0..AGE_CAP
              /\ OutlivesUse(key)' /\ KeepsExtension(key)'
<1> DEFINE left(key) == IF key \in DOMAIN ttl THEN ttl[key] ELSE min_ttl - 1
           extended == {key \in keys : extends(left(key))}
           age(key) == IF key \in DOMAIN ttl THEN rented[key] ELSE AGE_CAP
<1>1. /\ ttl' = [key \in DOMAIN ttl \cup keys |->
                   IF key \in extended THEN BUMP_EXTEND ELSE left(key)]
      /\ rented' = [key \in DOMAIN ttl \cup keys |->
                      IF key \in extended THEN 0 ELSE age(key)]
  BY DEF extend_ttl
<1>2. idle' = [key \in DOMAIN ttl \cup used |-> IF key \in used THEN 0 ELSE idle[key]]
  BY DEF Touched
<1>3. DOMAIN ttl \cup used = DOMAIN ttl \cup keys
  OBVIOUS
<1>4. ASSUME NEW key \in DOMAIN ttl \cup keys
      PROVE  /\ ttl'[key] \in Nat \cup {Archived}
             /\ idle'[key] \in 0..AGE_CAP
             /\ rented'[key] \in 0..AGE_CAP
             /\ OutlivesUse(key)' /\ KeepsExtension(key)'
  <2>1. /\ left(key) \in Nat \cup {Archived} /\ age(key) \in 0..AGE_CAP
        /\ age(key) >= BUMP_EXTEND - BUMP_THRESHOLD \/ left(key) = BUMP_EXTEND - age(key)
    BY Types DEF Inv, KeepsExtension
  <2>2. /\ ttl'[key] = IF key \in extended THEN BUMP_EXTEND ELSE left(key)
        /\ rented'[key] = IF key \in extended THEN 0 ELSE age(key)
        /\ idle'[key] = IF key \in used THEN 0 ELSE idle[key]
    BY <1>1, <1>2, <1>3
  <2>3. key \in used => left(key) > BUMP_THRESHOLD \/ key \in extended
    BY <2>1, ArchivalAssumption DEF extends, Archived
  <2>4. key \notin used => /\ key \in DOMAIN ttl /\ left(key) = ttl[key]
                           /\ idle[key] \in 0..AGE_CAP
                           /\ ttl[key] + idle[key] >= BUMP_THRESHOLD + 1
    BY Types DEF Inv, OutlivesUse
  <2> HIDE DEF left, age, extended
  <2>5. /\ ttl'[key] \in Nat \cup {Archived}
        /\ idle'[key] \in 0..AGE_CAP
        /\ rented'[key] \in 0..AGE_CAP
    BY <2>1, <2>2, <2>4, Types
  <2>6. ttl'[key] + idle'[key] >= BUMP_THRESHOLD + 1
    BY <2>1, <2>2, <2>3, <2>4, Types DEF Archived
  <2>7. \/ rented'[key] >= BUMP_EXTEND - BUMP_THRESHOLD
        \/ ttl'[key] = BUMP_EXTEND - rented'[key]
    BY <2>1, <2>2, Types
  <2> QED
    BY <2>5, <2>6, <2>7 DEF OutlivesUse, KeepsExtension
<1> HIDE DEF left, age, extended
<1>5. /\ DOMAIN ttl' = DOMAIN ttl \cup keys
      /\ DOMAIN idle' = DOMAIN ttl' /\ DOMAIN rented' = DOMAIN ttl'
  BY <1>1, <1>2, <1>3
<1> QED
  BY <1>4, <1>5

\* The invariant after a call on the entries there are.
LEMMA CallKeepsInv ==
  ASSUME Inv, NEW keys \in SUBSET DOMAIN ttl, NEW used \in SUBSET keys,
         extend_ttl(keys, 1), Touched(used), counter' = counter,
         initialized' \in BOOLEAN, status' \in [0..(counter - 1) -> Statuses]
  PROVE  Inv'
<1>1. /\ DOMAIN ttl' = DOMAIN ttl
      /\ DOMAIN idle' = DOMAIN ttl' /\ DOMAIN rented' = DOMAIN ttl'
      /\ \A key \in DOMAIN ttl' :
           /\ ttl'[key] \in Nat \cup {Archived}
           /\ idle'[key] \in 0..AGE_CAP
           /\ rented'[key] \in 0..AGE_CAP
           /\ OutlivesUse(key)' /\ KeepsExtension(key)'
  <2> DEFINE min_ttl == 1
  <2>1. min_ttl \in Nat \ {0} /\ extend_ttl(keys, min_ttl)
    OBVIOUS
  <2> HIDE DEF min_ttl
  <2>2. used \subseteq keys /\ keys \ DOMAIN ttl \subseteq used /\ DOMAIN ttl \cup keys = DOMAIN ttl
    OBVIOUS
  <2> QED
    BY <2>1, <2>2, CallEntries
<1>2. ttl' = [key \in DOMAIN ttl \cup keys |-> ttl'[key]]
  BY DEF extend_ttl
<1>3. idle' = [key \in DOMAIN ttl \cup used |-> idle'[key]]
  BY DEF Touched
<1>4. rented' = [key \in DOMAIN ttl \cup keys |-> rented'[key]]
  BY DEF extend_ttl
<1>5. /\ ttl' \in [DOMAIN ttl' -> Nat \cup {Archived}]
      /\ idle' \in [DOMAIN ttl' -> 0..AGE_CAP]
      /\ rented' \in [DOMAIN ttl' -> 0..AGE_CAP]
  BY <1>1, <1>2, <1>3, <1>4
<1>6. TypeOK'
  BY <1>1, <1>5 DEF Inv, TypeOK, AGE_CAP
<1> QED
  BY <1>1, <1>6 DEF Inv

LEMMA CreateStep ==
  ASSUME Inv, NEW count \in 1..MaxStreams, create(count)
  PROVE  Inv'
<1> DEFINE ids == new_ids(count)
           keys == ids \cup {Instance}
<1>1. PICK min_ttl \in MinTTLs : extend_ttl(keys, min_ttl)
  BY DEF create, entries_and_instance
<1>2. /\ Touched(keys) /\ counter' = counter + count /\ UNCHANGED initialized
      /\ counter + count <= MaxStreams
      /\ status' = [id \in DOMAIN status \cup ids |->
                      IF id \in DOMAIN status THEN status[id] ELSE "Active"]
  BY DEF create
<1>3. /\ counter \in Nat /\ count \in Nat /\ DOMAIN status = 0..(counter - 1)
      /\ status \in [0..(counter - 1) -> Statuses]
      /\ DOMAIN ttl = {Instance} \cup 0..(counter - 1)
      /\ min_ttl \in Nat \ {0}
  BY Types, ArchivalAssumption DEF Inv, TypeOK
<1>4. DOMAIN status \cup ids = 0..(counter' - 1)
  BY <1>2, <1>3 DEF new_ids
<1> HIDE DEF ids
<1>5. status' \in [0..(counter' - 1) -> Statuses]
  BY <1>2, <1>3, <1>4 DEF Statuses
<1> HIDE DEF keys
<1>6. /\ DOMAIN ttl' = DOMAIN ttl \cup keys
      /\ DOMAIN idle' = DOMAIN ttl' /\ DOMAIN rented' = DOMAIN ttl'
      /\ \A key \in DOMAIN ttl' :
           /\ ttl'[key] \in Nat \cup {Archived}
           /\ idle'[key] \in 0..AGE_CAP
           /\ rented'[key] \in 0..AGE_CAP
           /\ OutlivesUse(key)' /\ KeepsExtension(key)'
  BY <1>1, <1>2, <1>3, CallEntries
<1>7. DOMAIN ttl' = {Instance} \cup 0..(counter' - 1)
  BY <1>3, <1>4, <1>6 DEF keys
<1>8. /\ ttl' = [key \in DOMAIN ttl \cup keys |-> ttl'[key]]
      /\ rented' = [key \in DOMAIN ttl \cup keys |-> rented'[key]]
  BY <1>1 DEF extend_ttl
<1>9. idle' = [key \in DOMAIN ttl \cup keys |-> idle'[key]]
  BY <1>2 DEF Touched
<1>10. /\ ttl' \in [DOMAIN ttl' -> Nat \cup {Archived}]
       /\ idle' \in [DOMAIN ttl' -> 0..AGE_CAP]
       /\ rented' \in [DOMAIN ttl' -> 0..AGE_CAP]
  BY <1>6, <1>8, <1>9
<1>11. initialized' \in BOOLEAN
  BY <1>2 DEF Inv, TypeOK
<1>12. counter' \in 0..MaxStreams
  BY <1>2, <1>3, ArchivalAssumption
<1>13. TypeOK'
  BY <1>5, <1>7, <1>10, <1>11, <1>12 DEF TypeOK, AGE_CAP
<1> QED
  BY <1>6, <1>13 DEF Inv

\* A restored entry was archived: nobody used it or paid for it lately.
LEMMA RestoreStep ==
  ASSUME Inv, NEW keys \in SUBSET ArchivedKeys, restore(keys)
  PROVE  Inv'
<1>1. PICK min_ttl \in MinTTLs :
        ttl' = [key \in DOMAIN ttl |-> IF key \in keys THEN min_ttl - 1 ELSE ttl[key]]
  BY DEF restore
<1>2. min_ttl \in Nat \ {0} /\ UNCHANGED <<initialized, counter, status, idle, rented>>
  BY ArchivalAssumption DEF restore
<1>3. ttl' \in [DOMAIN ttl -> Nat \cup {Archived}] /\ DOMAIN ttl' = DOMAIN ttl
  BY <1>1, <1>2 DEF Inv, TypeOK
<1>4. TypeOK'
  BY <1>2, <1>3 DEF Inv, TypeOK, AGE_CAP
<1>5. ASSUME NEW key \in DOMAIN ttl
      PROVE  OutlivesUse(key)' /\ KeepsExtension(key)'
  <2>1. /\ ttl[key] \in Nat \cup {Archived} /\ idle[key] \in Nat /\ rented[key] \in Nat
        /\ OutlivesUse(key) /\ KeepsExtension(key)
    BY Types DEF Inv
  <2>2. CASE key \in keys
    <3>1. ttl[key] = -1 /\ ttl'[key] = min_ttl - 1
      BY <1>1, <2>2 DEF ArchivedKeys, Live, Archived
    <3>2. BUMP_THRESHOLD \in Nat /\ BUMP_EXTEND \in Nat /\ BUMP_THRESHOLD < BUMP_EXTEND
      BY ArchivalAssumption
    <3> QED
      BY <1>2, <2>1, <3>1, <3>2 DEF OutlivesUse, KeepsExtension
  <2>3. CASE key \notin keys
    BY <1>1, <1>2, <2>1, <2>3 DEF OutlivesUse, KeepsExtension
  <2> QED
    BY <2>2, <2>3
<1> QED
  BY <1>3, <1>4, <1>5 DEF Inv

LEMMA CloseLedgerStep ==
  ASSUME Inv, close_ledger
  PROVE  Inv'
<1>1. /\ ttl' = [key \in DOMAIN ttl |-> IF Live(key) THEN ttl[key] - 1 ELSE Archived]
      /\ idle' = [key \in DOMAIN ttl |-> Older(idle[key])]
      /\ rented' = [key \in DOMAIN ttl |-> Older(rented[key])]
      /\ UNCHANGED <<initialized, counter, status>>
  BY DEF close_ledger
<1>2. ASSUME NEW key \in DOMAIN ttl
      PROVE  /\ ttl'[key] \in Nat \cup {Archived}
             /\ idle'[key] \in 0..AGE_CAP
             /\ rented'[key] \in 0..AGE_CAP
             /\ OutlivesUse(key)' /\ KeepsExtension(key)'
  <2>1. /\ ttl[key] \in Nat \cup {Archived} /\ idle[key] \in 0..AGE_CAP
        /\ rented[key] \in 0..AGE_CAP
        /\ ttl[key] + idle[key] >= BUMP_THRESHOLD + 1
        /\ \/ rented[key] >= BUMP_EXTEND - BUMP_THRESHOLD
           \/ ttl[key] = BUMP_EXTEND - rented[key]
    BY Types DEF Inv, OutlivesUse, KeepsExtension
  <2>2. /\ ttl'[key] = IF ttl[key] = -1 THEN -1 ELSE ttl[key] - 1
        /\ idle'[key] = IF idle[key] < AGE_CAP THEN idle[key] + 1 ELSE idle[key]
        /\ rented'[key] = IF rented[key] < AGE_CAP THEN rented[key] + 1 ELSE rented[key]
    BY <1>1 DEF Live, Archived, Older
  <2>6. /\ BUMP_THRESHOLD \in Nat /\ BUMP_EXTEND \in Nat
        /\ BUMP_THRESHOLD < BUMP_EXTEND /\ AGE_CAP = BUMP_EXTEND + 1
    BY Types
  <2>3. /\ ttl'[key] \in Nat \cup {Archived}
        /\ idle'[key] \in 0..AGE_CAP
        /\ rented'[key] \in 0..AGE_CAP
    BY <2>1, <2>2, <2>6 DEF Archived
  <2>4. ttl'[key] + idle'[key] >= BUMP_THRESHOLD + 1
    BY <2>1, <2>2, <2>6 DEF Archived
  <2>5. \/ rented'[key] >= BUMP_EXTEND - BUMP_THRESHOLD
        \/ ttl'[key] = BUMP_EXTEND - rented'[key]
    BY <2>1, <2>2, <2>6 DEF Archived
  <2> QED
    BY <2>3, <2>4, <2>5 DEF OutlivesUse, KeepsExtension
<1>3. /\ DOMAIN ttl' = DOMAIN ttl
      /\ ttl' \in [DOMAIN ttl' -> Nat \cup {Archived}]
      /\ idle' \in [DOMAIN ttl' -> 0..AGE_CAP]
      /\ rented' \in [DOMAIN ttl' -> 0..AGE_CAP]
  BY <1>1, <1>2
<1>4. TypeOK'
  BY <1>1, <1>3 DEF Inv, TypeOK, AGE_CAP
<1> QED
  BY <1>2, <1>3, <1>4 DEF Inv

LEMMA InvInit == Init => Inv
<1> SUFFICES ASSUME Init PROVE Inv
  OBVIOUS
<1>1. PICK min_ttl \in MinTTLs : ttl = [key \in {Instance} |-> min_ttl - 1]
  BY DEF Init
<1>2. /\ counter = 0 /\ initialized = FALSE /\ status = [id \in {} |-> "Active"]
      /\ idle = [key \in {Instance} |-> AGE_CAP]
      /\ rented = [key \in {Instance} |-> AGE_CAP]
  BY DEF Init
<1>3. /\ min_ttl \in Nat \ {0} /\ AGE_CAP = BUMP_EXTEND + 1 /\ MaxStreams \in Nat
      /\ BUMP_THRESHOLD \in Nat /\ BUMP_EXTEND \in Nat /\ BUMP_THRESHOLD < BUMP_EXTEND
  BY ArchivalAssumption DEF AGE_CAP
<1>4. {Instance} \cup 0..(counter - 1) = {Instance} /\ 0..(counter - 1) = {}
  BY <1>2
<1>5. TypeOK
  <2>1. status \in [0..(counter - 1) -> Statuses]
    BY <1>2, <1>4
  <2>2. DOMAIN ttl = {Instance} \cup 0..(counter - 1)
    BY <1>1, <1>4
  <2>3. ttl \in [DOMAIN ttl -> Nat \cup {Archived}]
    BY <1>1, <1>3
  <2>4. AGE_CAP \in 0..AGE_CAP
    BY <1>3
  <2>5. /\ idle \in [DOMAIN ttl -> 0..AGE_CAP]
        /\ rented \in [DOMAIN ttl -> 0..AGE_CAP]
    BY <1>1, <1>2, <2>4
  <2>6. initialized \in BOOLEAN
    BY <1>2
  <2>7. counter \in 0..MaxStreams
    BY <1>2, <1>3
  <2> QED
    BY <2>1, <2>2, <2>3, <2>5, <2>6, <2>7, Zenon DEF TypeOK
<1>6. OutlivesUse(Instance) /\ KeepsExtension(Instance)
  BY <1>1, <1>2, <1>3 DEF OutlivesUse, KeepsExtension
<1> QED
  BY <1>1, <1>5, <1>6 DEF Inv

\* The calls on entries there are.
LEMMA CallStep ==
  ASSUME Inv,
         \/ initialize \/ administer
         \/ \E id \in DOMAIN status : change(id) \/ cancel(id)
         \/ \E id \in DOMAIN status, last \in BOOLEAN : withdraw(id, last)
  PROVE  Inv'
<1>1. /\ status \in [0..(counter - 1) -> Statuses] /\ initialized \in BOOLEAN
      /\ DOMAIN status = 0..(counter - 1)
      /\ DOMAIN ttl = {Instance} \cup DOMAIN status
  BY DEF Inv, TypeOK
<1>2. CASE initialize \/ administer
  <2> DEFINE keys == {Instance}
  <2>1. /\ extend_ttl(keys, 1) /\ Touched(keys) /\ UNCHANGED <<counter, status>>
        /\ initialized' \in BOOLEAN
    BY <1>1, <1>2 DEF initialize, administer
  <2>2. keys \in SUBSET DOMAIN ttl /\ keys \in SUBSET keys
    BY <1>1
  <2> HIDE DEF keys
  <2> QED
    BY <1>1, <2>1, <2>2, CallKeepsInv
<1>3. ASSUME NEW id \in DOMAIN status, change(id) PROVE Inv'
  <2> DEFINE keys == {id, Instance}
  <2>1. /\ extend_ttl(keys, 1) /\ Touched(keys) /\ UNCHANGED <<initialized, counter, status>>
    <3>1. {id} \cup {Instance} = keys
      OBVIOUS
    <3> QED
      BY <1>3, <3>1 DEF change, entries_and_instance
  <2>2. keys \in SUBSET DOMAIN ttl /\ keys \in SUBSET keys
    BY <1>1
  <2> HIDE DEF keys
  <2> QED
    BY <1>1, <2>1, <2>2, CallKeepsInv
<1>4. ASSUME NEW id \in DOMAIN status, NEW new_status \in Statuses,
             status' = [status EXCEPT ![id] = new_status],
             extend_ttl({id}, 1), Touched({id}), UNCHANGED <<initialized, counter>>
      PROVE  Inv'
  <2> DEFINE keys == {id}
  <2>1. keys \in SUBSET DOMAIN ttl /\ keys \in SUBSET keys
    BY <1>1
  <2>2. extend_ttl(keys, 1) /\ Touched(keys)
    BY <1>4
  <2>3. status' \in [0..(counter - 1) -> Statuses]
    BY <1>1, <1>4
  <2> HIDE DEF keys
  <2> QED
    BY <1>1, <1>4, <2>1, <2>2, <2>3, CallKeepsInv
<1>5. ASSUME NEW id \in DOMAIN status, cancel(id) PROVE Inv'
  BY <1>4, <1>5 DEF cancel, Statuses
<1>6. ASSUME NEW id \in DOMAIN status, NEW last \in BOOLEAN, withdraw(id, last)
      PROVE  Inv'
  <2>1. drained(id, last) \in Statuses
    BY <1>1 DEF drained, Statuses
  <2> QED
    BY <1>4, <1>6, <2>1 DEF withdraw
<1> QED
  BY <1>2, <1>3, <1>5, <1>6

LEMMA InvStep == Inv /\ [Next]_vars => Inv'
<1> SUFFICES ASSUME Inv, [Next]_vars PROVE Inv'
  OBVIOUS
<1>1. CASE UNCHANGED vars
  BY <1>1 DEF vars, Inv, TypeOK, AGE_CAP, OutlivesUse, KeepsExtension
<1> QED
  BY <1>1, CallStep, CreateStep, RestoreStep, CloseLedgerStep DEF Next

THEOREM Invariance == Spec => []Inv
  BY InvInit, InvStep, PTL DEF Spec

-----------------------------------------------------------------------------
(* Theorems                                                                *)

\* The lifetimes and ages stay in range, and the entries are the instance and
\* the streams created.
THEOREM TypeCorrect == Spec => []TypeOK
<1>1. Inv => TypeOK
  BY DEF Inv
<1> QED
  BY <1>1, Invariance, PTL

\* No entry is archived within BUMP_THRESHOLD + 1 ledgers of a call that is
\* to keep it alive, for every threshold, extension and network lifetime.
THEOREM UsedEntriesStayLive == Spec => []RecentlyUsedLive
<1>1. Inv => RecentlyUsedLive
  <2> SUFFICES ASSUME Inv, NEW key \in DOMAIN ttl, idle[key] <= BUMP_THRESHOLD + 1
               PROVE  Live(key)
    BY DEF RecentlyUsedLive
  <2>1. ttl[key] + idle[key] >= BUMP_THRESHOLD + 1 /\ idle[key] \in 0..AGE_CAP
    BY Types DEF Inv, OutlivesUse
  <2>2. AGE_CAP \in Nat /\ BUMP_THRESHOLD \in Nat
    BY Types
  <2> QED
    BY <2>1, <2>2 DEF Live, Archived
<1> QED
  BY <1>1, Invariance, PTL

RentRare ==
  \A key \in DOMAIN ttl :
    Live(key) /\ ttl'[key] > ttl[key] => rented[key] >= BUMP_EXTEND - BUMP_THRESHOLD

\* Only an extension adds to the lifetime of a live entry.
LEMMA RentStep == Inv /\ [Next]_vars => RentRare
<1> SUFFICES ASSUME Inv, [Next]_vars, NEW key \in DOMAIN ttl,
                    Live(key), ttl'[key] > ttl[key]
             PROVE  rented[key] >= BUMP_EXTEND - BUMP_THRESHOLD
  BY DEF RentRare
<1>1. /\ ttl[key] \in Nat /\ rented[key] \in Nat /\ KeepsExtension(key)
      /\ BUMP_THRESHOLD \in Nat /\ BUMP_EXTEND \in Nat
  BY Types DEF Inv, Live
<1>2. ASSUME NEW keys, NEW min_ttl, extend_ttl(keys, min_ttl)
      PROVE  ttl[key] <= BUMP_THRESHOLD
  <2>1. ttl'[key] = IF key \in keys /\ extends(ttl[key]) THEN BUMP_EXTEND ELSE ttl[key]
    BY <1>2 DEF extend_ttl
  <2>2. ttl'[key] # ttl[key]
    BY <1>1
  <2> QED
    BY <2>1, <2>2 DEF extends
<1>3. ASSUME NEW keys \in SUBSET ArchivedKeys, restore(keys) PROVE FALSE
  <2>1. ttl'[key] = ttl[key]
    BY <1>3 DEF restore, ArchivedKeys
  <2> QED
    BY <1>1, <2>1
<1>4. ASSUME close_ledger PROVE FALSE
  BY <1>1, <1>4 DEF close_ledger
<1>5. ASSUME UNCHANGED ttl PROVE FALSE
  BY <1>1, <1>5
<1>6. ttl[key] <= BUMP_THRESHOLD
  <2>1. ASSUME NEW count, create(count) PROVE ttl[key] <= BUMP_THRESHOLD
    BY <1>2, <2>1 DEF create
  <2>2. ASSUME NEW id \in DOMAIN status, change(id) \/ cancel(id)
        PROVE  ttl[key] <= BUMP_THRESHOLD
    BY <1>2, <2>2 DEF change, cancel
  <2>3. ASSUME NEW id \in DOMAIN status, NEW last \in BOOLEAN, withdraw(id, last)
        PROVE  ttl[key] <= BUMP_THRESHOLD
    BY <1>2, <2>3 DEF withdraw
  <2>4. ASSUME initialize \/ administer PROVE ttl[key] <= BUMP_THRESHOLD
    BY <1>2, <2>4 DEF initialize, administer
  <2> QED
    BY <1>3, <1>4, <1>5, <2>1, <2>2, <2>3, <2>4 DEF Next, vars
<1> QED
  BY <1>1, <1>6 DEF KeepsExtension

\* Rent for one entry is paid at most once per BUMP_EXTEND - BUMP_THRESHOLD
\* ledgers, however often calls ask for it.
THEOREM RentIsRare == Spec => RentPaidRarely
<1>1. Inv /\ [Next]_vars => [RentRare]_vars
  BY RentStep
<1>2. Spec => [][RentRare]_vars
  BY <1>1, Invariance, PTL DEF Spec
<1> QED
  BY <1>2 DEF RentPaidRarely, RentRare
=============================================================================
