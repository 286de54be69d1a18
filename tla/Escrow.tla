-------------------------------- MODULE Escrow --------------------------------
(***************************************************************************)
(* What StreamPay promises the two parties of a payment stream, without    *)
(* the arithmetic of vesting, the shared token balance or the supply       *)
(* counters: a sender deposits, the recipient is released parts of the     *)
(* deposit while the escrow is open, and it is settled once, either by     *)
(* releasing all of it or by a split between the two parties.  Module      *)
(* Streams implements it: a call changes one escrow or opens new ones, and *)
(* nothing that happens to one escrow shows in another.                    *)
(***************************************************************************)
EXTENDS Integers

CONSTANTS
  MaxDeposit,  \* the largest amount one escrow can hold
  MaxEscrows   \* bound of the model: escrows opened

VARIABLE escrows  \* the escrows opened so far, by their consecutive ids

EscrowRecord ==
  [phase: {"open", "settled"}, deposited: Nat, released: Nat, returned: Nat]

NewEscrow(amount) ==
  [phase |-> "open", deposited |-> amount, released |-> 0, returned |-> 0]

Init == escrows = [id \in {} |-> NewEscrow(0)]

\* A sender opens one or more escrows, at the next free ids.
Open ==
  \E first \in 0..MaxEscrows, count \in 1..MaxEscrows :
    /\ DOMAIN escrows = 0..(first - 1)
    /\ first + count <= MaxEscrows
    /\ \E amounts \in [first..(first + count - 1) -> 1..MaxDeposit] :
         escrows' = [id \in 0..(first + count - 1) |->
                       IF id < first THEN escrows[id] ELSE NewEscrow(amounts[id])]

Deposit(id) ==
  /\ escrows[id].phase = "open"
  /\ \E amount \in 1..(MaxDeposit - escrows[id].deposited) :
       escrows' = [escrows EXCEPT ![id].deposited = @ + amount]

\* The recipient gets a part of what is left, and the last part settles.
Release(id) ==
  LET e == escrows[id]
  IN  /\ e.phase = "open"
      /\ \E amount \in 1..(e.deposited - e.released) :
           escrows' = [escrows EXCEPT ![id] =
             [phase |-> IF e.released + amount < e.deposited THEN "open" ELSE "settled",
              deposited |-> e.deposited,
              released |-> e.released + amount,
              returned |-> e.returned]]

\* The recipient's share is fixed and the sender gets exactly the rest.  A
\* share below what was already released is not taken back.
Split(id) ==
  LET e == escrows[id]
  IN  /\ e.phase = "open"
      /\ \E share \in 0..e.deposited :
           escrows' = [escrows EXCEPT ![id] =
             [phase |-> "settled",
              deposited |-> e.deposited,
              released |-> IF share > e.released THEN share ELSE e.released,
              returned |-> e.deposited - share]]

Next == Open \/ \E id \in DOMAIN escrows : Deposit(id) \/ Release(id) \/ Split(id)

Spec == Init /\ [][Next]_escrows
=============================================================================
