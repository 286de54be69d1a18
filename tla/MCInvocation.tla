----------------------------- MODULE MCInvocation -----------------------------
(***************************************************************************)
(* A small instance of the statement-by-statement invocations: requests    *)
(* that fail each check, a batch whose first stream can be extended below  *)
(* what was withdrawn, and more streams asked for than the counter can     *)
(* number.                                                                 *)
(***************************************************************************)
EXTENDS Invocation, TLC

CONSTANTS alice, bob

MCFunds == (alice :> 3) @@ (bob :> 0)

Req(recipient, amount, start, end) ==
  [recipient |-> recipient, total_amount |-> amount,
   start_time |-> start, end_time |-> end]

MCRequests == {Req(bob, 3, 0, 3), Req(bob, 3, 1, 2), Req(bob, 0, 0, 1)}

MCBatches ==
  {<<>>, <<Req(bob, 2, 0, 2), Req(bob, 1, 1, 3)>>,
   <<Req(bob, 1, 0, 3), Req(bob, 1, 2, 2)>>,
   <<Req(bob, 3, 1, 3), Req(bob, 3, 0, 3)>>, <<Req(bob, 0, 0, 3)>>}
=============================================================================
