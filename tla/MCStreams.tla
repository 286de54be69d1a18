------------------------------ MODULE MCStreams ------------------------------
(***************************************************************************)
(* Small instances of the streams: two accounts, a clock of a few seconds  *)
(* and the requests that make truncation, extension after a withdrawal,    *)
(* overflow and the cap happen.                                            *)
(***************************************************************************)
EXTENDS Streams, TLC

CONSTANTS alice, bob

MCFunds == (alice :> 4) @@ (bob :> 1)

Req(recipient, amount, start, end) ==
  [recipient |-> recipient, total_amount |-> amount,
   start_time |-> start, end_time |-> end]

MCRequests ==
  {Req(bob, 2, 0, 3), Req(bob, 3, 2, 4), Req(bob, 1, 0, 2), Req(alice, 1, 3, 3),
   Req(Contract, 2, 1, 3), Req(bob, 0, 0, 3)}

MCBatches ==
  {<<>>, <<Req(bob, 2, 0, 3)>>, <<Req(bob, 1, 1, 4), Req(alice, 2, 2, 3)>>}
=============================================================================
