------------------------------ MODULE MCClaims ------------------------------
(***************************************************************************)
(* Statements that the repository's documentation makes about the streams  *)
(* and that the code does not keep.  Each is checked by a run of its own,  *)
(* in which TLC finds the shortest sequence of calls that breaks it; so is *)
(* Solvent of module Streams, of which the proofs say when it does hold.   *)
(***************************************************************************)
EXTENDS MCStreams

\* docs/invariants.md: "total_supply == sum of stream.total - sum of
\* stream.withdrawn (across all non-terminal streams)".
SupplyIsEscrow == total_supply = Escrow

\* docs/invariants.md: "A Cancelled or Completed stream is immutable - no
\* further withdraw, top_up, cancel, or extend_stream calls are accepted".
TerminalIsFinal ==
  [][\A id \in DOMAIN streams :
       streams[id].status # "Active" => streams'[id] = streams[id]]_vars

\* src/normalize.rs: the normalization "guarantees every entry point applies
\* the same conventions".  No stream starts at the sentinel, whatever entry
\* point stored it.
SentinelNormalized == \A id \in DOMAIN streams : streams[id].start # START_NOW
=============================================================================
