----------------------------- MODULE MCSerialTx -----------------------------
(***************************************************************************)
(* Two writers, frames shorter and longer than the DMA buffer, and a       *)
(* stream that one long and one short frame overflow.                      *)
(***************************************************************************)
EXTENDS SerialTx
=============================================================================
