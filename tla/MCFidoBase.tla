----------------------------- MODULE MCFidoBase -----------------------------
(***************************************************************************)
(* An area of *.MSG files and the one program that has it open, that of    *)
(* the user golded.                                                        *)
(***************************************************************************)
EXTENDS FidoBase

CONSTANTS golded, other

ASSUME AloneAssumption == Running = {golded}
=============================================================================
