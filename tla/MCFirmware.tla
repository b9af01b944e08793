----------------------------- MODULE MCFirmware -----------------------------
(***************************************************************************)
(* Firmware for TLC, with what its theorems take for granted of the        *)
(* constants.                                                              *)
(***************************************************************************)
EXTENDS Firmware

ASSUME MCAssumption == Margin /\ Fits
=============================================================================
