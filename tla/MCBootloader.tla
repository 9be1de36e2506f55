----------------------------- MODULE MCBootloader -----------------------------
(***************************************************************************)
(* The instance of the bootloader for TLC, with the claims on top.  Images *)
(* are model values; the configurations give every constant its value.     *)
(***************************************************************************)
EXTENDS BootloaderClaims
=============================================================================
