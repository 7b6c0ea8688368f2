-------------------------- MODULE MCStoreContract --------------------------
(***************************************************************************)
(* Small instances of StoreContract for TLC.                               *)
(***************************************************************************)
EXTENDS StoreContract
=============================================================================
