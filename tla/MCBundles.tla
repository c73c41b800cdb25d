----------------------------- MODULE MCBundles ------------------------------
(***************************************************************************)
(* One export, two builds of it at a time and one download, for TLC.       *)
(***************************************************************************)
EXTENDS Bundles
=============================================================================
