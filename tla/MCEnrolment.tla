---------------------------- MODULE MCEnrolment -----------------------------
(***************************************************************************)
(* One user with two passkeys, one of which counts its signatures, and one *)
(* link; two browsers, two requests and two challenges, for TLC.           *)
(***************************************************************************)
EXTENDS Enrolment, TLC
=============================================================================
