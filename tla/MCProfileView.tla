---------------------------- MODULE MCProfileView ----------------------------
(* A small instance of ProfileView for TLC. *)
EXTENDS ProfileView
=============================================================================
