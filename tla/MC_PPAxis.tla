----------------------------- MODULE MC_PPAxis -----------------------------
(* Instances of PPAxis for TLC. *)
EXTENDS PPAxis

=============================================================================
