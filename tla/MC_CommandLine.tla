--------------------------- MODULE MC_CommandLine ---------------------------
(* A ring of three slots, gone round more than once. *)
EXTENDS CommandLine

MCChars == {"a", Blank}
=============================================================================
