---------------------------- MODULE MC_CSPAxis -----------------------------
(* Instances of CSPAxis for TLC. *)
EXTENDS CSPAxis

MCPlans == {<<"a">>, <<"a", "b">>}
MCOnePlan == {<<"a", "b">>}

\* A careful client, one that keeps to the states the program checks, and one
\* that sends anything at any time.
MCClients == {{}, AllLiberties \ {"load while stopping", "start after error"},
              AllLiberties}
MCStopsOnePass == {{"stop one pass"}}
=============================================================================
