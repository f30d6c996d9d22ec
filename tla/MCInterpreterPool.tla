-------------------------- MODULE MCInterpreterPool --------------------------
(* Instances of InterpreterPool for TLC.                                     *)
EXTENDS InterpreterPool, TLC

CONSTANTS plain, ensemble, light, strong

\* A wake word with a model of its own and an ensemble that shares it.
MCMembers == (plain :> {light}) @@ (ensemble :> {light, strong})

\* One ensemble.
MCOne == (ensemble :> {light, strong})

MCLight == (ensemble :> {light})

Symmetric == Permutations(Ids) \cup Permutations(Clients)
=============================================================================
