------------------------------ MODULE MCEmission ------------------------------
(* Emission on small instances: constants for TLC and symmetry. *)
EXTENDS Emission, TLC

CONSTANTS i1, i2, r1, r2, c1, c2

OneInvoice == {i1}
TwoInvoices == {i1, i2}
OneRelay == {r1}
TwoRelays == {r1, r2}
NoCaller == {}
OneCaller == {c1}
TwoCallers == {c1, c2}

\* Sound: no formula names a relay or a caller.
RelaySymmetry == Permutations(TwoRelays)
CallerSymmetry == Permutations(TwoCallers)
===============================================================================
