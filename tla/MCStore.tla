------------------------------- MODULE MCStore -------------------------------
(* Instances of Store for TLC: keys are interchangeable.                    *)
EXTENDS Store, TLC

Interchangeable == Permutations(Keys)
==============================================================================
