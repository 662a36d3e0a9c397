--------------------------- MODULE MCSessionTokens ---------------------------
(* Instances of SessionTokens for TLC.                                     *)
EXTENDS SessionTokens, TLC

\* Handlers are interchangeable: no definition of the module orders them.
HandlerSymmetry == Permutations(Procs)
==============================================================================
