----------------------------- MODULE MCCmsServer -----------------------------
(* Small instances of CmsServer for TLC. *)
EXTENDS CmsServer, TLC

\* Connections are interchangeable: no definition tells one from another.
ConnSymmetry == Permutations(Conns)
=============================================================================
