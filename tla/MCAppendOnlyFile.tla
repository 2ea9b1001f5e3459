-------------------------- MODULE MCAppendOnlyFile --------------------------
(***************************************************************************)
(* Finite instances of AppendOnlyFile.  The connections are              *)
(* interchangeable: no action or safety property tells them apart.         *)
(***************************************************************************)
EXTENDS AppendOnlyFile, TLC

ConnSymmetry == Permutations(Conns)

=============================================================================
