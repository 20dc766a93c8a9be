---------------------------- MODULE MCArtifacts -----------------------------
(***************************************************************************)
(* A synthetic and a hybrid call that ask for the same run id, in every    *)
(* order: one may still be running, have ended or have been killed when    *)
(* the other one starts.                                                   *)
(***************************************************************************)
EXTENDS Artifacts

MCRunIdOf == [w \in Writers |-> "run"]
=============================================================================
