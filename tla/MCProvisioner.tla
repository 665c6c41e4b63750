---------------------------- MODULE MCProvisioner ---------------------------
(* Instances of Provisioner for TLC.                                       *)
EXTENDS Promises, ProvisionerInv, TLC

CONSTANTS e1, e2, w1, w2

OneEnv   == {e1}
TwoEnvs  == {e1, e2}
Workers  == {w1, w2}

WorkerSymmetry == Permutations(Workers)
EnvSymmetry    == Permutations(TwoEnvs) \cup WorkerSymmetry
=============================================================================
