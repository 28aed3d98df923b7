-------------------------- MODULE MCBackendManager --------------------------
(* Finite instances of BackendManager, WorkerIO and V2vAdmission.  They      *)
(* share no state; part chooses, once, which of them moves, so that in a run *)
(* of several their state spaces add up.  No fair action is enabled in the   *)
(* initial state of a component, so its fairness asks nothing of a behaviour *)
(* in which another one moves.                                               *)
EXTENDS BackendManager, WorkerIO, V2vAdmission, TLC

CONSTANT Parts   (* the components of this run *)

VARIABLE part

ObjectSymmetry == Permutations(Instances)

PartsInit ==
    /\ part \in Parts
    /\ Init /\ WorkerInit /\ AdmissionInit
    /\ part # "worker" => queueing      \* the others need not be tried with both kinds of worker
    /\ part # "manager" => env.strays = {}   \* nor with both environments of a startup

PartsNext ==
    /\ UNCHANGED part
    /\ \/ part = "manager" /\ Next /\ UNCHANGED <<workerVars, admissionVars>>
       \/ part = "worker" /\ WorkerNext /\ UNCHANGED <<vars, admissionVars>>
       \/ part = "admission" /\ AdmissionNext /\ UNCHANGED <<vars, workerVars>>

PartsSpec == PartsInit /\ [][PartsNext]_<<vars, workerVars, admissionVars, part>>

PartsFairSpec == PartsSpec /\ Fairness /\ AdmissionFairness
=============================================================================
