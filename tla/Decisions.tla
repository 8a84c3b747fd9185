------------------------------ MODULE Decisions ------------------------------
(***************************************************************************)
(* core/decisions.py: the pure decide functions of reconciliation.  Each   *)
(* takes one observed resource, whether its material configuration has     *)
(* drifted from the intent, and the authorization to replace it; absence,  *)
(* where every function answers CREATE or IMPORT, stays with the caller.   *)
(* The order of the tests is the code's, and it matters: replacement comes *)
(* before drift, drift before the durable completion mark, and a           *)
(* transitional simulation is waited for before either.                    *)
(***************************************************************************)
EXTENDS AirStatus

(* decide_cluster_action *)
ClusterAction(status, started, completed, drift, replace) ==
  IF replace THEN "replace"
  ELSE IF drift THEN "refuse-drift"
  ELSE IF completed \/ status = "installed" THEN "download-credentials"
  ELSE IF status \in ActionClusterStatuses THEN "refuse-terminal"
  ELSE IF status = "ready" /\ ~started THEN "start-install"
  ELSE IF status \in {"ready", "installing", "finalizing",
                      "preparing-for-installation"} THEN "wait-for-install"
  ELSE IF status \in {"pending-for-input", "insufficient"}
         THEN "wait-for-hosts"
  ELSE IF status \in {"adding-hosts", "unmonitored"}
         THEN "refuse-unsupported"
  ELSE "refuse-unknown"

(* decide_infraenv_action; drift includes being bound to another cluster   *)
InfraEnvAction(unknown, isoAvailable, isoCached, drift, replace) ==
  IF replace THEN "replace"
  ELSE IF unknown THEN "refuse-unknown"
  ELSE IF drift THEN "refuse-drift"
  ELSE IF ~isoAvailable THEN "wait-for-iso"
  ELSE IF ~isoCached THEN "download-iso"
  ELSE "ready"

(* decide_air_image_action; drift includes not being owned by the client   *)
ImageAction(status, drift, replace) ==
  IF replace THEN "replace"
  ELSE IF status = "UNKNOWN" THEN "refuse-unknown"
  ELSE IF status \in ImageUnsupported THEN "refuse-unsupported"
  ELSE IF drift THEN "refuse-drift"
  ELSE IF status = "READY" THEN "upload"
  ELSE IF status \in ImageUploadInProgress THEN "wait-for-upload"
  ELSE "ready"

(* decide_air_simulation_action; drift includes not being managed by us,   *)
(* unknown stands for a topology or a node setting that cannot be read     *)
SimulationAction(status, unknown, drift, replace) ==
  IF status = "UNKNOWN" THEN "refuse-unknown"
  ELSE IF status \in SimulationDeleting THEN "wait-for-deletion"
  ELSE IF status \in SimulationCreating THEN "wait-for-creation"
  ELSE IF status \in SimulationStarting THEN "wait-for-active"
  ELSE IF status \in SimulationStopping THEN "wait-for-inactive"
  ELSE IF replace /\ status = "ACTIVE" THEN "shutdown-for-replacement"
  ELSE IF replace THEN "delete-for-replacement"
  ELSE IF status = "INVALID" THEN "refuse-terminal"
  ELSE IF status \in {"DEMO", "TRAINING"} THEN "refuse-unsupported"
  ELSE IF unknown THEN "refuse-unknown"
  ELSE IF drift THEN "refuse-drift"
  ELSE IF status = "INACTIVE" THEN "start"
  ELSE "ready"
=============================================================================
