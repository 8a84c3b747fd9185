------------------------------ MODULE AirStatus ------------------------------
(***************************************************************************)
(* The statuses NVIDIA Air and the Assisted Installer report, and the      *)
(* groups of them the code tests for.  Everything here is a constant       *)
(* expression: the modules that decide or wait on a status extend it.      *)
(***************************************************************************)

(***************************************************************************)
(* core/contracts.py: the enumerations.                                    *)
(***************************************************************************)
ClusterStatus ==
  {"insufficient", "ready", "error", "preparing-for-installation",
   "pending-for-input", "installing", "finalizing", "installed",
   "adding-hosts", "cancelled", "installing-pending-user-action",
   "unmonitored", "unknown"}

AirImageUploadStatus ==
  {"READY", "UPLOADING", "VALIDATING", "COMPLETE", "PUBLISHING",
   "UNPUBLISHING", "COPYING_FROM_IMAGE_SHARE", "PENDING_PUBLISH",
   "PENDING_UNPUBLISH", "UNKNOWN"}

AirSimulationStatus ==
  {"CLONING", "CREATING", "IMPORTING", "INVALID", "INACTIVE", "REQUESTING",
   "PROVISIONING", "PREPARE_BOOT", "BOOTING", "ACTIVE", "PREPARE_SHUTDOWN",
   "SHUTTING_DOWN", "SAVING", "PREPARE_TEARDOWN", "TEARING_DOWN",
   "PREPARE_REBUILD", "REBUILDING", "DELETING", "PREPARE_PURGE", "PURGING",
   "DEMO", "TRAINING", "UNKNOWN"}

(***************************************************************************)
(* core/decisions.py: the groups reconciliation decides on.                *)
(***************************************************************************)
ImageUploadInProgress == {"UPLOADING", "VALIDATING"}

ImageUnsupported ==
  {"PUBLISHING", "UNPUBLISHING", "COPYING_FROM_IMAGE_SHARE",
   "PENDING_PUBLISH", "PENDING_UNPUBLISH"}

SimulationCreating == {"CLONING", "CREATING", "IMPORTING", "REQUESTING"}

SimulationStarting ==
  {"PROVISIONING", "PREPARE_BOOT", "BOOTING", "PREPARE_REBUILD", "REBUILDING"}

SimulationStopping == {"PREPARE_SHUTDOWN", "SHUTTING_DOWN", "SAVING"}

SimulationDeleting ==
  {"PREPARE_TEARDOWN", "TEARING_DOWN", "DELETING", "PREPARE_PURGE", "PURGING"}

(* ACTION_CLUSTER_STATUSES: host discovery and deployment give up here.    *)
ActionClusterStatuses ==
  {"error", "cancelled", "installing-pending-user-action"}

(* The statuses _reconcile_hosts refuses beside those.                     *)
UnsupportedClusterStatuses == {"unknown", "adding-hosts", "unmonitored"}

(***************************************************************************)
(* core/workflows.py: destroy_lab waits these out.  A rebuild is missing   *)
(* here although decide_air_simulation_action waits for one.               *)
(***************************************************************************)
DestroyWaitsOut ==
  SimulationCreating \cup SimulationStopping \cup SimulationDeleting
    \cup {"PROVISIONING", "PREPARE_BOOT", "BOOTING"}
=============================================================================
