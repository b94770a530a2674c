--------------------------- MODULE MCMaintenance ----------------------------
(* The two loops of the maintenance process, for TLC: the storage reconciler *)
(* and the retention runner.  The object a retention batch fails to delete   *)
(* is one nothing refers to, which the reconciler treats as any other, so a  *)
(* behaviour is one of uploads and the reconciler or one of retention.       *)
EXTENDS UploadStorage, Retention

VARIABLE part

maintenanceVars == <<vars, retentionVars, part>>

KeptRevisions == [r \in {"k", "d"} |-> IF r = "k" THEN {"k1", "k2"} ELSE {"d1", "d2"}]

MaintenanceInit == Init /\ RetentionInit /\ part \in {"storage", "retention"}

MaintenanceNext ==
  \/ part = "storage" /\ Next /\ UNCHANGED <<retentionVars, part>>
  \/ part = "retention" /\ RetentionNext /\ UNCHANGED <<vars, part>>
  \/ part = "retention" /\ ~ENABLED RetentionNext /\ UNCHANGED maintenanceVars

\* run_until_stopped polls for ever and deletes what a batch left to delete;
\* nobody has to archive anything.
RetentionFairness ==
  /\ WF_retentionVars(part = "retention" /\ RunBatch)
  /\ \A v \in DocumentRevisions : WF_retentionVars(part = "retention" /\ DeleteFile(v))

\* As in UploadStorage: the reconciler runs for ever and files grow old.
StorageFairness ==
  /\ WF_vars(part = "storage" /\ Reconcile)
  /\ \A u \in Uploads : WF_vars(part = "storage" /\ GrowOld(u))

MaintenanceSpec == /\ MaintenanceInit /\ [][MaintenanceNext]_maintenanceVars
                   /\ StorageFairness /\ RetentionFairness

\* What crashes leave behind is dealt with: staging files nobody will finish are
\* removed, and an object that is gone or damaged is taken out of use.
StorageSettles == AbandonedFilesGo /\ BrokenObjectQuarantined
=============================================================================
