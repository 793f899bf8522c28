------------------------ MODULE StorageIntegrations ------------------------
(***************************************************************************)
(* platform/storage: the S3 destinations an organization registers for its *)
(* recordings.  A row is never deleted (Delete disables it), so a recording *)
(* pinned to an integration can always resolve it again; the partial unique *)
(* index uq_storage_integrations_active_purpose keeps one active row.       *)
(* Names, endpoints, regions and the encrypted secret are data the other    *)
(* parts never look at and are left out; decrypting one may fail, which is  *)
(* a fault of the caller's resolve step.                                    *)
(***************************************************************************)
EXTENDS SqlRows, Naturals, FiniteSets, Sequences

CONSTANTS Integrations,      \* ids of storage_integrations rows
          Managed,           \* the platform's own bucket: storage_integration_id NULL
          NoDest             \* storage_key NULL: the upload is not pinned yet

VARIABLE integration         \* status of each row; "none" before its INSERT

IntegrationTypeOK == integration \in [Integrations -> {"none", "active", "disabled"}]
IntegrationInit == integration = [i \in Integrations |-> "none"]

\* The partial unique index on (organization_id, purpose) WHERE status = 'active'.
NoOtherActive(i) == \A j \in Integrations \ {i} : integration[j] # "active"

-----------------------------------------------------------------------------
\* The statements of storage_integrations.sql.

CreateStorageIntegration(i) ==
    Returning(integration[i] = "none" /\ NoOtherActive(i), "active")

DisableStorageIntegration(i) == Returning(integration[i] # "none", "disabled")

UpdateStorageIntegration(i, status) ==
    Returning(/\ integration[i] # "none"
              /\ status = "active" => NoOtherActive(i), status)

GetActiveRecordingStorageIntegration == {i \in Integrations : integration[i] = "active"}

GetStorageIntegration(i) == Returning(integration[i] # "none", i)

-----------------------------------------------------------------------------
\* The service's operations; a conflict or a missing row is an error to the caller.

Create(i) == \E s \in CreateStorageIntegration(i) :
                integration' = [integration EXCEPT ![i] = s]

Update(i, status) ==
    /\ ~NoRows(GetStorageIntegration(i))
    /\ \E s \in UpdateStorageIntegration(i, status) :
          integration' = [integration EXCEPT ![i] = s]

Delete(i) == \E s \in DisableStorageIntegration(i) :
                integration' = [integration EXCEPT ![i] = s]

IntegrationNext == \E i \in Integrations :
    Create(i) \/ Delete(i) \/ \E s \in {"active", "disabled"} : Update(i, s)

\* ResolveRecording: the active destination of the organization, if it has one.
ResolveRecording == GetActiveRecordingStorageIntegration
\* ResolveByID: the row a recording is pinned to, whatever its status is now.
ResolveByID(i) == GetStorageIntegration(i)
=============================================================================
