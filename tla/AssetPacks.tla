----------------------------- MODULE AssetPacks -----------------------------
(***************************************************************************)
(* The Asset Packs of one companion, their objects in R2, and the deletion *)
(* of the account that owns them: CompanionService, StorageService,        *)
(* CompanionCleanupService, the storage cleanup of the Caretaker Desk and  *)
(* the account deletion of PortalService.                                  *)
(*                                                                         *)
(* A row of CompanionAssetPack is named by its id. Its object prefix is a  *)
(* function of the manifest hash, so a row created again for the same      *)
(* manifest has new staging keys (they hold the file id) and the same      *)
(* final keys. A pack is modelled with one file: one staging object, one   *)
(* final object and manifest.json. The ETag of an object identifies its    *)
(* content.                                                                *)
(*                                                                         *)
(* Long-running work is split at its awaits: verifications (req) and the   *)
(* jobs that delete objects (job).                                         *)
(***************************************************************************)
EXTENDS Naturals, FiniteSets

CONSTANTS
  Ids,           \* ids that rows may be given
  Manifests,     \* manifest hashes
  ManifestOf,    \* the manifest hash of the row with an id
  Requests,      \* completeAssetPack requests that may run at the same time
  Jobs,          \* among "hourly", "desk", "owner", "portal" and "final"
  Quota,         \* maxUserStorageBytes, in packs
  NoPack,        \* no row
  MaxRunning,    \* bound on the jobs that run at the same time
  MaxFaults      \* bound on storage errors and crashes

ASSUME PackAssumption ==
  /\ ManifestOf \in [Ids -> Manifests]
  /\ Jobs \subseteq {"hourly", "desk", "owner", "portal", "final"}
  /\ NoPack \notin Ids
  /\ Quota \in Nat
  /\ MaxRunning \in Nat
  /\ MaxFaults \in Nat

Content == {"none", "good", "bad"}   \* an object that is absent, as in the manifest, or not

Status == {"unused", "uploading", "verifying", "active", "superseded", "failed",
           "abandoning", "abandoned", "deleting", "gone"}

(* urls: the PUT URLs of the row. old: createdAt is past the upload session *)
(* TTL. rested: updatedAt, activatedAt or supersededAt, whichever its       *)
(* status is judged by, is past the limit. failure: failureCode, where it   *)
(* decides anything. cleaned: stagingCleanedAt IS NOT NULL.                 *)
Row ==
  [status : Status, urls : {"none", "live", "expired"}, old : BOOLEAN, rested : BOOLEAN,
   failure : {"none", "running", "lapsed", "retryable"}, cleaned : BOOLEAN]

Phase == {"idle", "abandon", "staging", "superseded", "owner", "portal", "final"}

(* todo: listed and not yet handled; held: listed as claimed by somebody   *)
(* before (for "final": counted by the first summary); seen: listed by the *)
(* account deletion                                                        *)
Job ==
  [phase : Phase, step : {"next", "list", "delete", "confirm", "write"},
   todo : SUBSET Ids, held : SUBSET Ids, seen : SUBSET Ids, id : Ids \cup {NoPack}]

Request ==
  [step : {"idle", "inspect", "copy", "check", "manifest", "activate"},
   id : Ids \cup {NoPack}]

VARIABLES
  row,           \* CompanionAssetPack
  active,        \* NetworkCompanion.activeAssetPackId
  account,       \* "active", "pending" (deletionRequestedAt set) or "gone"
  visit,         \* assetPackRefId of a pending invitation or live session
  staging,       \* R2: the staging object of each row
  final,         \* R2: the file object under each manifest hash
  manifestFile,  \* R2: the manifest hashes whose manifest.json exists
  up,            \* StorageService.capability
  req, job,
  faults

store == <<staging, final, manifestFile>>
vars == <<row, active, account, visit, staging, final, manifestFile, up, req, job,
          faults>>

TypeOK ==
  /\ row \in [Ids -> Row]
  /\ active \in Ids \cup {NoPack}
  /\ account \in {"active", "pending", "gone"}
  /\ visit \in Ids \cup {NoPack}
  /\ staging \in [Ids -> Content]
  /\ final \in [Manifests -> Content]
  /\ manifestFile \subseteq Manifests
  /\ up \in BOOLEAN
  /\ req \in [Requests -> Request]
  /\ job \in [Jobs -> Job]
  /\ faults \in 0 .. MaxFaults

Unused ==
  [status |-> "unused", urls |-> "none", old |-> FALSE, rested |-> FALSE,
   failure |-> "none", cleaned |-> FALSE]

IdleJob ==
  [phase |-> "idle", step |-> "next", todo |-> {}, held |-> {}, seen |-> {}, id |-> NoPack]

IdleRequest == [step |-> "idle", id |-> NoPack]

Init ==
  /\ row = [i \in Ids |-> Unused]
  /\ active = NoPack
  /\ account = "active"
  /\ visit = NoPack
  /\ staging = [i \in Ids |-> "none"]
  /\ final = [m \in Manifests |-> "none"]
  /\ manifestFile = {}
  /\ up = TRUE
  /\ req = [r \in Requests |-> IdleRequest]
  /\ job = [j \in Jobs |-> IdleJob]
  /\ faults = 0

(***************************************************************************)
(* Rows                                                                    *)
(***************************************************************************)
Exists(i) == row[i].status \notin {"unused", "gone"}

Existing == {i \in Ids : Exists(i)}

(* A status change; updatedAt and the time the new status is judged by are now *)
WithStatus(i, s) == [row[i] EXCEPT !.status = s, !.rested = FALSE, !.failure = "none"]

Counted == {i \in Ids : row[i].status \in {"uploading", "verifying", "active", "superseded"}}

UploadUrlsExpired(i) == row[i].urls # "live"

UploadSessionCurrent(i) == ~row[i].old

(* The UPDATEs of activateVerifiedPackInTransaction, under the companion's lock *)
Activated(i) ==
  [k \in Ids |-> IF k = i THEN WithStatus(k, "active")
                 ELSE IF row[k].status = "active" THEN WithStatus(k, "superseded")
                 ELSE row[k]]

CompanionMutationAllowed == visit = NoPack

(***************************************************************************)
(* The owner's requests                                                    *)
(***************************************************************************)

(* No row has this manifest hash: a new one within the quota *)
InitiateAssetPack(i) ==
  /\ up
  /\ account = "active"
  /\ row[i].status = "unused"
  /\ \A k \in Existing : ManifestOf[k] # ManifestOf[i]
  /\ Cardinality(Counted) + 1 <= Quota
  /\ row' = [row EXCEPT ![i].status = "uploading"]
  /\ UNCHANGED <<active, account, visit, store, up, req, job, faults>>

(* The same manifest again: a verification under way goes back to uploading *)
ResumeUpload(i) ==
  /\ up
  /\ account = "active"
  /\ row[i].status = "verifying"
  /\ UploadSessionCurrent(i)
  /\ row' = [row EXCEPT ![i] = WithStatus(i, "uploading")]
  /\ UNCHANGED <<active, account, visit, store, up, req, job, faults>>

CreateUploadUrls(i) ==
  /\ up
  /\ account = "active"
  /\ row[i].status = "uploading"
  /\ UploadSessionCurrent(i)
  /\ row' = [row EXCEPT ![i].urls = "live"]
  /\ UNCHANGED <<active, account, visit, store, up, req, job, faults>>

(* A client uses a presigned URL: R2 only checks its signature and expiry *)
PutObject(i, c) ==
  /\ row[i].urls = "live"
  /\ staging' = [staging EXCEPT ![i] = c]
  /\ UNCHANGED <<row, active, account, visit, final, manifestFile, up, req, job,
                 faults>>

(* completeAssetPack up to the verification: the claim is a conditional update *)
CompleteAssetPack(r, i) ==
  /\ req[r] = IdleRequest
  /\ account = "active"
  /\ CompanionMutationAllowed
  /\ up
  /\ row[i].status \in {"uploading", "verifying"}
  /\ UploadSessionCurrent(i)
  /\ row' = IF row[i].status = "uploading"
              THEN [row EXCEPT ![i] = WithStatus(i, "verifying")]
              ELSE row
  /\ req' = [req EXCEPT ![r] = [step |-> "inspect", id |-> i]]
  /\ UNCHANGED <<active, account, visit, store, up, job, faults>>

(* ASSET_INTEGRITY_FAILED *)
Fails(r) ==
  LET i == req[r].id IN
  /\ row' = IF row[i].status = "verifying"
              THEN [row EXCEPT ![i] = WithStatus(i, "failed")]
              ELSE row
  /\ req' = [req EXCEPT ![r] = IdleRequest]

(* ASSET_VERIFICATION_RETRYABLE: the row stays as it is, touched *)
Retryable(r) ==
  LET i == req[r].id IN
  /\ row' = IF row[i].status = "verifying" THEN [row EXCEPT ![i].rested = FALSE] ELSE row
  /\ req' = [req EXCEPT ![r] = IdleRequest]

Proceeds(r, step) ==
  /\ req' = [req EXCEPT ![r].step = step]
  /\ UNCHANGED row

(* An oversized object ends the inspection with a retryable error *)
Inspect(r) ==
  /\ req[r].step = "inspect"
  /\ up
  /\ CASE staging[req[r].id] = "good" -> Proceeds(r, "copy")
       [] staging[req[r].id] = "bad"  -> Fails(r) \/ Retryable(r)
       [] OTHER                       -> Retryable(r)
  /\ UNCHANGED <<active, account, visit, store, up, job, faults>>

(* copyVerifiedObject, conditional on the ETag of the object inspected. A   *)
(* source that is gone is a storage error, not a failed precondition.       *)
CopyVerifiedObject(r) ==
  LET i == req[r].id IN
  /\ req[r].step = "copy"
  /\ up
  /\ CASE staging[i] = "good" ->
            /\ final' = [final EXCEPT ![ManifestOf[i]] = "good"]
            /\ Proceeds(r, "check")
            /\ UNCHANGED up
       [] staging[i] = "bad" -> Fails(r) /\ UNCHANGED <<final, up>>
       [] OTHER -> Retryable(r) /\ up' = FALSE /\ UNCHANGED final
  /\ UNCHANGED <<active, account, visit, staging, manifestFile, job, faults>>

CheckPublished(r) ==
  /\ req[r].step = "check"
  /\ up
  /\ IF final[ManifestOf[req[r].id]] = "good" THEN Proceeds(r, "manifest") ELSE Fails(r)
  /\ UNCHANGED <<active, account, visit, store, up, job, faults>>

PutManifest(r) ==
  /\ req[r].step = "manifest"
  /\ up
  /\ manifestFile' = manifestFile \cup {ManifestOf[req[r].id]}
  /\ Proceeds(r, "activate")
  /\ UNCHANGED <<active, account, visit, staging, final, up, job, faults>>

(* activateVerifiedPackInTransaction after a verification. Any other status *)
(* is a conflict and changes nothing.                                       *)
ActivateVerified(r) ==
  LET i == req[r].id IN
  /\ req[r].step = "activate"
  /\ IF row[i].status = "verifying"
       THEN row' = Activated(i) /\ active' = i
       ELSE UNCHANGED <<row, active>>
  /\ req' = [req EXCEPT ![r] = IdleRequest]
  /\ UNCHANGED <<account, visit, store, up, job, faults>>

(* requireAvailable fails: ServiceUnavailable is rethrown and the row stays *)
StorageUnavailable(r) ==
  /\ req[r].step \in {"inspect", "copy", "check", "manifest"}
  /\ ~up
  /\ req' = [req EXCEPT ![r] = IdleRequest]
  /\ UNCHANGED <<row, active, account, visit, store, up, job, faults>>

(* A call to R2 fails: markUnavailable, and the verification can be retried *)
StorageFails(r) ==
  /\ req[r].step \in {"inspect", "copy", "check", "manifest"}
  /\ up
  /\ faults < MaxFaults
  /\ faults' = faults + 1
  /\ up' = FALSE
  /\ Retryable(r)
  /\ UNCHANGED <<active, account, visit, store, job>>

(* Back to a pack that was superseded *)
ActivateAssetPack(i) ==
  /\ account = "active"
  /\ CompanionMutationAllowed
  /\ row[i].status = "superseded"
  /\ row' = Activated(i)
  /\ active' = i
  /\ UNCHANGED <<account, visit, store, up, req, job, faults>>

(***************************************************************************)
(* Visits take a snapshot of the active pack and keep a reference to it    *)
(* until they end. A guest of a room leaves within hours, before a pack    *)
(* can have been superseded for the retention time, so only the visitor's  *)
(* reference matters.                                                      *)
(***************************************************************************)
CreateInvitation ==
  /\ account = "active"
  /\ up
  /\ visit = NoPack
  /\ active # NoPack
  /\ row[active].status = "active"
  /\ visit' = active
  /\ UNCHANGED <<row, active, account, store, up, req, job, faults>>

VisitEnds ==
  /\ visit # NoPack
  /\ visit' = NoPack
  /\ UNCHANGED <<row, active, account, store, up, req, job, faults>>

(***************************************************************************)
(* Jobs that delete objects. A job lists rows, claims them one by one with *)
(* a conditional update, deletes the objects, confirms that none is left   *)
(* and only then writes the row. A row that was listed as claimed is not   *)
(* claimed again.                                                          *)
(***************************************************************************)
Expired(i) ==
  \/ row[i].status = "uploading" /\ row[i].old
  \/ row[i].status = "verifying" /\ row[i].rested

(* Mutant: staging is cleaned as soon as the pack is active *)
StagingEligibleAtOnce(i) ==
  row[i].status = "active" /\ ~row[i].cleaned /\ row[i].failure # "running"

StagingEligible(i) ==
  /\ row[i].status = "active"
  /\ ~row[i].cleaned
  /\ row[i].rested
  /\ UploadUrlsExpired(i)
  /\ row[i].failure # "running"

(* Mutant: visits are not asked *)
SupersededUnchecked(i) == row[i].status = "superseded" /\ row[i].rested

SupersededLongAgo(i) == row[i].status = "superseded" /\ row[i].rested /\ visit # i

(* What each phase may claim *)
Claimable(phase, i) ==
  CASE phase = "abandon"    -> Expired(i) /\ UploadUrlsExpired(i)
    [] phase = "staging"    -> StagingEligible(i)
    [] phase = "superseded" -> SupersededLongAgo(i) /\ UploadUrlsExpired(i)
    [] phase = "portal"     -> SupersededLongAgo(i)
    [] OTHER                -> FALSE

(* What it also lists: claimed by somebody who did not finish *)
LeftOver(phase, i) ==
  CASE phase = "abandon"    -> row[i].status = "abandoning" /\ UploadUrlsExpired(i)
    [] phase = "superseded" -> row[i].status = "deleting" /\ UploadUrlsExpired(i)
    [] phase = "portal"     -> row[i].status = "deleting"
    [] OTHER                -> FALSE

Claimed(phase, i) ==
  CASE phase = "abandon" -> WithStatus(i, "abandoning")
    [] phase = "staging" -> [row[i] EXCEPT !.failure = "running"]
    [] OTHER             -> WithStatus(i, "deleting")

(* The list is read: findMany of each cleanup *)
Listed(phase) ==
  [phase |-> phase, step |-> "next",
   todo  |-> {i \in Ids : Claimable(phase, i) \/ LeftOver(phase, i)},
   held  |-> {i \in Ids : LeftOver(phase, i)}, seen |-> {}, id |-> NoPack]

(* CompanionCleanupService runs three phases, the Caretaker Desk two *)
Following(j, phase) ==
  CASE phase = "abandon" -> IF j = "hourly" THEN "staging" ELSE "superseded"
    [] phase = "staging" -> "superseded"
    [] OTHER             -> "idle"

MayStart(j) ==
  /\ job[j] = IdleJob
  /\ Cardinality({k \in Jobs : job[k] # IdleJob}) < MaxRunning

StartCleanup(j) ==
  /\ j \in {"hourly", "desk"}
  /\ MayStart(j)
  /\ job' = [job EXCEPT ![j] = Listed("abandon")]
  /\ UNCHANGED <<row, active, account, visit, store, up, req, faults>>

DeleteSupersededAssetPacks(j) ==
  /\ j = "portal"
  /\ account = "active"
  /\ MayStart(j)
  /\ job' = [job EXCEPT ![j] = Listed("portal")]
  /\ UNCHANGED <<row, active, account, visit, store, up, req, faults>>

(* deleteAssetPack: the row is claimed at once *)
DeleteAssetPack(j, i) ==
  /\ j = "owner"
  /\ account = "active"
  /\ MayStart(j)
  /\ row[i].status \in {"failed", "abandoned"}
  /\ up
  /\ UploadUrlsExpired(i)
  /\ row' = [row EXCEPT ![i] = WithStatus(i, "deleting")]
  /\ job' = [job EXCEPT ![j] = [IdleJob EXCEPT !.phase = "owner", !.step = "delete",
                                               !.id = i]]
  /\ UNCHANGED <<active, account, visit, store, up, req, faults>>

(* The end of a phase that worked through its list or met an unavailable    *)
(* storage                                                                  *)
PhaseEnds(j) ==
  LET next == Following(j, job[j].phase) IN
  /\ job[j].phase \in {"abandon", "staging", "superseded", "portal"}
  /\ job[j].step = "next"
  /\ job[j].todo = {} \/ (~up /\ job[j].phase # "portal")
  /\ job' = [job EXCEPT ![j] = IF next = "idle" THEN IdleJob ELSE Listed(next)]
  /\ UNCHANGED <<row, active, account, visit, store, up, req, faults>>

(* What an exception ends: CompanionCleanupService goes on to its next phase *)
Aborted(j) ==
  LET next == IF j = "hourly" THEN Following(j, job[j].phase) ELSE "idle"
  IN  IF next = "idle" THEN IdleJob ELSE Listed(next)

(* Mutant: the claim is by id alone, without the conditions of the list *)
ClaimById(j, i) ==
  /\ job[j].step = "next"
  /\ job[j].phase \in {"abandon", "staging", "superseded", "portal"}
  /\ i \in job[j].todo
  /\ up
  /\ row' = [row EXCEPT ![i] = Claimed(job[j].phase, i)]
  /\ job' = [job EXCEPT ![j].step = "delete", ![j].id = i, ![j].todo = @ \ {i}]
  /\ UNCHANGED <<active, account, visit, store, up, req, faults>>

Claim(j, i) ==
  /\ job[j].step = "next"
  /\ job[j].phase \in {"abandon", "staging", "superseded", "portal"}
  /\ i \in job[j].todo
  /\ up \/ job[j].phase = "portal"
  /\ IF i \in job[j].held \/ Claimable(job[j].phase, i)
       THEN /\ row' = IF i \in job[j].held THEN row
                      ELSE [row EXCEPT ![i] = Claimed(job[j].phase, i)]
            /\ job' = [job EXCEPT ![j].step = "delete", ![j].id = i, ![j].todo = @ \ {i}]
       ELSE /\ job' = [job EXCEPT ![j].todo = @ \ {i}]
            /\ UNCHANGED row
  /\ UNCHANGED <<active, account, visit, store, up, req, faults>>

SamePrefix(i) == {k \in Ids : ManifestOf[k] = ManifestOf[i]}

(* The objects a phase deletes for a row: by prefix, or by the keys of the  *)
(* row's files (the portal leaves the staging keys out)                     *)
DeletedStaging(phase, i) ==
  CASE phase \in {"final", "staging"} -> SamePrefix(i)
    [] phase = "portal"               -> {}
    [] OTHER                          -> {i}

DeletesFinal(phase) == phase # "staging"

Removed(phase, i) ==
  /\ staging' = [k \in Ids |->
                   IF k \in DeletedStaging(phase, i) THEN "none" ELSE staging[k]]
  /\ IF DeletesFinal(phase)
       THEN /\ final' = [final EXCEPT ![ManifestOf[i]] = "none"]
            /\ manifestFile' = manifestFile \ {ManifestOf[i]}
       ELSE UNCHANGED <<final, manifestFile>>

DeleteObjects(j) ==
  /\ job[j].step = "delete"
  /\ up
  /\ Removed(job[j].phase, job[j].id)
  /\ job' = [job EXCEPT ![j].step = "confirm"]
  /\ UNCHANGED <<row, active, account, visit, up, req, faults>>

(* assertObjectPrefixDeleted *)
PrefixDeleted(phase, i) ==
  /\ \A k \in SamePrefix(i) : staging[k] = "none"
  /\ phase # "staging" =>
       final[ManifestOf[i]] = "none" /\ ManifestOf[i] \notin manifestFile

(* The catch block: cleanupActivePackStaging gives its claim back. The      *)
(* cleanups go on with their list, the others throw.                        *)
DeletionFailed(j) ==
  LET i == job[j].id IN
  /\ row' = IF job[j].phase = "staging" /\ row[i].status = "active" /\ ~row[i].cleaned
                 /\ row[i].failure \in {"running", "lapsed"}
              THEN [row EXCEPT ![i].failure = "retryable"]
              ELSE row
  /\ job' = [job EXCEPT ![j] = IF job[j].phase \in {"abandon", "staging", "superseded"}
                                 THEN [@ EXCEPT !.step = "next", !.id = NoPack]
                                 ELSE IdleJob]

Confirm(j) ==
  /\ job[j].step = "confirm"
  /\ up
  /\ IF PrefixDeleted(job[j].phase, job[j].id)
       THEN job' = [job EXCEPT ![j].step = "write"] /\ UNCHANGED row
       ELSE DeletionFailed(j)
  /\ UNCHANGED <<active, account, visit, store, up, req, faults>>

(* The storage is unavailable, or fails now: nothing, or everything but the *)
(* answer, was deleted. refreshStorageAfterCleanupFailure may find it back. *)
JobStorageFails(j) ==
  /\ job[j].step \in {"delete", "confirm"}
  /\ \/ ~up /\ UNCHANGED <<store, faults>>
     \/ /\ up /\ faults < MaxFaults
        /\ faults' = faults + 1
        /\ \/ UNCHANGED store
           \/ job[j].step = "delete" /\ Removed(job[j].phase, job[j].id)
  /\ DeletionFailed(j)
  /\ up' \in IF job[j].phase \in {"abandon", "staging", "superseded"}
               THEN BOOLEAN ELSE {FALSE}
  /\ UNCHANGED <<active, account, visit, req>>

(* A URL that was issued outlives the row *)
NoRow(i) == [Unused EXCEPT !.status = "gone", !.urls = row[i].urls]

RowDeleted(i) == [row EXCEPT ![i] = NoRow(i)]

(* Abandoned by id alone, deleted by id alone (a row that is gone is an     *)
(* exception), deleted or marked only in the expected status                *)
WriteRow(j) ==
  LET i == job[j].id
      phase == job[j].phase
      goOn == [job EXCEPT ![j].step = "next", ![j].id = NoPack]
  IN
  /\ job[j].step = "write"
  /\ phase # "final"
  /\ CASE phase = "abandon" ->
            IF Exists(i)
              THEN row' = [row EXCEPT ![i] = WithStatus(i, "abandoned")] /\ job' = goOn
              ELSE job' = [job EXCEPT ![j] = Aborted(j)] /\ UNCHANGED row
       [] phase = "superseded" ->
            IF Exists(i)
              THEN row' = RowDeleted(i) /\ job' = goOn
              ELSE job' = [job EXCEPT ![j] = Aborted(j)] /\ UNCHANGED row
       [] phase = "staging" ->
            /\ row' = IF /\ row[i].status = "active" /\ ~row[i].cleaned
                         /\ row[i].failure \in {"running", "lapsed"}
                        THEN [row EXCEPT ![i].cleaned = TRUE, ![i].failure = "none"]
                        ELSE row
            /\ job' = goOn
       [] OTHER ->
            /\ row' = IF row[i].status = "deleting" THEN RowDeleted(i) ELSE row
            /\ job' = IF phase = "portal" THEN goOn ELSE [job EXCEPT ![j] = IdleJob]
  /\ active' = IF active # NoPack /\ row'[active].status = "gone" THEN NoPack ELSE active
  /\ UNCHANGED <<account, visit, store, up, req, faults>>

(***************************************************************************)
(* Account deletion                                                        *)
(***************************************************************************)

(* The transaction of deleteAccount, as far as packs and visits go *)
DeleteAccount ==
  /\ account = "active"
  /\ account' = "pending"
  /\ visit' = NoPack
  /\ active' = NoPack
  /\ row' = [i \in Ids |-> IF Exists(i) THEN WithStatus(i, "deleting") ELSE row[i]]
  /\ UNCHANGED <<store, up, req, job, faults>>

(* Mutant: the account is deleted at once *)
DeletionDueAtOnce == TRUE

(* accountDeletionNotBefore has passed *)
DeletionDue == \A i \in Existing : UploadUrlsExpired(i)

(* finalizePendingAccountDeletion: the first summary *)
FinalizeStart(j) ==
  /\ j = "final"
  /\ account = "pending"
  /\ MayStart(j)
  /\ DeletionDue
  /\ job' = [job EXCEPT ![j] = [IdleJob EXCEPT !.phase = "final", !.step = "list",
                                               !.held = Existing]]
  /\ UNCHANGED <<row, active, account, visit, store, up, req, faults>>

FinalizeList(j) ==
  /\ job[j].step = "list"
  /\ job' = [job EXCEPT ![j].step = "next", ![j].todo = Existing, ![j].seen = Existing]
  /\ UNCHANGED <<row, active, account, visit, store, up, req, faults>>

FinalizePack(j, i) ==
  /\ job[j].phase = "final"
  /\ job[j].step = "next"
  /\ i \in job[j].todo
  /\ job' = [job EXCEPT ![j].step = "delete", ![j].id = i, ![j].todo = @ \ {i}]
  /\ UNCHANGED <<row, active, account, visit, store, up, req, faults>>

FinalizePackDone(j) ==
  /\ job[j].phase = "final"
  /\ job[j].step = "write"
  /\ job' = [job EXCEPT ![j].step = "next", ![j].id = NoPack]
  /\ UNCHANGED <<row, active, account, visit, store, up, req, faults>>

(* The transaction that counts again and deletes the account's rows *)
SameCount(j) ==
  /\ Cardinality(Existing) = Cardinality(job[j].seen)
  /\ Cardinality(job[j].held) = Cardinality(job[j].seen)

FinalizeAccount(j) ==
  /\ job[j].phase = "final"
  /\ job[j].step = "next"
  /\ job[j].todo = {}
  /\ IF account = "pending" /\ DeletionDue /\ SameCount(j)
       THEN /\ account' = "gone"
            /\ row' = [i \in Ids |-> IF Exists(i) THEN NoRow(i) ELSE row[i]]
       ELSE UNCHANGED <<account, row>>
  /\ job' = [job EXCEPT ![j] = IdleJob]
  /\ UNCHANGED <<active, visit, store, up, req, faults>>

(***************************************************************************)
(* Time, crashes and recovery                                              *)
(***************************************************************************)

(* uploadUrlTtlSeconds and the skew have passed; so has the lease of a      *)
(* staging claim                                                            *)
UrlsExpire(i) ==
  /\ row[i].urls = "live" \/ row[i].failure = "running"
  /\ row' = [row EXCEPT ![i].urls = IF @ = "live" THEN "expired" ELSE @,
                        ![i].failure = IF @ = "running" THEN "lapsed" ELSE @]
  /\ UNCHANGED <<active, account, visit, store, up, req, job, faults>>

(* A day passes (uploadSessionTtlHours), or the retention time does. No     *)
(* request or pass lasts that long.                                         *)
DayPasses(retention) ==
  /\ \A r \in Requests : req[r] = IdleRequest
  /\ \A j \in Jobs : job[j] = IdleJob
  /\ row' = [i \in Ids |->
       IF row[i].status = "unused" THEN row[i]
       ELSE [row[i] EXCEPT
              !.urls = IF @ = "live" THEN "expired" ELSE @,
              !.failure = IF @ = "running" THEN "lapsed" ELSE @,
              !.old = TRUE,
              !.rested = @ \/ row[i].status \in {"verifying", "active"}
                           \/ (retention /\ row[i].status = "superseded")]]
  /\ row' # row
  /\ UNCHANGED <<active, account, visit, store, up, req, job, faults>>

RefreshCapability ==
  /\ ~up
  /\ up' = TRUE
  /\ UNCHANGED <<row, active, account, visit, store, req, job, faults>>

(* The process dies: what it had in progress is gone, rows and objects stay *)
Crash ==
  /\ faults < MaxFaults
  /\ faults' = faults + 1
  /\ req' = [r \in Requests |-> IdleRequest]
  /\ job' = [j \in Jobs |-> IdleJob]
  /\ UNCHANGED <<row, active, account, visit, store, up>>

Verification(r) ==
  \/ Inspect(r) \/ CopyVerifiedObject(r) \/ CheckPublished(r) \/ PutManifest(r)
  \/ ActivateVerified(r) \/ StorageUnavailable(r) \/ StorageFails(r)

JobStep(j) ==
  \/ PhaseEnds(j) \/ DeleteObjects(j) \/ Confirm(j) \/ JobStorageFails(j) \/ WriteRow(j)
  \/ FinalizeStart(j) \/ FinalizeList(j) \/ FinalizePackDone(j) \/ FinalizeAccount(j)
  \/ \E i \in Ids : Claim(j, i) \/ FinalizePack(j, i)

Next ==
  \/ \E i \in Ids : InitiateAssetPack(i) \/ ResumeUpload(i) \/ CreateUploadUrls(i)
                    \/ ActivateAssetPack(i) \/ UrlsExpire(i)
  \/ \E i \in Ids, c \in {"good", "bad"} : PutObject(i, c)
  \/ \E r \in Requests : Verification(r) \/ \E i \in Ids : CompleteAssetPack(r, i)
  \/ CreateInvitation \/ VisitEnds
  \/ \E j \in Jobs : JobStep(j) \/ StartCleanup(j) \/ DeleteSupersededAssetPacks(j)
                     \/ \E i \in Ids : DeleteAssetPack(j, i)
  \/ DeleteAccount
  \/ \E retention \in BOOLEAN : DayPasses(retention)
  \/ RefreshCapability \/ Crash

Spec == Init /\ [][Next]_vars

(***************************************************************************)
(* Properties                                                              *)
(***************************************************************************)

(* An earlier row of the same manifest was deleted *)
Recreated(i) == \E k \in SamePrefix(i) \ {i} : row[k].status = "gone"

(* The companion's pointer names the one pack that is active, and what was  *)
(* published for it is complete: the file is the verified one and the       *)
(* manifest is there, whatever is uploaded, verified or cleaned up          *)
(* meanwhile. The exception is a manifest whose row was deleted and created *)
(* again while a job still had the first one on its list: the job deletes   *)
(* by key, and the keys are those of the new row.                           *)
ActivePackIsWhole ==
  /\ \A i \in Ids : (row[i].status = "active") <=> (active = i)
  /\ active # NoPack /\ ~Recreated(active) =>
       final[ManifestOf[active]] = "good" /\ ManifestOf[active] \in manifestFile

(* A pack that a visit refers to is neither claimed for deletion nor gone   *)
(* while the visit lasts, however long ago it was superseded                *)
VisitKeepsItsPack ==
  visit # NoPack => row[visit].status \in {"active", "superseded"}

(* stagingCleanedAt is final: no staging object is left and no URL can      *)
(* create one                                                               *)
CleanedStaysClean ==
  \A i \in Ids : row[i].cleaned => staging[i] = "none" /\ row[i].urls # "live"

(* No file is left in R2 without a row that a cleanup would find, in        *)
(* particular when the account is gone: the account waits for its upload    *)
(* URLs, every prefix is confirmed empty and the packs are counted again.   *)
(* Only a manifest.json can be: a verification under way writes it without  *)
(* looking at the row.                                                      *)
FilesHaveRows ==
  /\ \A i \in Ids : staging[i] # "none" => Exists(i)
  /\ \A m \in Manifests : final[m] # "none" => \E i \in Existing : ManifestOf[i] = m
=============================================================================
