-------------------------- MODULE AssetPacksProofs --------------------------
(***************************************************************************)
(* Theorems about AssetPacks, for any rows, manifests, requests and jobs:  *)
(* what the cleanups and the account deletion may take away, and what they *)
(* leave behind, although they work row by row from lists that are stale.  *)
(***************************************************************************)
EXTENDS AssetPacks, TLAPS

(* A row somebody claimed for deletion never comes back. *)
Dead == {"abandoning", "abandoned", "deleting", "gone"}

(* A row past its verification is never given upload URLs again. *)
Settled == Dead \cup {"active", "superseded"}

Quiet(i) == row[i].urls # "live"

Empty(i) == staging[i] = "none" /\ final[ManifestOf[i]] = "none"

(* A manifest has one row at a time. *)
OneRowPerManifest ==
  \A i, k \in Ids : Exists(i) /\ Exists(k) /\ ManifestOf[i] = ManifestOf[k] => i = k

PointerIsActive == \A i \in Ids : (row[i].status = "active") <=> (active = i)

(* A pack that can be active, now or again, is published. *)
PublishedIsWhole ==
  \A i \in Ids : row[i].status \in {"active", "superseded"} /\ ~Recreated(i) =>
    final[ManifestOf[i]] = "good" /\ ManifestOf[i] \in manifestFile

(* What a verification wrote stays until somebody claims its row. *)
RequestWhole(r) ==
  LET i == req[r].id IN
    req[r].step # "idle" =>
      /\ i \in Ids /\ row[i].status # "unused"
      /\ row[i].status \notin Dead /\ ~Recreated(i) =>
           /\ req[r].step \in {"check", "manifest", "activate"} => final[ManifestOf[i]] = "good"
           /\ req[r].step = "activate" => ManifestOf[i] \in manifestFile

VerifiedIsWhole == \A r \in Requests : RequestWhole(r)

(* After deleteAccount there is nothing left to use. *)
ClosedIsDead ==
  account # "active" =>
    /\ visit = NoPack
    /\ \A i \in Ids : row[i].status \in {"unused", "deleting", "abandoned", "gone"}

(* The upload URLs of a pack expire long before it is old enough to be     *)
(* claimed, except by deleteAccount.                                       *)
RestedIsQuiet ==
  \A i \in Ids :
    /\ row[i].status \in {"active", "superseded"} /\ row[i].rested => Quiet(i)
    /\ row[i].status = "deleting" /\ account = "active" => Quiet(i)

(* What a job w holds, or works on, is claimed and receives no upload. *)
JobHolds(w) ==
  /\ w.phase # "final" => \A i \in w.held : row[i].status \in Dead /\ Quiet(i)
  /\ w.step \in {"delete", "confirm", "write"} =>
       /\ w.id \in Ids /\ Quiet(w.id)
       /\ row[w.id].status \in IF w.phase = "staging" THEN Settled ELSE Dead
  /\ w.step = "write" =>
       /\ staging[w.id] = "none"
       /\ w.phase # "staging" /\ Exists(w.id) => final[ManifestOf[w.id]] = "none"

JobsHoldTheDead == \A j \in Jobs : JobHolds(job[j])

(* The account deletion has emptied every row that is not on its list. *)
JobEmpties(w) ==
  /\ w.step = "list" => w.phase = "final"
  /\ w.phase = "final" =>
       /\ account # "active"
       /\ \A i \in w.todo : row[i].status \in Dead
       /\ \A i \in Ids : Exists(i) =>
            /\ Quiet(i)
            /\ \/ w.step = "list" \/ i \in w.todo
               \/ w.id = i /\ w.step \in {"delete", "confirm"}
               \/ Empty(i)

FinalEmpties == \A j \in Jobs : JobEmpties(job[j])

(* A presigned URL does not outlive its row. *)
UrlsHaveRows == \A i \in Ids : row[i].urls = "live" => Exists(i)

CleanedIsSettled == \A i \in Ids : row[i].cleaned => row[i].status \in Settled

IInv ==
  /\ TypeOK
  /\ OneRowPerManifest /\ PointerIsActive /\ PublishedIsWhole /\ VerifiedIsWhole
  /\ ClosedIsDead /\ RestedIsQuiet /\ JobsHoldTheDead /\ FinalEmpties
  /\ UrlsHaveRows /\ CleanedIsSettled /\ CleanedStaysClean
  /\ VisitKeepsItsPack /\ FilesHaveRows

-----------------------------------------------------------------------------
(* Types *)

LEMMA NullTypes == Unused \in Row /\ IdleJob \in Job /\ IdleRequest \in Request
  BY DEF Unused, Row, Status, IdleJob, Job, Phase, IdleRequest, Request

(* What the writes to a row leave in it. *)
LEMMA RowTypes ==
  ASSUME TypeOK, NEW i \in Ids
  PROVE  /\ row[i] \in Row
         /\ \A s \in Status :
              /\ WithStatus(i, s) \in Row
              /\ WithStatus(i, s).status = s /\ WithStatus(i, s).rested = FALSE
              /\ WithStatus(i, s).urls = row[i].urls /\ WithStatus(i, s).cleaned = row[i].cleaned
         /\ NoRow(i) \in Row /\ NoRow(i).status = "gone" /\ NoRow(i).urls = row[i].urls
         /\ NoRow(i).cleaned = FALSE
<1>1. row[i] \in Row
  BY DEF TypeOK
<1>2. \A s \in Status :
        /\ WithStatus(i, s) \in Row
        /\ WithStatus(i, s).status = s /\ WithStatus(i, s).rested = FALSE
        /\ WithStatus(i, s).urls = row[i].urls /\ WithStatus(i, s).cleaned = row[i].cleaned
  BY <1>1 DEF WithStatus, Row
<1>3. /\ NoRow(i) \in Row /\ NoRow(i).status = "gone" /\ NoRow(i).urls = row[i].urls
      /\ NoRow(i).cleaned = FALSE
  BY <1>1, NullTypes DEF NoRow, Row, Status, Unused
<1> QED BY <1>1, <1>2, <1>3

LEMMA ActivatedTypes ==
  ASSUME TypeOK, NEW i \in Ids
  PROVE  Activated(i) \in [Ids -> Row]
<1>1. \A k \in Ids : row[k] \in Row /\ WithStatus(k, "active") \in Row
                                  /\ WithStatus(k, "superseded") \in Row
  BY RowTypes DEF Status
<1> QED BY <1>1 DEF Activated

(* What a job that starts a phase knows. *)
LEMMA ListedTypes ==
  ASSUME NEW phase \in Phase
  PROVE  Listed(phase) \in Job
  BY DEF Listed, Job

LEMMA NextPhaseTypes ==
  ASSUME NEW j \in Jobs
  PROVE  Aborted(j) \in Job /\ Following(j, job[j].phase) \in Phase
<1>1. Following(j, job[j].phase) \in {"staging", "superseded", "idle"}
  BY DEF Following
<1>2. {"staging", "superseded", "idle"} \subseteq Phase
  BY DEF Phase
<1> QED BY <1>1, <1>2, NullTypes, ListedTypes DEF Aborted

(* The steps of the owner and of the visits keep the types. *)
LEMMA OwnerTypes ==
  ASSUME TypeOK,
         \/ \E i \in Ids : InitiateAssetPack(i) \/ ResumeUpload(i) \/ CreateUploadUrls(i)
                           \/ ActivateAssetPack(i) \/ UrlsExpire(i)
         \/ \E i \in Ids, c \in {"good", "bad"} : PutObject(i, c)
         \/ CreateInvitation \/ VisitEnds
  PROVE  TypeOK'
<1>1. ASSUME NEW i \in Ids, InitiateAssetPack(i) \/ CreateUploadUrls(i) PROVE TypeOK'
  <2>1. row[i] \in Row
    BY RowTypes
  <2> QED BY <1>1, <2>1 DEF InitiateAssetPack, CreateUploadUrls, store, TypeOK, Row, Status
<1>2. ASSUME NEW i \in Ids, UrlsExpire(i) PROVE TypeOK'
  <2>1. row[i] \in Row
    BY RowTypes
  <2>2. row' \in [Ids -> Row]
    BY <1>2, <2>1 DEF UrlsExpire, TypeOK, Row
  <2> QED BY <1>2, <2>2 DEF UrlsExpire, store, TypeOK
<1>3. ASSUME NEW i \in Ids, ResumeUpload(i) \/ ActivateAssetPack(i) PROVE TypeOK'
  <2>1. WithStatus(i, "uploading") \in Row /\ Activated(i) \in [Ids -> Row]
    BY RowTypes, ActivatedTypes DEF Status
  <2> QED BY <1>3, <2>1 DEF ResumeUpload, ActivateAssetPack, store, TypeOK
<1>4. ASSUME NEW i \in Ids, NEW c \in {"good", "bad"}, PutObject(i, c) PROVE TypeOK'
  BY <1>4 DEF PutObject, TypeOK, Content
<1>5. CASE CreateInvitation \/ VisitEnds
  BY <1>5 DEF CreateInvitation, VisitEnds, store, TypeOK
<1> QED BY <1>1, <1>2, <1>3, <1>4, <1>5

(* A verification names a row of the table while it runs. *)
VerifiesRow == \A r \in Requests : req[r].step # "idle" => req[r].id \in Ids

(* So does a job that is past its list. *)
DeletesRow == \A j \in Jobs : job[j].step \in {"delete", "confirm", "write"} => job[j].id \in Ids

LEMMA Outcomes ==
  ASSUME TypeOK, NEW r \in Requests, req[r].id \in Ids,
         Fails(r) \/ Retryable(r) \/ \E step \in {"copy", "check", "manifest", "activate"} :
                                                                          Proceeds(r, step)
  PROVE  row' \in [Ids -> Row] /\ req' \in [Requests -> Request]
<1>1. /\ WithStatus(req[r].id, "failed") \in Row /\ row[req[r].id] \in Row
      /\ row \in [Ids -> Row] /\ req \in [Requests -> Request]
  BY RowTypes DEF Status, TypeOK
<1>2. CASE Fails(r)
  BY <1>1, <1>2, NullTypes DEF Fails
<1>3. CASE Retryable(r)
  <2>1. [row[req[r].id] EXCEPT !.rested = FALSE] \in Row
    BY <1>1 DEF Row
  <2> QED BY <1>1, <1>3, <2>1, NullTypes DEF Retryable
<1>4. ASSUME NEW step \in {"copy", "check", "manifest", "activate"}, Proceeds(r, step)
      PROVE  row' \in [Ids -> Row] /\ req' \in [Requests -> Request]
  BY <1>1, <1>4 DEF Proceeds, Request
<1> QED BY <1>2, <1>3, <1>4

LEMMA FaultTypes ==
  ASSUME TypeOK, faults < MaxFaults, faults' = faults + 1
  PROVE  faults' \in 0 .. MaxFaults
<1>1. faults \in 0 .. MaxFaults
  BY DEF TypeOK
<1> QED BY <1>1, PackAssumption

LEMMA VerificationTypes ==
  ASSUME TypeOK, VerifiesRow, NEW r \in Requests,
         Verification(r) \/ \E i \in Ids : CompleteAssetPack(r, i)
  PROVE  TypeOK'
<1>1. ASSUME NEW i \in Ids, CompleteAssetPack(r, i) PROVE TypeOK'
  <2>1. WithStatus(i, "verifying") \in Row
    BY RowTypes DEF Status
  <2>2. [step |-> "inspect", id |-> i] \in Request
    BY DEF Request
  <2> QED BY <1>1, <2>1, <2>2 DEF CompleteAssetPack, store, TypeOK
<1>2. ASSUME req[r].step # "idle" PROVE req[r].id \in Ids /\ ManifestOf[req[r].id] \in Manifests
  BY <1>2, PackAssumption DEF VerifiesRow
<1>3. CASE Inspect(r)
  <2>1. Fails(r) \/ Retryable(r) \/ Proceeds(r, "copy")
    BY <1>3 DEF Inspect
  <2>2. row' \in [Ids -> Row] /\ req' \in [Requests -> Request]
    BY <1>2, <1>3, <2>1, Outcomes DEF Inspect
  <2> QED BY <1>3, <2>2 DEF Inspect, store, TypeOK
<1>4. CASE CopyVerifiedObject(r)
  <2>1. /\ Fails(r) \/ Retryable(r) \/ Proceeds(r, "check")
        /\ final' \in {final, [final EXCEPT ![ManifestOf[req[r].id]] = "good"]}
        /\ up' \in BOOLEAN
    BY <1>4 DEF CopyVerifiedObject, TypeOK
  <2>2. row' \in [Ids -> Row] /\ req' \in [Requests -> Request]
    BY <1>2, <1>4, <2>1, Outcomes DEF CopyVerifiedObject
  <2>3. final' \in [Manifests -> Content]
    <3>1. final \in [Manifests -> Content] /\ "good" \in Content
      BY DEF TypeOK, Content
    <3> QED BY <1>2, <1>4, <2>1, <3>1 DEF CopyVerifiedObject
  <2> QED BY <1>4, <2>1, <2>2, <2>3 DEF CopyVerifiedObject, TypeOK
<1>5. CASE CheckPublished(r)
  <2>1. Fails(r) \/ Proceeds(r, "manifest")
    BY <1>5 DEF CheckPublished
  <2>2. row' \in [Ids -> Row] /\ req' \in [Requests -> Request]
    BY <1>2, <1>5, <2>1, Outcomes DEF CheckPublished
  <2> QED BY <1>5, <2>2 DEF CheckPublished, store, TypeOK
<1>6. CASE PutManifest(r)
  <2>1. row' \in [Ids -> Row] /\ req' \in [Requests -> Request]
    BY <1>2, <1>6, Outcomes DEF PutManifest
  <2> QED BY <1>2, <1>6, <2>1 DEF PutManifest, TypeOK
<1>7. CASE ActivateVerified(r)
  <2>1. req[r].id \in Ids /\ Activated(req[r].id) \in [Ids -> Row]
    BY <1>2, <1>7, ActivatedTypes DEF ActivateVerified
  <2> QED BY <1>7, <2>1, NullTypes DEF ActivateVerified, store, TypeOK
<1>8. CASE StorageUnavailable(r)
  BY <1>8, NullTypes DEF StorageUnavailable, store, TypeOK
<1>9. CASE StorageFails(r)
  <2>1. row' \in [Ids -> Row] /\ req' \in [Requests -> Request]
    BY <1>2, <1>9, Outcomes DEF StorageFails
  <2>2. faults' \in 0 .. MaxFaults
    BY <1>9, FaultTypes DEF StorageFails
  <2> QED BY <1>9, <2>1, <2>2 DEF StorageFails, store, TypeOK
<1> QED BY <1>1, <1>3, <1>4, <1>5, <1>6, <1>7, <1>8, <1>9 DEF Verification

(* The steps of the jobs. *)
LEMMA RemovedTypes ==
  ASSUME TypeOK, NEW phase, NEW i \in Ids, Removed(phase, i)
  PROVE  /\ staging' \in [Ids -> Content] /\ final' \in [Manifests -> Content]
         /\ manifestFile' \subseteq Manifests
<1>1. "none" \in Content /\ ManifestOf[i] \in Manifests
  BY PackAssumption DEF Content
<1> QED BY <1>1 DEF Removed, TypeOK

LEMMA DeletionFailedTypes ==
  ASSUME TypeOK, NEW j \in Jobs, job[j].id \in Ids, DeletionFailed(j)
  PROVE  row' \in [Ids -> Row] /\ job' \in [Jobs -> Job]
<1>1. row[job[j].id] \in Row /\ job[j] \in Job
  BY RowTypes DEF TypeOK
<1>2. [row[job[j].id] EXCEPT !.failure = "retryable"] \in Row
  BY <1>1 DEF Row
<1>3. [job[j] EXCEPT !.step = "next", !.id = NoPack] \in Job
  BY <1>1 DEF Job
<1>4. row' \in [Ids -> Row]
  BY <1>2 DEF DeletionFailed, TypeOK
<1>5. job' \in [Jobs -> Job]
  BY <1>3, NullTypes DEF DeletionFailed, TypeOK
<1> QED BY <1>4, <1>5

LEMMA StartTypes ==
  ASSUME TypeOK, NEW j \in Jobs,
         \/ StartCleanup(j) \/ DeleteSupersededAssetPacks(j) \/ PhaseEnds(j) \/ FinalizeStart(j)
         \/ \E i \in Ids : DeleteAssetPack(j, i)
  PROVE  TypeOK'
<1>1. ASSUME NEW i \in Ids, DeleteAssetPack(j, i) PROVE TypeOK'
  <2>1. WithStatus(i, "deleting") \in Row
    BY RowTypes DEF Status
  <2>2. [IdleJob EXCEPT !.phase = "owner", !.step = "delete", !.id = i] \in Job
    BY NullTypes DEF Job, Phase
  <2> QED BY <1>1, <2>1, <2>2 DEF DeleteAssetPack, store, TypeOK
<1>2. CASE StartCleanup(j) \/ DeleteSupersededAssetPacks(j)
  <2>1. Listed("abandon") \in Job /\ Listed("portal") \in Job
    BY ListedTypes DEF Phase
  <2> QED BY <1>2, <2>1 DEF StartCleanup, DeleteSupersededAssetPacks, store, TypeOK
<1>3. CASE PhaseEnds(j)
  <2>1. Following(j, job[j].phase) \in Phase
    BY NextPhaseTypes
  <2>2. Listed(Following(j, job[j].phase)) \in Job
    BY <2>1, ListedTypes
  <2> QED BY <1>3, <2>2, NullTypes DEF PhaseEnds, store, TypeOK
<1>4. CASE FinalizeStart(j)
  <2>1. Existing \in SUBSET Ids
    BY DEF Existing
  <2>2. [IdleJob EXCEPT !.phase = "final", !.step = "list", !.held = Existing] \in Job
    BY <2>1, NullTypes DEF Job, Phase
  <2> QED BY <1>4, <2>2 DEF FinalizeStart, store, TypeOK
<1> QED BY <1>1, <1>2, <1>3, <1>4

LEMMA JobTypes ==
  ASSUME TypeOK, DeletesRow, NEW j \in Jobs, JobStep(j)
  PROVE  TypeOK'
<1>1. job[j] \in Job /\ job \in [Jobs -> Job]
  BY DEF TypeOK
<1>2. CASE PhaseEnds(j) \/ FinalizeStart(j)
  BY <1>2, StartTypes
<1>3. CASE DeleteObjects(j)
  <2>1. job[j].id \in Ids /\ Removed(job[j].phase, job[j].id)
    BY <1>3 DEF DeleteObjects, DeletesRow
  <2>2. job' \in [Jobs -> Job]
    BY <1>1, <1>3 DEF DeleteObjects, Job
  <2> QED BY <1>3, <2>1, <2>2, RemovedTypes DEF DeleteObjects, TypeOK
<1>4. CASE Confirm(j)
  <2>1. job[j].id \in Ids
    BY <1>4 DEF Confirm, DeletesRow
  <2>2. row' \in [Ids -> Row] /\ job' \in [Jobs -> Job]
    <3>1. CASE DeletionFailed(j)
      BY <2>1, <3>1, DeletionFailedTypes
    <3>2. CASE job' = [job EXCEPT ![j].step = "write"] /\ row' = row
      BY <1>1, <3>2 DEF Job, TypeOK
    <3> QED BY <1>4, <3>1, <3>2 DEF Confirm
  <2> QED BY <1>4, <2>2 DEF Confirm, store, TypeOK
<1>5. CASE JobStorageFails(j)
  <2>1. job[j].id \in Ids
    BY <1>5 DEF JobStorageFails, DeletesRow
  <2>2. row' \in [Ids -> Row] /\ job' \in [Jobs -> Job]
    BY <1>5, <2>1, DeletionFailedTypes DEF JobStorageFails
  <2>3. /\ staging' \in [Ids -> Content] /\ final' \in [Manifests -> Content]
        /\ manifestFile' \subseteq Manifests
    <3>1. CASE UNCHANGED store
      BY <3>1 DEF store, TypeOK
    <3>2. CASE Removed(job[j].phase, job[j].id)
      BY <2>1, <3>2, RemovedTypes
    <3> QED BY <1>5, <3>1, <3>2 DEF JobStorageFails
  <2>4. faults' \in 0 .. MaxFaults /\ up' \in BOOLEAN
    <3>1. faults' \in 0 .. MaxFaults
      <4>1. CASE faults' = faults
        BY <4>1 DEF TypeOK
      <4>2. CASE faults < MaxFaults /\ faults' = faults + 1
        BY <4>2, FaultTypes
      <4> QED BY <1>5, <4>1, <4>2 DEF JobStorageFails
    <3>2. up' \in BOOLEAN
      BY <1>5 DEF JobStorageFails
    <3> QED BY <3>1, <3>2
  <2> QED BY <1>5, <2>2, <2>3, <2>4 DEF JobStorageFails, TypeOK
<1>6. CASE WriteRow(j)
  <2> DEFINE i == job[j].id
  <2>1. i \in Ids
    BY <1>6 DEF WriteRow, DeletesRow
  <2>2. /\ row[i] \in Row /\ WithStatus(i, "abandoned") \in Row /\ NoRow(i) \in Row
        /\ row \in [Ids -> Row]
    BY <2>1, RowTypes DEF Status, TypeOK
  <2>3. [row[i] EXCEPT !.cleaned = TRUE, !.failure = "none"] \in Row
    BY <2>2 DEF Row
  <2>4. /\ RowDeleted(i) \in [Ids -> Row]
        /\ [row EXCEPT ![i] = WithStatus(i, "abandoned")] \in [Ids -> Row]
        /\ [row EXCEPT ![i].cleaned = TRUE, ![i].failure = "none"] \in [Ids -> Row]
    BY <2>2, <2>3 DEF RowDeleted
  <2>5. row' \in [Ids -> Row]
    BY <1>6, <2>2, <2>4 DEF WriteRow
  <2>6. job' \in [Jobs -> Job]
    <3>1. /\ [job EXCEPT ![j].step = "next", ![j].id = NoPack] \in [Jobs -> Job]
          /\ [job EXCEPT ![j] = Aborted(j)] \in [Jobs -> Job]
          /\ [job EXCEPT ![j] = IdleJob] \in [Jobs -> Job]
      BY <1>1, NullTypes, NextPhaseTypes DEF Job
    <3> QED BY <1>6, <3>1 DEF WriteRow
  <2>7. active' \in {active, NoPack}
    BY <1>6 DEF WriteRow
  <2> QED BY <1>6, <2>5, <2>6, <2>7 DEF WriteRow, store, TypeOK
<1>7. CASE FinalizeList(j) \/ FinalizePackDone(j)
  <2>1. job' \in [Jobs -> Job]
    <3>1. Existing \in SUBSET Ids
      BY DEF Existing
    <3>2. CASE FinalizeList(j)
      <4>1. [job[j] EXCEPT !.step = "next", !.todo = Existing, !.seen = Existing] \in Job
        BY <1>1, <3>1 DEF Job
      <4> QED BY <1>1, <3>2, <4>1 DEF FinalizeList
    <3>3. CASE FinalizePackDone(j)
      <4>1. [job[j] EXCEPT !.step = "next", !.id = NoPack] \in Job
        BY <1>1 DEF Job
      <4> QED BY <1>1, <3>3, <4>1 DEF FinalizePackDone
    <3> QED BY <1>7, <3>2, <3>3
  <2> QED BY <1>7, <2>1 DEF FinalizeList, FinalizePackDone, store, TypeOK
<1>8. CASE FinalizeAccount(j)
  <2>1. \A i \in Ids : row[i] \in Row /\ NoRow(i) \in Row
    BY RowTypes
  <2>2. row' \in [Ids -> Row]
    BY <1>8, <2>1 DEF FinalizeAccount, TypeOK
  <2> QED BY <1>8, <2>2, NullTypes DEF FinalizeAccount, store, TypeOK
<1>9. ASSUME NEW i \in Ids, Claim(j, i) \/ FinalizePack(j, i) PROVE TypeOK'
  <2>1. job' \in [Jobs -> Job]
    <3>1. /\ [job EXCEPT ![j].step = "delete", ![j].id = i, ![j].todo = @ \ {i}] \in [Jobs -> Job]
          /\ [job EXCEPT ![j].todo = @ \ {i}] \in [Jobs -> Job]
      BY <1>1 DEF Job
    <3> QED BY <1>9, <3>1 DEF Claim, FinalizePack
  <2>2. row[i] \in Row /\ WithStatus(i, "abandoning") \in Row /\ WithStatus(i, "deleting") \in Row
    BY RowTypes DEF Status
  <2>3. [row[i] EXCEPT !.failure = "running"] \in Row
    BY <2>2 DEF Row
  <2>4. Claimed(job[j].phase, i) \in Row
    BY <2>2, <2>3 DEF Claimed
  <2>5. row' \in [Ids -> Row]
    BY <1>9, <2>4 DEF Claim, FinalizePack, TypeOK
  <2> QED BY <1>9, <2>1, <2>5 DEF Claim, FinalizePack, store, TypeOK
<1> QED BY <1>2, <1>3, <1>4, <1>5, <1>6, <1>7, <1>8, <1>9 DEF JobStep

LEMMA AccountTypes ==
  ASSUME TypeOK,
         \/ DeleteAccount \/ RefreshCapability \/ Crash
         \/ \E retention \in BOOLEAN : DayPasses(retention)
  PROVE  TypeOK'
<1>1. CASE DeleteAccount
  <2>1. \A i \in Ids : row[i] \in Row /\ WithStatus(i, "deleting") \in Row
    BY RowTypes DEF Status
  <2>2. row' \in [Ids -> Row]
    BY <1>1, <2>1 DEF DeleteAccount
  <2> QED BY <1>1, <2>2 DEF DeleteAccount, store, TypeOK
<1>2. ASSUME NEW retention \in BOOLEAN, DayPasses(retention) PROVE TypeOK'
  <2>1. \A i \in Ids :
          [row[i] EXCEPT
              !.urls = IF @ = "live" THEN "expired" ELSE @,
              !.failure = IF @ = "running" THEN "lapsed" ELSE @,
              !.old = TRUE,
              !.rested = @ \/ row[i].status \in {"verifying", "active"}
                           \/ (retention /\ row[i].status = "superseded")] \in Row
    <3> SUFFICES ASSUME NEW i \in Ids
                 PROVE  [row[i] EXCEPT
                          !.urls = IF @ = "live" THEN "expired" ELSE @,
                          !.failure = IF @ = "running" THEN "lapsed" ELSE @,
                          !.old = TRUE,
                          !.rested = @ \/ row[i].status \in {"verifying", "active"}
                                       \/ (retention /\ row[i].status = "superseded")] \in Row
      OBVIOUS
    <3>1. row[i] \in Row
      BY RowTypes
    <3> QED BY <3>1 DEF Row
  <2>2. row' \in [Ids -> Row]
    BY <1>2, <2>1 DEF DayPasses, TypeOK
  <2> QED BY <1>2, <2>2 DEF DayPasses, store, TypeOK
<1>3. CASE RefreshCapability \/ Crash
  <2>1. CASE RefreshCapability
    BY <2>1 DEF RefreshCapability, store, TypeOK
  <2>2. CASE Crash
    <3>1. faults' \in 0 .. MaxFaults
      BY <2>2, FaultTypes DEF Crash
    <3> QED BY <2>2, <3>1, NullTypes DEF Crash, store, TypeOK
  <2> QED BY <1>3, <2>1, <2>2
<1> QED BY <1>1, <1>2, <1>3

LEMMA NextTypes ==
  ASSUME TypeOK, VerifiesRow, DeletesRow, Next
  PROVE  TypeOK'
  BY OwnerTypes, VerificationTypes, StartTypes, JobTypes, AccountTypes DEF Next

-----------------------------------------------------------------------------
(* What a step may do to a row: a claim is not taken back, upload URLs are  *)
(* issued only before the verification, and a row leaves the table when its *)
(* objects are gone.                                                        *)

Published == {"active", "superseded"}

Verified(i) ==
  row[i].status = "verifying" /\ \E r \in Requests : req[r].step = "activate" /\ req[r].id = i

RowStep(i) ==
  /\ row[i].status = "gone" => row'[i].status = "gone"
  /\ row[i].status \in Dead => row'[i].status \in Dead
  /\ row[i].status \in Settled => row'[i].status \in Settled
  /\ row'[i].status = "unused" => row[i].status = "unused"
  /\ Quiet(i) /\ row[i].status # "uploading" => Quiet(i)'
  /\ Exists(i) /\ ~Exists(i)' => Empty(i) /\ Quiet(i)'
  /\ ~Exists(i) /\ Exists(i)' =>
       /\ account = "active"
       /\ \A k \in Ids \ {i} : row'[k] = row[k] /\ (Exists(k) => ManifestOf[k] # ManifestOf[i])
  /\ row'[i].status \in Published => row[i].status \in Published \/ Verified(i)
  /\ row[i].status \in Published /\ visit' = i => row'[i].status \in Published
  /\ row'[i].cleaned =>
       row[i].cleaned \/ (row[i].status \in Settled /\ staging[i] = "none" /\ Quiet(i))

RowFacts ==
  /\ \A i \in Ids : RowStep(i)
  /\ account # "active" => account' # "active"
  /\ PointerIsActive' /\ ClosedIsDead' /\ RestedIsQuiet'
  /\ visit' \in {NoPack, visit} \/ row[visit'].status = "active"

(* A step that writes no row. *)
LEMMA SameRows ==
  ASSUME IInv, UNCHANGED <<row, active, account>>,
         visit' \in {NoPack, visit} \/ (row[visit'].status = "active" /\ account = "active")
  PROVE  RowFacts
  BY DEF IInv, RowFacts, RowStep, PointerIsActive, ClosedIsDead, RestedIsQuiet, Quiet, Exists

(* A step that writes one row: the status it may have had and may have then. *)
LEMMA OneRow ==
  ASSUME IInv, NEW i \in Ids, UNCHANGED <<active, account, visit>>,
         \A k \in Ids \ {i} : row'[k] = row[k],
         Quiet(i) => Quiet(i)', row'[i].cleaned => row[i].cleaned,
         \/ row'[i].status = row[i].status /\ (row'[i].rested => row[i].rested)
         \/ /\ row[i].status \in {"uploading", "verifying"}
            /\ row'[i].status \in {"uploading", "verifying", "failed", "abandoning"}
         \/ /\ row[i].status = "superseded" /\ visit # i
            /\ row'[i].status = "deleting" /\ Quiet(i)
         \/ row[i].status \in {"failed", "abandoned"} /\ row'[i].status = "deleting" /\ Quiet(i)
         \/ row[i].status \in Dead \ {"gone"} /\ row'[i].status = "abandoned"
         \/ row[i].status \in Dead \ {"gone"} /\ row'[i].status = "gone" /\ Empty(i) /\ Quiet(i)
  PROVE  RowFacts
<1>1. ASSUME NEW k \in Ids PROVE RowStep(k)
  <2>1. CASE k # i
    BY <2>1 DEF RowStep, Quiet, Exists
  <2>2. CASE k = i
    BY <2>2 DEF RowStep, Exists, Dead, Settled, Published, Quiet
  <2> QED BY <2>1, <2>2
<1>2. PointerIsActive' /\ ClosedIsDead' /\ RestedIsQuiet'
  BY DEF IInv, PointerIsActive, ClosedIsDead, RestedIsQuiet, Quiet, Dead
<1> QED BY <1>1, <1>2 DEF RowFacts

(* A step that makes a verified or superseded pack the active one. *)
LEMMA ActivatedRows ==
  ASSUME IInv, NEW i \in Ids, row[i].status = "superseded" \/ Verified(i),
         row' = Activated(i), active' = i, UNCHANGED <<account, visit>>
  PROVE  RowFacts
<1>1. account = "active"
  BY DEF IInv, ClosedIsDead, Verified
<1>2. ASSUME NEW k \in Ids
      PROVE  /\ row'[k].status = IF k = i THEN "active"
                                ELSE IF row[k].status = "active" THEN "superseded" ELSE row[k].status
             /\ row'[k].urls = row[k].urls /\ row'[k].cleaned = row[k].cleaned
             /\ row'[k].rested => row[k].rested
             /\ row'[k].rested => row'[k].status = row[k].status
  <2>1. TypeOK /\ "active" \in Status /\ "superseded" \in Status
    BY DEF IInv, Status
  <2> QED BY <2>1, RowTypes DEF Activated
<1>3. ASSUME NEW k \in Ids PROVE RowStep(k)
  BY <1>2 DEF RowStep, Exists, Dead, Settled, Published, Quiet, Verified
<1>4. PointerIsActive'
  BY <1>2 DEF PointerIsActive
<1>5. ClosedIsDead' /\ RestedIsQuiet'
  BY <1>1, <1>2 DEF IInv, ClosedIsDead, RestedIsQuiet, Quiet
<1> QED BY <1>1, <1>3, <1>4, <1>5 DEF RowFacts

(* The owner's requests and the visits. *)
LEMMA OwnerRows ==
  ASSUME IInv,
         \/ \E i \in Ids : InitiateAssetPack(i) \/ ResumeUpload(i) \/ CreateUploadUrls(i)
                           \/ ActivateAssetPack(i) \/ UrlsExpire(i)
         \/ \E i \in Ids, c \in {"good", "bad"} : PutObject(i, c)
         \/ CreateInvitation \/ VisitEnds
  PROVE  RowFacts
<1>1. TypeOK
  BY DEF IInv
<1>2. ASSUME NEW i \in Ids, InitiateAssetPack(i) PROVE RowFacts
  <2>1. row[i] \in Row /\ row \in [Ids -> Row]
    BY <1>1, RowTypes DEF TypeOK
  <2>2. /\ \A k \in Ids \ {i} : row'[k] = row[k]
        /\ row'[i].status = "uploading" /\ row'[i].urls = row[i].urls
        /\ row'[i].cleaned = row[i].cleaned
    BY <1>2, <2>1 DEF InitiateAssetPack, Row
  <2>3. /\ row[i].status = "unused" /\ account = "active" /\ UNCHANGED <<active, account, visit>>
        /\ \A k \in Ids : Exists(k) => ManifestOf[k] # ManifestOf[i]
    BY <1>2 DEF InitiateAssetPack, Existing
  <2>4. ASSUME NEW k \in Ids PROVE RowStep(k)
    <3>1. CASE k # i
      BY <2>2, <2>3, <3>1 DEF RowStep, Quiet, Exists
    <3>2. CASE k = i
      BY <2>2, <2>3, <3>2 DEF RowStep, Exists, Dead, Settled, Published, Quiet
    <3> QED BY <3>1, <3>2
  <2>5. PointerIsActive' /\ ClosedIsDead' /\ RestedIsQuiet'
    BY <2>2, <2>3 DEF IInv, PointerIsActive, ClosedIsDead, RestedIsQuiet, Quiet
  <2> QED BY <2>3, <2>4, <2>5 DEF RowFacts
<1>3. ASSUME NEW i \in Ids, ResumeUpload(i) PROVE RowFacts
  <2>1. /\ \A k \in Ids \ {i} : row'[k] = row[k]
        /\ row'[i].status = "uploading" /\ row'[i].urls = row[i].urls
        /\ row'[i].cleaned = row[i].cleaned
    <3>1. "uploading" \in Status
      BY DEF Status
    <3> QED BY <1>1, <1>3, <3>1, RowTypes DEF ResumeUpload, TypeOK
  <2> QED BY <1>3, <2>1, OneRow DEF ResumeUpload, Quiet
<1>4. ASSUME NEW i \in Ids, CreateUploadUrls(i) PROVE RowFacts
  <2>1. row[i] \in Row /\ row \in [Ids -> Row]
    BY <1>1, RowTypes DEF TypeOK
  <2>2. /\ \A k \in Ids \ {i} : row'[k] = row[k]
        /\ row'[i].status = "uploading" /\ row'[i].cleaned = row[i].cleaned
        /\ row[i].status = "uploading" /\ UNCHANGED <<active, account, visit>>
    BY <1>4, <2>1 DEF CreateUploadUrls, Row
  <2>3. ASSUME NEW k \in Ids PROVE RowStep(k)
    <3>1. CASE k # i
      BY <2>2, <3>1 DEF RowStep, Quiet, Exists
    <3>2. CASE k = i
      BY <2>2, <3>2 DEF RowStep, Exists, Dead, Settled, Published, Quiet
    <3> QED BY <3>1, <3>2
  <2>4. PointerIsActive' /\ ClosedIsDead' /\ RestedIsQuiet'
    BY <2>2 DEF IInv, PointerIsActive, ClosedIsDead, RestedIsQuiet, Quiet
  <2> QED BY <2>2, <2>3, <2>4 DEF RowFacts
<1>5. ASSUME NEW i \in Ids, ActivateAssetPack(i) PROVE RowFacts
  BY <1>5, ActivatedRows DEF ActivateAssetPack
<1>6. ASSUME NEW i \in Ids, UrlsExpire(i) PROVE RowFacts
  <2>1. row[i] \in Row /\ row \in [Ids -> Row]
    BY <1>1, RowTypes DEF TypeOK
  <2>2. /\ \A k \in Ids \ {i} : row'[k] = row[k]
        /\ row'[i].status = row[i].status /\ row'[i].rested = row[i].rested
        /\ row'[i].cleaned = row[i].cleaned /\ Quiet(i)'
    BY <1>6, <2>1 DEF UrlsExpire, Row, Quiet
  <2> QED BY <1>6, <2>2, OneRow DEF UrlsExpire
<1>7. CASE \E i \in Ids, c \in {"good", "bad"} : PutObject(i, c)
  BY <1>7, SameRows DEF PutObject
<1>8. CASE CreateInvitation \/ VisitEnds
  BY <1>8, SameRows DEF CreateInvitation, VisitEnds
<1> QED BY <1>2, <1>3, <1>4, <1>5, <1>6, <1>7, <1>8

(* The verifications. *)
LEMMA OutcomeRows ==
  ASSUME IInv, NEW r \in Requests, req[r].id \in Ids, Fails(r) \/ Retryable(r),
         UNCHANGED <<active, account, visit>>
  PROVE  RowFacts
<1> DEFINE i == req[r].id
<1>1. row[i] \in Row /\ row \in [Ids -> Row]
  BY DEF IInv, TypeOK
<1>2. CASE row' = row
  BY <1>2, SameRows
<1>3. CASE row[i].status = "verifying" /\ row' = [row EXCEPT ![i] = WithStatus(i, "failed")]
  BY <1>1, <1>3, OneRow DEF WithStatus, Row, Quiet
<1>4. CASE row[i].status = "verifying" /\ row' = [row EXCEPT ![i].rested = FALSE]
  BY <1>1, <1>4, OneRow DEF Row, Quiet
<1> QED BY <1>2, <1>3, <1>4 DEF Fails, Retryable

LEMMA VerificationRows ==
  ASSUME IInv, NEW r \in Requests, Verification(r) \/ \E i \in Ids : CompleteAssetPack(r, i)
  PROVE  RowFacts
<1>1. req[r].step # "idle" => req[r].id \in Ids
  BY DEF IInv, VerifiedIsWhole, RequestWhole
<1>2. CASE row' = row /\ UNCHANGED <<active, account, visit>>
  BY <1>2, SameRows
<1>3. ASSUME NEW i \in Ids, CompleteAssetPack(r, i), row' # row PROVE RowFacts
  <2>1. row[i] \in Row /\ row \in [Ids -> Row]
    BY DEF IInv, TypeOK
  <2> QED BY <1>3, <2>1, OneRow DEF CompleteAssetPack, WithStatus, Row, Quiet
<1>4. CASE Inspect(r)
  <2>1. (Fails(r) \/ Retryable(r)) \/ row' = row
    BY <1>4 DEF Inspect, Proceeds
  <2> QED BY <1>1, <1>2, <1>4, <2>1, OutcomeRows DEF Inspect
<1>5. CASE CopyVerifiedObject(r)
  <2>1. (Fails(r) \/ Retryable(r)) \/ row' = row
    BY <1>5 DEF CopyVerifiedObject, Proceeds
  <2> QED BY <1>1, <1>2, <1>5, <2>1, OutcomeRows DEF CopyVerifiedObject
<1>6. CASE CheckPublished(r)
  <2>1. Fails(r) \/ row' = row
    BY <1>6 DEF CheckPublished, Proceeds
  <2> QED BY <1>1, <1>2, <1>6, <2>1, OutcomeRows DEF CheckPublished
<1>7. CASE PutManifest(r) \/ StorageUnavailable(r)
  BY <1>2, <1>7 DEF PutManifest, Proceeds, StorageUnavailable
<1>8. CASE StorageFails(r)
  BY <1>1, <1>8, OutcomeRows DEF StorageFails
<1>9. CASE ActivateVerified(r)
  <2>1. CASE row[req[r].id].status = "verifying"
    BY <1>1, <1>9, <2>1, ActivatedRows DEF ActivateVerified, Verified
  <2>2. CASE row[req[r].id].status # "verifying"
    BY <1>2, <1>9, <2>2 DEF ActivateVerified
  <2> QED BY <2>1, <2>2
<1>10. CASE \E i \in Ids : CompleteAssetPack(r, i)
  BY <1>2, <1>3, <1>10 DEF CompleteAssetPack
<1> QED BY <1>4, <1>5, <1>6, <1>7, <1>8, <1>9, <1>10 DEF Verification

(* The jobs. A claim is conditional on what the list was read for; what    *)
(* was claimed is deleted when it is empty.                                *)
LEMMA ClaimRows ==
  ASSUME IInv, NEW j \in Jobs, NEW i \in Ids, Claim(j, i)
  PROVE  RowFacts
<1>1. row[i] \in Row /\ row \in [Ids -> Row] /\ UNCHANGED <<active, account, visit>>
  BY DEF IInv, TypeOK, Claim
<1>2. CASE row' = row
  BY <1>1, <1>2, SameRows
<1>3. CASE row' # row
  <2> DEFINE phase == job[j].phase
  <2>1. /\ Claimable(phase, i) /\ row' = [row EXCEPT ![i] = Claimed(phase, i)]
        /\ phase \in {"abandon", "staging", "superseded", "portal"}
    BY <1>3 DEF Claim
  <2>2. CASE phase = "abandon"
    <3>1. Expired(i) /\ row' = [row EXCEPT ![i] = WithStatus(i, "abandoning")]
      BY <2>1, <2>2 DEF Claimable, Claimed
    <3> QED BY <1>1, <3>1, OneRow DEF Expired, WithStatus, Row, Quiet
  <2>3. CASE phase = "staging"
    <3>1. row' = [row EXCEPT ![i] = [row[i] EXCEPT !.failure = "running"]]
      BY <2>1, <2>3 DEF Claimed
    <3> QED BY <1>1, <3>1, OneRow DEF Row, Quiet
  <2>4. CASE phase \in {"superseded", "portal"}
    <3>1. SupersededLongAgo(i) /\ row' = [row EXCEPT ![i] = WithStatus(i, "deleting")]
      BY <2>1, <2>4 DEF Claimable, Claimed
    <3>2. Quiet(i)
      BY <3>1 DEF SupersededLongAgo, IInv, RestedIsQuiet
    <3> QED BY <1>1, <3>1, <3>2, OneRow DEF SupersededLongAgo, WithStatus, Row, Quiet
  <2> QED BY <2>1, <2>2, <2>3, <2>4
<1> QED BY <1>2, <1>3

LEMMA DeletionFailedRows ==
  ASSUME IInv, NEW j \in Jobs, job[j].id \in Ids, DeletionFailed(j),
         UNCHANGED <<active, account, visit>>
  PROVE  RowFacts
<1> DEFINE i == job[j].id
<1>1. row[i] \in Row /\ row \in [Ids -> Row]
  BY DEF IInv, TypeOK
<1>2. CASE row' = row
  BY <1>2, SameRows
<1>3. CASE row' = [row EXCEPT ![i].failure = "retryable"]
  BY <1>1, <1>3, OneRow DEF Row, Quiet
<1> QED BY <1>2, <1>3 DEF DeletionFailed

LEMMA WriteRowRows ==
  ASSUME IInv, NEW j \in Jobs, WriteRow(j)
  PROVE  RowFacts
<1> DEFINE i == job[j].id  phase == job[j].phase
<1>1. row \in [Ids -> Row] /\ UNCHANGED <<account, visit>>
  BY DEF IInv, TypeOK, WriteRow
<1>2. /\ i \in Ids /\ Quiet(i) /\ staging[i] = "none"
      /\ row[i].status \in IF phase = "staging" THEN Settled ELSE Dead
      /\ phase # "staging" /\ Exists(i) => Empty(i)
  BY DEF IInv, JobsHoldTheDead, JobHolds, WriteRow, Empty
<1>3. row[i] \in Row
  BY <1>1, <1>2
<1>4. \/ row' = row
      \/ phase # "staging" /\ Exists(i) /\ row' = [row EXCEPT ![i] = WithStatus(i, "abandoned")]
      \/ phase # "staging" /\ Exists(i) /\ row' = RowDeleted(i)
      \/ row[i].status = "active" /\ row' = [row EXCEPT ![i].cleaned = TRUE, ![i].failure = "none"]
  BY DEF WriteRow, Exists
<1>5. active' = active
  <2>1. ASSUME active # NoPack PROVE row[active].status = "active" /\ active \in Ids
    BY <2>1 DEF IInv, PointerIsActive, TypeOK
  <2>2. active # NoPack => row'[active].status # "gone"
    BY <1>1, <1>2, <1>3, <1>4, <2>1 DEF RowDeleted, WithStatus, Row, Dead
  <2> QED BY <2>2 DEF WriteRow
<1>6. CASE row' = row
  BY <1>1, <1>5, <1>6, SameRows
<1>7. CASE phase # "staging" /\ Exists(i) /\ row' = [row EXCEPT ![i] = WithStatus(i, "abandoned")]
  BY <1>1, <1>2, <1>3, <1>5, <1>7, OneRow DEF WithStatus, Row, Quiet, Exists
<1>8. CASE phase # "staging" /\ Exists(i) /\ row' = RowDeleted(i)
  <2>1. /\ row'[i].status = "gone" /\ row'[i].urls = row[i].urls /\ row'[i].cleaned = FALSE
        /\ \A k \in Ids \ {i} : row'[k] = row[k]
    BY <1>1, <1>2, <1>8, RowTypes DEF RowDeleted, IInv
  <2> QED BY <1>1, <1>2, <1>5, <1>8, <2>1, OneRow DEF Quiet, Exists
<1>9. CASE row[i].status = "active" /\ row' = [row EXCEPT ![i].cleaned = TRUE, ![i].failure = "none"]
  <2>1. /\ \A k \in Ids \ {i} : row'[k] = row[k]
        /\ row'[i].status = "active" /\ row'[i].urls = row[i].urls
        /\ row'[i].rested = row[i].rested
    BY <1>1, <1>2, <1>3, <1>9 DEF Row
  <2>2. ASSUME NEW k \in Ids PROVE RowStep(k)
    <3>1. CASE k # i
      BY <2>1, <3>1 DEF RowStep, Quiet, Exists
    <3>2. CASE k = i
      BY <1>2, <1>9, <2>1, <3>2 DEF RowStep, Exists, Dead, Settled, Published, Quiet
    <3> QED BY <3>1, <3>2
  <2>3. PointerIsActive' /\ ClosedIsDead' /\ RestedIsQuiet'
    BY <1>1, <1>2, <1>5, <1>9, <2>1 DEF IInv, PointerIsActive, ClosedIsDead, RestedIsQuiet, Quiet
  <2> QED BY <1>1, <2>2, <2>3 DEF RowFacts
<1> QED BY <1>4, <1>6, <1>7, <1>8, <1>9

(* The account goes when every row it still has was emptied. *)
LEMMA FinalizeAccountRows ==
  ASSUME IInv, NEW j \in Jobs, FinalizeAccount(j)
  PROVE  RowFacts
<1>1. CASE row' = row /\ account' = account
  BY <1>1, SameRows DEF FinalizeAccount
<1>2. CASE account = "pending" /\ row' = [i \in Ids |-> IF Exists(i) THEN NoRow(i) ELSE row[i]]
           /\ account' = "gone"
  <2>1. ASSUME NEW i \in Ids
        PROVE  IF Exists(i) THEN /\ row'[i].status = "gone" /\ row'[i].urls = row[i].urls
                                 /\ row'[i].cleaned = FALSE
               ELSE row'[i] = row[i]
    BY <1>2, RowTypes DEF IInv
  <2>2. ASSUME NEW i \in Ids, Exists(i) PROVE Empty(i) /\ Quiet(i)
    BY <2>2 DEF FinalizeAccount, IInv, FinalEmpties, JobEmpties
  <2>3. visit' = visit /\ active' = active
    BY DEF FinalizeAccount
  <2>4. ASSUME NEW i \in Ids PROVE RowStep(i)
    <3>1. CASE Exists(i)
      BY <1>2, <2>1, <2>2, <2>3, <3>1
      DEF RowStep, Exists, Dead, Settled, Published, Quiet, IInv, ClosedIsDead
    <3>2. CASE ~Exists(i)
      BY <2>1, <2>3, <3>2 DEF RowStep, Exists, Quiet
    <3> QED BY <3>1, <3>2
  <2>5. PointerIsActive' /\ ClosedIsDead' /\ RestedIsQuiet'
    BY <1>2, <2>1, <2>3
    DEF IInv, PointerIsActive, ClosedIsDead, RestedIsQuiet, Quiet, Exists
  <2> QED BY <1>2, <2>3, <2>4, <2>5 DEF RowFacts
<1> QED BY <1>1, <1>2 DEF FinalizeAccount

LEMMA JobRows ==
  ASSUME IInv, NEW j \in Jobs,
         \/ JobStep(j) \/ StartCleanup(j) \/ DeleteSupersededAssetPacks(j)
         \/ \E i \in Ids : DeleteAssetPack(j, i)
  PROVE  RowFacts
<1>1. ASSUME NEW i \in Ids, DeleteAssetPack(j, i) PROVE RowFacts
  <2>1. /\ row' = [row EXCEPT ![i] = WithStatus(i, "deleting")] /\ row[i].urls # "live"
        /\ row[i].status \in {"failed", "abandoned"} /\ UNCHANGED <<active, account, visit>>
    BY <1>1 DEF DeleteAssetPack, UploadUrlsExpired
  <2>2. row[i] \in Row /\ row \in [Ids -> Row]
    BY DEF IInv, TypeOK
  <2> QED BY <2>1, <2>2, OneRow DEF WithStatus, Row, Quiet
<1>2. CASE \/ StartCleanup(j) \/ DeleteSupersededAssetPacks(j) \/ PhaseEnds(j) \/ DeleteObjects(j)
           \/ FinalizeStart(j) \/ FinalizeList(j) \/ FinalizePackDone(j)
           \/ \E i \in Ids : FinalizePack(j, i)
  BY <1>2, SameRows
  DEF StartCleanup, DeleteSupersededAssetPacks, PhaseEnds, DeleteObjects, FinalizeStart,
      FinalizeList, FinalizePackDone, FinalizePack
<1>3. CASE Confirm(j) \/ JobStorageFails(j)
  <2>1. job[j].id \in Ids /\ UNCHANGED <<active, account, visit>>
    BY <1>3 DEF IInv, JobsHoldTheDead, JobHolds, Confirm, JobStorageFails
  <2>2. DeletionFailed(j) \/ row' = row
    BY <1>3 DEF Confirm, JobStorageFails
  <2> QED BY <2>1, <2>2, SameRows, DeletionFailedRows
<1> QED BY <1>1, <1>2, <1>3, ClaimRows, WriteRowRows, FinalizeAccountRows DEF JobStep

(* The request for deletion, and time. *)
LEMMA AccountRows ==
  ASSUME IInv,
         \/ DeleteAccount \/ RefreshCapability \/ Crash
         \/ \E retention \in BOOLEAN : DayPasses(retention)
  PROVE  RowFacts
<1>1. CASE DeleteAccount
  <2>1. ASSUME NEW i \in Ids
        PROVE  IF Exists(i) THEN /\ row'[i].status = "deleting" /\ row'[i].urls = row[i].urls
                                 /\ row'[i].cleaned = row[i].cleaned
               ELSE row'[i] = row[i]
    <3>1. TypeOK /\ "deleting" \in Status
      BY DEF IInv, Status
    <3> QED BY <1>1, <3>1, RowTypes DEF DeleteAccount
  <2>2. account' = "pending" /\ visit' = NoPack /\ active' = NoPack
    BY <1>1 DEF DeleteAccount
  <2>3. ASSUME NEW i \in Ids PROVE RowStep(i)
    <3>1. CASE Exists(i)
      BY <2>1, <2>2, <3>1, PackAssumption DEF RowStep, Exists, Dead, Settled, Published, Quiet
    <3>2. CASE ~Exists(i)
      BY <2>1, <2>2, <3>2, PackAssumption DEF RowStep, Exists, Quiet
    <3> QED BY <3>1, <3>2
  <2>4. PointerIsActive' /\ ClosedIsDead' /\ RestedIsQuiet'
    BY <2>1, <2>2, PackAssumption
    DEF IInv, PointerIsActive, ClosedIsDead, RestedIsQuiet, Quiet, Exists
  <2> QED BY <2>2, <2>3, <2>4 DEF RowFacts
<1>2. ASSUME NEW retention \in BOOLEAN, DayPasses(retention) PROVE RowFacts
  <2>1. ASSUME NEW i \in Ids
        PROVE  /\ row'[i].status = row[i].status /\ row'[i].cleaned = row[i].cleaned
               /\ Quiet(i) => Quiet(i)'
               /\ row[i].status # "unused" => Quiet(i)'
    <3>1. row[i] \in Row
      BY DEF IInv, TypeOK
    <3>2. row'[i] = IF row[i].status = "unused" THEN row[i]
                    ELSE [row[i] EXCEPT
                           !.urls = IF @ = "live" THEN "expired" ELSE @,
                           !.failure = IF @ = "running" THEN "lapsed" ELSE @,
                           !.old = TRUE,
                           !.rested = @ \/ row[i].status \in {"verifying", "active"}
                                        \/ (retention /\ row[i].status = "superseded")]
      BY <1>2 DEF DayPasses
    <3> QED BY <3>1, <3>2 DEF Row, Quiet
  <2>2. UNCHANGED <<active, account, visit>>
    BY <1>2 DEF DayPasses
  <2>3. ASSUME NEW i \in Ids PROVE RowStep(i)
    BY <2>1, <2>2 DEF RowStep, Exists
  <2>4. PointerIsActive' /\ ClosedIsDead' /\ RestedIsQuiet'
    <3>1. PointerIsActive'
      BY <2>1, <2>2 DEF IInv, PointerIsActive
    <3>2. ClosedIsDead'
      BY <2>1, <2>2 DEF IInv, ClosedIsDead
    <3>3. RestedIsQuiet'
      BY <2>1 DEF RestedIsQuiet, Quiet
    <3> QED BY <3>1, <3>2, <3>3
  <2> QED BY <2>2, <2>3, <2>4 DEF RowFacts
<1>3. CASE RefreshCapability \/ Crash
  BY <1>3, SameRows DEF RefreshCapability, Crash
<1> QED BY <1>1, <1>2, <1>3

LEMMA NextRows == IInv /\ Next => RowFacts
  BY OwnerRows, VerificationRows, JobRows, AccountRows DEF Next

-----------------------------------------------------------------------------
(* What a step may do to the objects: a file appears through a live upload *)
(* URL or as a copy of an uploaded one, and published objects go only with *)
(* a row that was claimed.                                                 *)

Kept(m) ==
  /\ final[m] = "good" => final'[m] = "good"
  /\ m \in manifestFile => m \in manifestFile'

StoreStep ==
  /\ \A i \in Ids : staging'[i] \in {"none", staging[i]} \/ (row[i].urls = "live" /\ row'[i] = row[i])
  /\ \A m \in Manifests : \/ final'[m] \in {"none", final[m]}
                          \/ \E i \in Ids : ManifestOf[i] = m /\ staging[i] = "good"
  /\ \A m \in Manifests : Kept(m) \/ \E k \in Ids : ManifestOf[k] = m /\ row[k].status \in Dead

LEMMA SameStore ==
  ASSUME UNCHANGED store
  PROVE  StoreStep
  BY DEF store, StoreStep, Kept

LEMMA RemovedStore ==
  ASSUME IInv, NEW j \in Jobs, job[j].step = "delete", Removed(job[j].phase, job[j].id)
  PROVE  StoreStep
<1> DEFINE i == job[j].id  phase == job[j].phase
<1>1. i \in Ids /\ (phase # "staging" => row[i].status \in Dead)
  BY DEF IInv, JobsHoldTheDead, JobHolds
<1>2. \A k \in Ids : staging'[k] \in {"none", staging[k]}
  BY DEF Removed
<1>3. CASE phase = "staging"
  BY <1>2, <1>3 DEF Removed, DeletesFinal, StoreStep, Kept
<1>4. CASE phase # "staging"
  <2>1. /\ final' = [final EXCEPT ![ManifestOf[i]] = "none"]
        /\ manifestFile' = manifestFile \ {ManifestOf[i]} /\ final \in [Manifests -> Content]
    BY <1>4 DEF Removed, DeletesFinal, IInv, TypeOK
  <2> QED BY <1>1, <1>2, <1>4, <2>1 DEF StoreStep, Kept
<1> QED BY <1>3, <1>4

LEMMA NextStore == IInv /\ Next => StoreStep
<1> SUFFICES ASSUME IInv, Next PROVE StoreStep
  OBVIOUS
<1>1. ASSUME NEW i \in Ids, NEW c \in {"good", "bad"}, PutObject(i, c) PROVE StoreStep
  BY <1>1 DEF PutObject, StoreStep, Kept, IInv, TypeOK
<1>2. ASSUME NEW r \in Requests, CopyVerifiedObject(r) PROVE StoreStep
  <2>1. CASE UNCHANGED store
    BY <2>1, SameStore
  <2>2. CASE staging[req[r].id] = "good" /\ final' = [final EXCEPT ![ManifestOf[req[r].id]] = "good"]
    BY <1>2, <2>2 DEF CopyVerifiedObject, StoreStep, Kept, IInv, TypeOK, VerifiedIsWhole, RequestWhole
  <2> QED BY <1>2, <2>1, <2>2 DEF CopyVerifiedObject, store
<1>3. ASSUME NEW r \in Requests, PutManifest(r) PROVE StoreStep
  BY <1>3 DEF PutManifest, StoreStep, Kept
<1>4. ASSUME NEW j \in Jobs, DeleteObjects(j) \/ JobStorageFails(j) PROVE StoreStep
  BY <1>4, SameStore, RemovedStore DEF DeleteObjects, JobStorageFails
<1>5. CASE UNCHANGED store
  BY <1>5, SameStore
<1>6. \/ UNCHANGED store
      \/ \E i \in Ids, c \in {"good", "bad"} : PutObject(i, c)
      \/ \E r \in Requests : CopyVerifiedObject(r) \/ PutManifest(r)
      \/ \E j \in Jobs : DeleteObjects(j) \/ JobStorageFails(j)
  <2>1. ASSUME NEW i \in Ids, InitiateAssetPack(i) \/ ResumeUpload(i) \/ CreateUploadUrls(i)
                              \/ ActivateAssetPack(i) \/ UrlsExpire(i)
        PROVE  UNCHANGED store
    BY <2>1 DEF InitiateAssetPack, ResumeUpload, CreateUploadUrls, ActivateAssetPack, UrlsExpire
  <2>2. ASSUME NEW r \in Requests, Verification(r) \/ \E i \in Ids : CompleteAssetPack(r, i)
        PROVE  UNCHANGED store \/ CopyVerifiedObject(r) \/ PutManifest(r)
    BY <2>2 DEF Verification, Inspect, CheckPublished, ActivateVerified, StorageUnavailable,
                StorageFails, CompleteAssetPack
  <2>3. ASSUME NEW j \in Jobs,
               \/ JobStep(j) \/ StartCleanup(j) \/ DeleteSupersededAssetPacks(j)
               \/ \E i \in Ids : DeleteAssetPack(j, i)
        PROVE  UNCHANGED store \/ DeleteObjects(j) \/ JobStorageFails(j)
    BY <2>3 DEF JobStep, PhaseEnds, Confirm, WriteRow, FinalizeStart, FinalizeList,
                FinalizePackDone, FinalizeAccount, Claim, FinalizePack, StartCleanup,
                DeleteSupersededAssetPacks, DeleteAssetPack
  <2>4. ASSUME \/ CreateInvitation \/ VisitEnds \/ DeleteAccount \/ RefreshCapability \/ Crash
               \/ \E retention \in BOOLEAN : DayPasses(retention)
        PROVE  UNCHANGED store
    BY <2>4 DEF CreateInvitation, VisitEnds, DeleteAccount, RefreshCapability, Crash, DayPasses
  <2> QED BY <2>1, <2>2, <2>3, <2>4 DEF Next
<1> QED BY <1>1, <1>2, <1>3, <1>4, <1>5, <1>6

-----------------------------------------------------------------------------
(* The inductive invariant *)

(* A manifest that was published stays whole, unless a claimed row had it. *)
LEMMA PublishedStays ==
  ASSUME IInv, \A k \in Ids : RowStep(k), StoreStep, NEW i \in Ids,
         row[i].status \notin Dead \cup {"unused"}, ~Recreated(i)'
  PROVE  ~Recreated(i) /\ Kept(ManifestOf[i])
<1>1. ManifestOf[i] \in Manifests
  BY PackAssumption
<1>2. ~Recreated(i)
  BY DEF RowStep, Recreated, SamePrefix
<1>3. ASSUME NEW k \in Ids, ManifestOf[k] = ManifestOf[i], row[k].status \in Dead PROVE FALSE
  <2>1. k # i
    BY <1>3
  <2>2. row[k].status # "gone"
    BY <1>2, <1>3, <2>1 DEF Recreated, SamePrefix
  <2>3. Exists(k) /\ Exists(i)
    BY <1>3, <2>2 DEF Exists, Dead
  <2> QED BY <1>3, <2>1, <2>3 DEF IInv, OneRowPerManifest
<1> QED BY <1>1, <1>2, <1>3 DEF StoreStep

LEMMA RowInv ==
  ASSUME IInv, TypeOK', RowFacts, StoreStep
  PROVE  /\ OneRowPerManifest' /\ PublishedIsWhole' /\ UrlsHaveRows' /\ CleanedIsSettled'
         /\ CleanedStaysClean' /\ VisitKeepsItsPack' /\ FilesHaveRows'
<1>1. \A i \in Ids : RowStep(i)
  BY DEF RowFacts
<1>2. OneRowPerManifest'
  <2> SUFFICES ASSUME NEW i \in Ids, NEW k \in Ids, Exists(i)', Exists(k)',
                      ManifestOf[i] = ManifestOf[k], i # k
               PROVE  FALSE
    BY DEF OneRowPerManifest
  <2>1. Exists(i) \/ Exists(k)
    BY <1>1 DEF RowStep, Exists
  <2> QED BY <1>1, <2>1 DEF RowStep, IInv, OneRowPerManifest
<1>3. PublishedIsWhole'
  <2> SUFFICES ASSUME NEW i \in Ids, row'[i].status \in Published, ~Recreated(i)'
               PROVE  final'[ManifestOf[i]] = "good" /\ ManifestOf[i] \in manifestFile'
    BY DEF PublishedIsWhole, Published
  <2>1. row[i].status \in Published \/ Verified(i)
    BY <1>1 DEF RowStep
  <2>2. row[i].status \notin Dead \cup {"unused"}
    BY <2>1 DEF Published, Verified, Dead
  <2>3. ~Recreated(i) /\ Kept(ManifestOf[i])
    BY <1>1, <2>2, PublishedStays
  <2>4. final[ManifestOf[i]] = "good" /\ ManifestOf[i] \in manifestFile
    BY <2>1, <2>2, <2>3 DEF IInv, PublishedIsWhole, Published, Verified, VerifiedIsWhole, RequestWhole
  <2> QED BY <2>3, <2>4 DEF Kept
<1>4. UrlsHaveRows'
  <2> SUFFICES ASSUME NEW i \in Ids, row'[i].urls = "live" PROVE Exists(i)'
    BY DEF UrlsHaveRows
  <2>1. ~Quiet(i)' /\ RowStep(i)
    BY <1>1 DEF Quiet
  <2>2. Exists(i)
    BY <2>1 DEF RowStep, Quiet, Exists, IInv, UrlsHaveRows
  <2> QED BY <2>1, <2>2 DEF RowStep
<1>5. CleanedIsSettled' /\ CleanedStaysClean'
  <2> SUFFICES ASSUME NEW i \in Ids, row'[i].cleaned
               PROVE  row'[i].status \in Settled /\ staging'[i] = "none" /\ row'[i].urls # "live"
    BY DEF CleanedIsSettled, CleanedStaysClean
  <2>1. row[i].status \in Settled /\ staging[i] = "none" /\ Quiet(i)
    BY <1>1 DEF RowStep, IInv, CleanedIsSettled, CleanedStaysClean, Quiet
  <2>2. row'[i].status \in Settled /\ Quiet(i)'
    BY <1>1, <2>1 DEF RowStep, Settled, Dead
  <2> QED BY <2>1, <2>2 DEF StoreStep, Quiet
<1>6. VisitKeepsItsPack'
  <2> SUFFICES ASSUME visit' # NoPack PROVE row'[visit'].status \in Published
    BY DEF VisitKeepsItsPack, Published
  <2>1. visit' \in Ids
    BY DEF TypeOK
  <2>2. row[visit'].status \in Published
    BY DEF RowFacts, IInv, VisitKeepsItsPack, Published
  <2> QED BY <1>1, <2>1, <2>2 DEF RowStep
<1>7. FilesHaveRows'
  <2>1. ASSUME NEW i \in Ids, staging[i] # "none" PROVE Exists(i)'
    BY <1>1, <2>1 DEF RowStep, Empty, IInv, FilesHaveRows
  <2>2. ASSUME NEW i \in Ids, staging'[i] # "none" PROVE Exists(i)'
    <3>1. CASE staging'[i] = staging[i]
      BY <2>1, <2>2, <3>1
    <3>2. CASE row[i].urls = "live" /\ row'[i] = row[i]
      BY <3>2 DEF IInv, UrlsHaveRows, Exists
    <3> QED BY <2>2, <3>1, <3>2 DEF StoreStep
  <2>3. ASSUME NEW m \in Manifests, final'[m] # "none"
        PROVE  \E i \in Ids : Exists(i)' /\ ManifestOf[i] = m
    <3>1. CASE final'[m] = final[m]
      <4>1. PICK i \in Ids : Exists(i) /\ ManifestOf[i] = m
        BY <2>3, <3>1 DEF IInv, FilesHaveRows, Existing
      <4>2. Exists(i)'
        BY <1>1, <2>3, <3>1, <4>1 DEF RowStep, Empty
      <4> QED BY <4>1, <4>2
    <3>2. CASE \E i \in Ids : ManifestOf[i] = m /\ staging[i] = "good"
      BY <2>1, <3>2
    <3> QED BY <2>3, <3>1, <3>2 DEF StoreStep
  <2> QED BY <2>2, <2>3 DEF FilesHaveRows, Existing
<1> QED BY <1>2, <1>3, <1>4, <1>5, <1>6, <1>7

(* The verifications: what one has written is still there when it goes on. *)
LEMMA RequestStays ==
  ASSUME IInv, \A k \in Ids : RowStep(k), StoreStep, NEW r \in Requests,
         \/ req'[r].step = "idle"
         \/ /\ req'[r].id = req[r].id /\ req[r].step # "idle"
            /\ req'[r].step \in {"check", "manifest", "activate"} =>
                 \/ req[r].step \in {"check", "manifest", "activate"}
                 \/ final'[ManifestOf[req[r].id]] = "good"
            /\ req'[r].step = "activate" =>
                 req[r].step = "activate" \/ ManifestOf[req[r].id] \in manifestFile'
  PROVE  RequestWhole(r)'
<1> DEFINE i == req[r].id
<1>1. CASE req'[r].step = "idle"
  BY <1>1 DEF RequestWhole
<1>2. CASE req'[r].step # "idle"
  <2>1. req'[r].id = i /\ req[r].step # "idle" /\ RequestWhole(r) /\ i \in Ids /\ RowStep(i)
    BY <1>2 DEF IInv, VerifiedIsWhole, RequestWhole
  <2>2. row[i].status # "unused" /\ row'[i].status # "unused"
    BY <2>1 DEF RequestWhole, RowStep
  <2>3. ASSUME row'[i].status \notin Dead, ~Recreated(i)'
        PROVE  row[i].status \notin Dead /\ ~Recreated(i) /\ Kept(ManifestOf[i])
    <3>1. row[i].status \notin Dead
      BY <2>1, <2>3 DEF RowStep
    <3> QED BY <2>1, <2>2, <2>3, <3>1, PublishedStays
  <2> QED BY <1>2, <2>1, <2>2, <2>3 DEF RequestWhole, Kept
<1> QED BY <1>1, <1>2

LEMMA RequestsInv ==
  ASSUME IInv, Next, \A k \in Ids : RowStep(k), StoreStep
  PROVE  VerifiedIsWhole'
<1>1. req \in [Requests -> Request] /\ IdleRequest.step = "idle"
  BY DEF IInv, TypeOK, IdleRequest
<1>2. SUFFICES ASSUME NEW q \in Requests PROVE RequestWhole(q)'
  BY DEF VerifiedIsWhole, RequestWhole
<1>3. CASE req'[q] = req[q] \/ req'[q].step = "idle"
  BY <1>3, RequestStays
<1>4. ASSUME NEW r \in Requests, Verification(r) PROVE RequestWhole(q)'
  <2>1. CASE \/ StorageUnavailable(r) \/ StorageFails(r) \/ ActivateVerified(r)
             \/ Fails(r) \/ Retryable(r)
    BY <1>1, <1>3, <2>1 DEF StorageUnavailable, StorageFails, ActivateVerified, Fails, Retryable
  <2>2. ASSUME NEW step \in {"copy", "check", "manifest", "activate"}, Proceeds(r, step),
               req[r].step # "idle",
               step \in {"check", "manifest", "activate"} =>
                 \/ req[r].step \in {"check", "manifest", "activate"}
                 \/ final'[ManifestOf[req[r].id]] = "good",
               step = "activate" => ManifestOf[req[r].id] \in manifestFile'
        PROVE  RequestWhole(q)'
    <3>1. CASE q # r
      BY <1>1, <1>3, <2>2, <3>1 DEF Proceeds
    <3>2. CASE q = r
      <4>1. req'[r].id = req[r].id /\ req'[r].step = step
        BY <1>1, <2>2 DEF Proceeds, Request
      <4> QED BY <2>2, <3>2, <4>1, RequestStays
    <3> QED BY <3>1, <3>2
  <2>3. CASE Inspect(r)
    BY <2>1, <2>2, <2>3 DEF Inspect
  <2>4. CASE CopyVerifiedObject(r)
    <3>1. CASE final' = [final EXCEPT ![ManifestOf[req[r].id]] = "good"] /\ Proceeds(r, "check")
      <4>1. ManifestOf[req[r].id] \in Manifests
        BY <2>4, PackAssumption DEF CopyVerifiedObject, IInv, VerifiedIsWhole, RequestWhole
      <4>2. final'[ManifestOf[req[r].id]] = "good"
        BY <3>1, <4>1 DEF IInv, TypeOK
      <4> QED BY <2>2, <2>4, <3>1, <4>2 DEF CopyVerifiedObject
    <3> QED BY <2>1, <2>4, <3>1 DEF CopyVerifiedObject
  <2>5. CASE CheckPublished(r)
    BY <2>1, <2>2, <2>5 DEF CheckPublished
  <2>6. CASE PutManifest(r)
    BY <2>2, <2>6 DEF PutManifest
  <2> QED BY <1>4, <2>1, <2>3, <2>4, <2>5, <2>6 DEF Verification
<1>5. ASSUME NEW r \in Requests, NEW i \in Ids, CompleteAssetPack(r, i) PROVE RequestWhole(q)'
  <2>1. req' = [req EXCEPT ![r] = [step |-> "inspect", id |-> i]]
    BY <1>5 DEF CompleteAssetPack
  <2>2. CASE q # r
    BY <1>1, <1>3, <2>1, <2>2
  <2>3. CASE q = r
    <3>1. row'[i].status # "unused"
      BY <1>5 DEF CompleteAssetPack, RowStep
    <3> QED BY <1>1, <2>1, <2>3, <3>1 DEF RequestWhole
  <2> QED BY <2>2, <2>3
<1>6. CASE Crash
  BY <1>1, <1>3, <1>6 DEF Crash
<1>7. \/ req' = req \/ Crash
      \/ \E r \in Requests : Verification(r) \/ \E i \in Ids : CompleteAssetPack(r, i)
  <2>1. ASSUME NEW i \in Ids, InitiateAssetPack(i) \/ ResumeUpload(i) \/ CreateUploadUrls(i)
                              \/ ActivateAssetPack(i) \/ UrlsExpire(i)
        PROVE  req' = req
    BY <2>1 DEF InitiateAssetPack, ResumeUpload, CreateUploadUrls, ActivateAssetPack, UrlsExpire
  <2>2. ASSUME NEW j \in Jobs,
               \/ JobStep(j) \/ StartCleanup(j) \/ DeleteSupersededAssetPacks(j)
               \/ \E i \in Ids : DeleteAssetPack(j, i)
        PROVE  req' = req
    BY <2>2 DEF JobStep, PhaseEnds, DeleteObjects, Confirm, JobStorageFails, WriteRow,
                FinalizeStart, FinalizeList, FinalizePackDone, FinalizeAccount, Claim,
                FinalizePack, StartCleanup, DeleteSupersededAssetPacks, DeleteAssetPack
  <2>3. ASSUME \/ CreateInvitation \/ VisitEnds \/ DeleteAccount \/ RefreshCapability
               \/ \E retention \in BOOLEAN : DayPasses(retention)
               \/ \E i \in Ids, c \in {"good", "bad"} : PutObject(i, c)
        PROVE  req' = req
    BY <2>3 DEF CreateInvitation, VisitEnds, DeleteAccount, RefreshCapability, DayPasses, PutObject
  <2> QED BY <2>1, <2>2, <2>3 DEF Next
<1> QED BY <1>3, <1>4, <1>5, <1>6, <1>7

(* The jobs: what was emptied, under a row that gets no upload, stays empty: *)
(* a verification copies only what its own row received.                     *)
LEMMA EmptyStays ==
  ASSUME IInv, StoreStep, NEW i \in Ids, Exists(i), Quiet(i), Empty(i)
  PROVE  Empty(i)'
<1>1. ManifestOf[i] \in Manifests
  BY PackAssumption
<1>2. staging'[i] = "none"
  BY DEF StoreStep, Quiet, Empty
<1>3. ASSUME NEW k \in Ids, ManifestOf[k] = ManifestOf[i], staging[k] = "good" PROVE FALSE
  <2>1. Exists(k)
    BY <1>3 DEF IInv, FilesHaveRows
  <2> QED BY <1>3, <2>1 DEF IInv, OneRowPerManifest, Empty
<1>4. final'[ManifestOf[i]] = "none"
  BY <1>1, <1>3 DEF StoreStep, Empty
<1> QED BY <1>2, <1>4 DEF Empty

(* What is true of the work of a job stays true whatever anybody does. *)
LEMMA WorkStays ==
  ASSUME IInv, RowFacts, StoreStep, NEW w \in Job, JobHolds(w), JobEmpties(w)
  PROVE  JobHolds(w)' /\ JobEmpties(w)'
<1>1. \A i \in Ids : RowStep(i)
  BY DEF RowFacts
<1>2. w.held \subseteq Ids /\ w.todo \subseteq Ids
  BY DEF Job
<1>3. ASSUME NEW i \in Ids, row[i].status \in Dead PROVE row'[i].status \in Dead
  BY <1>1, <1>3 DEF RowStep
<1>4. ASSUME NEW i \in Ids, row[i].status \in Settled, Quiet(i)
      PROVE  row'[i].status \in Settled /\ Quiet(i)'
  BY <1>1, <1>4 DEF RowStep, Settled, Dead
<1>5. Dead \subseteq Settled
  BY DEF Settled
<1>6. JobHolds(w)'
  <2>1. w.phase # "final" => \A i \in w.held : row'[i].status \in Dead /\ Quiet(i)'
    BY <1>2, <1>3, <1>4, <1>5 DEF JobHolds
  <2>2. w.step \in {"delete", "confirm", "write"} =>
          /\ w.id \in Ids /\ Quiet(w.id)'
          /\ row'[w.id].status \in IF w.phase = "staging" THEN Settled ELSE Dead
    BY <1>3, <1>4, <1>5 DEF JobHolds
  <2>3. ASSUME w.step = "write"
        PROVE  /\ staging'[w.id] = "none"
               /\ w.phase # "staging" /\ Exists(w.id)' => final'[ManifestOf[w.id]] = "none"
    <3>1. w.id \in Ids /\ Quiet(w.id) /\ staging[w.id] = "none"
      BY <2>3 DEF JobHolds
    <3>2. staging'[w.id] = "none"
      BY <3>1 DEF StoreStep, Quiet
    <3>3. ASSUME w.phase # "staging", Exists(w.id)' PROVE final'[ManifestOf[w.id]] = "none"
      <4>1. row[w.id].status \in Dead /\ row[w.id].status # "gone"
        BY <1>1, <2>3, <3>1, <3>3 DEF JobHolds, RowStep, Exists
      <4>2. Exists(w.id) /\ Empty(w.id)
        BY <2>3, <3>1, <3>3, <4>1 DEF JobHolds, Exists, Dead, Empty
      <4> QED BY <3>1, <4>2, EmptyStays DEF Empty
    <3> QED BY <3>2, <3>3
  <2> QED BY <2>1, <2>2, <2>3 DEF JobHolds
<1>7. JobEmpties(w)'
  <2> SUFFICES ASSUME w.phase = "final"
               PROVE  /\ account' # "active"
                      /\ \A i \in w.todo : row'[i].status \in Dead
                      /\ \A i \in Ids : Exists(i)' =>
                           /\ Quiet(i)'
                           /\ \/ w.step = "list" \/ i \in w.todo
                              \/ w.id = i /\ w.step \in {"delete", "confirm"}
                              \/ Empty(i)'
    BY DEF JobEmpties
  <2>1. account # "active" /\ account' # "active"
    BY DEF JobEmpties, RowFacts
  <2>2. \A i \in w.todo : row'[i].status \in Dead
    BY <1>2, <1>3 DEF JobEmpties
  <2>3. ASSUME NEW i \in Ids, Exists(i)' PROVE Exists(i) /\ Quiet(i) /\ Quiet(i)'
    <3>1. Exists(i)
      BY <1>1, <2>1, <2>3 DEF RowStep
    <3>2. Quiet(i) /\ row[i].status \in Settled
      BY <2>1, <3>1 DEF JobEmpties, IInv, ClosedIsDead, Exists, Settled, Dead
    <3> QED BY <1>4, <3>1, <3>2
  <2> QED BY <2>1, <2>2, <2>3, EmptyStays DEF JobEmpties
<1> QED BY <1>6, <1>7

(* A job that starts a phase holds what was claimed before, and nothing of *)
(* it can be uploaded to.                                                  *)
LEMMA ListedWork ==
  ASSUME IInv, NEW phase \in {"abandon", "staging", "superseded", "portal"},
         phase = "portal" => account = "active"
  PROVE  Listed(phase) \in Job /\ JobHolds(Listed(phase)) /\ JobEmpties(Listed(phase))
<1>1. Listed(phase) \in Job
  BY ListedTypes DEF Phase
<1>2. /\ Listed(phase).phase = phase /\ Listed(phase).step = "next"
      /\ Listed(phase).held = {i \in Ids : LeftOver(phase, i)}
  BY DEF Listed
<1>3. ASSUME NEW i \in Ids, LeftOver(phase, i) PROVE row[i].status \in Dead /\ Quiet(i)
  BY <1>3 DEF LeftOver, Dead, Quiet, UploadUrlsExpired, IInv, RestedIsQuiet
<1> QED BY <1>1, <1>2, <1>3 DEF JobHolds, JobEmpties

LEMMA IdleWork == IdleJob \in Job /\ JobHolds(IdleJob) /\ JobEmpties(IdleJob)
  BY NullTypes DEF IdleJob, JobHolds, JobEmpties

LEMMA AbortedWork ==
  ASSUME IInv, NEW j \in Jobs
  PROVE  Aborted(j) \in Job /\ JobHolds(Aborted(j)) /\ JobEmpties(Aborted(j))
<1>1. Following(j, job[j].phase) \in {"staging", "superseded", "idle"}
  BY DEF Following
<1> QED BY <1>1, ListedWork, IdleWork DEF Aborted

Works(w) == w \in Job /\ JobHolds(w) /\ JobEmpties(w)

LEMMA JobsAtRest ==
  ASSUME IInv, RowFacts, StoreStep, NEW j \in Jobs, job'[j] = job[j]
  PROVE  JobHolds(job[j])' /\ JobEmpties(job[j])'
<1>1. PICK w : w = job[j]
  OBVIOUS
<1>2. w \in Job /\ JobHolds(w) /\ JobEmpties(w)
  BY <1>1 DEF IInv, TypeOK, JobsHoldTheDead, FinalEmpties
<1>3. JobHolds(w)' /\ JobEmpties(w)'
  BY <1>2, WorkStays
<1> QED BY <1>1, <1>3 DEF JobHolds, JobEmpties

(* A job goes on to work that it may do already. *)
LEMMA OneJob ==
  ASSUME IInv, RowFacts, StoreStep, NEW j \in Jobs,
         \E w : Works(w) /\ job' = [job EXCEPT ![j] = w]
  PROVE  JobsHoldTheDead' /\ FinalEmpties'
<1>1. PICK w : Works(w) /\ job' = [job EXCEPT ![j] = w]
  OBVIOUS
<1>2. JobHolds(w)' /\ JobEmpties(w)'
  BY <1>1, WorkStays DEF Works
<1>3. job'[j] = w /\ \A k \in Jobs \ {j} : job'[k] = job[k]
  BY <1>1 DEF IInv, TypeOK
<1>4. JobHolds(job[j])' /\ JobEmpties(job[j])'
  BY <1>2, <1>3 DEF JobHolds, JobEmpties
<1> QED BY <1>3, <1>4, JobsAtRest DEF JobsHoldTheDead, FinalEmpties

(* A job starts to work on a row that it claims in the same step. *)
LEMMA ClaimingJob ==
  ASSUME IInv, RowFacts, StoreStep, NEW j \in Jobs, NEW i \in Ids,
         \E w : /\ Works(w) /\ w.phase # "final"
                /\ job' = [job EXCEPT ![j] = [w EXCEPT !.step = "delete", !.id = i]]
                /\ row'[i].status \in IF w.phase = "staging" THEN Settled ELSE Dead,
         row'[i].urls # "live"
  PROVE  JobsHoldTheDead' /\ FinalEmpties'
<1>1. PICK w : /\ Works(w) /\ w.phase # "final"
               /\ job' = [job EXCEPT ![j] = [w EXCEPT !.step = "delete", !.id = i]]
               /\ row'[i].status \in IF w.phase = "staging" THEN Settled ELSE Dead
  OBVIOUS
<1>2. JobHolds(w)' /\ JobEmpties(w)'
  BY <1>1, WorkStays DEF Works
<1>3. /\ job'[j].phase = w.phase /\ job'[j].held = w.held
      /\ job'[j].step = "delete" /\ job'[j].id = i
      /\ \A k \in Jobs \ {j} : job'[k] = job[k]
  BY <1>1 DEF IInv, TypeOK, Works, Job
<1>4. JobHolds(job[j])'
  BY <1>1, <1>2, <1>3 DEF JobHolds, Quiet
<1>5. JobEmpties(job[j])'
  BY <1>1, <1>3 DEF JobEmpties
<1> QED BY <1>3, <1>4, <1>5, JobsAtRest DEF JobsHoldTheDead, FinalEmpties

LEMMA ClaimJobs ==
  ASSUME IInv, RowFacts, StoreStep, NEW j \in Jobs, NEW i \in Ids, Claim(j, i)
  PROVE  JobsHoldTheDead' /\ FinalEmpties'
<1> DEFINE w == [job[j] EXCEPT !.todo = @ \ {i}]  phase == job[j].phase
<1>1. job[j] \in Job /\ JobHolds(job[j]) /\ job \in [Jobs -> Job]
  BY DEF IInv, TypeOK, JobsHoldTheDead
<1>2. phase \in {"abandon", "staging", "superseded", "portal"} /\ job[j].step = "next"
  BY DEF Claim
<1>3. Works(w) /\ w.phase = phase
  <2>1. w \in Job /\ w.phase = phase /\ w.step = "next" /\ w.held = job[j].held
    BY <1>1, <1>2 DEF Job
  <2> QED BY <1>1, <1>2, <2>1 DEF Works, JobHolds, JobEmpties
<1>4. CASE i \notin job[j].held /\ ~Claimable(phase, i)
  <2>1. job' = [job EXCEPT ![j] = w]
    BY <1>4 DEF Claim
  <2> HIDE DEF w
  <2> QED BY <1>3, <2>1, OneJob
<1>5. CASE i \in job[j].held \/ Claimable(phase, i)
  <2>1. job' = [job EXCEPT ![j] = [w EXCEPT !.step = "delete", !.id = i]]
    <3>1. job' = [job EXCEPT ![j].step = "delete", ![j].id = i, ![j].todo = @ \ {i}]
      BY <1>5 DEF Claim
    <3>2. [w EXCEPT !.step = "delete", !.id = i]
            = [job[j] EXCEPT !.step = "delete", !.id = i, !.todo = @ \ {i}]
      BY <1>1 DEF Job
    <3> QED BY <3>1, <3>2
  <2>2. row'[i].status \in (IF phase = "staging" THEN Settled ELSE Dead) /\ row'[i].urls # "live"
    <3>1. row[i] \in Row /\ row \in [Ids -> Row]
      BY DEF IInv, TypeOK
    <3>2. CASE i \in job[j].held
      BY <1>1, <1>2, <1>5, <3>2 DEF Claim, JobHolds, Quiet, Settled
    <3>3. CASE i \notin job[j].held
      <4>1. Claimable(phase, i) /\ row' = [row EXCEPT ![i] = Claimed(phase, i)]
        BY <1>5, <3>3 DEF Claim
      <4>2. Quiet(i)
        BY <1>2, <4>1 DEF Claimable, StagingEligible, SupersededLongAgo, UploadUrlsExpired,
                          Quiet, IInv, RestedIsQuiet
      <4>3. CASE phase = "staging"
        <5>1. row[i].status = "active" /\ row' = [row EXCEPT ![i] = [row[i] EXCEPT !.failure = "running"]]
          BY <4>1, <4>3 DEF Claimable, StagingEligible, Claimed
        <5> QED BY <3>1, <4>2, <4>3, <5>1 DEF Row, Settled, Quiet
      <4>4. CASE phase # "staging"
        <5>1. \E s \in {"abandoning", "deleting"} : row' = [row EXCEPT ![i] = WithStatus(i, s)]
          BY <4>1, <4>4 DEF Claimed
        <5> QED BY <3>1, <4>2, <4>4, <5>1 DEF WithStatus, Row, Dead, Quiet
      <4> QED BY <4>3, <4>4
    <3> QED BY <3>2, <3>3
  <2> HIDE DEF w
  <2> QED BY <1>2, <1>3, <2>1, <2>2, ClaimingJob
<1> QED BY <1>4, <1>5

LEMMA DeletionFailedWork ==
  ASSUME IInv, NEW j \in Jobs, DeletionFailed(j)
  PROVE  \E w : Works(w) /\ job' = [job EXCEPT ![j] = w]
<1>1. job[j] \in Job /\ JobHolds(job[j])
  BY DEF IInv, TypeOK, JobsHoldTheDead
<1>2. CASE job[j].phase \in {"abandon", "staging", "superseded"}
  <2>1. Works([job[j] EXCEPT !.step = "next", !.id = NoPack])
    BY <1>1, <1>2 DEF Works, JobHolds, JobEmpties, Job
  <2> QED BY <1>2, <2>1 DEF DeletionFailed
<1>3. CASE job[j].phase \notin {"abandon", "staging", "superseded"}
  BY <1>3, IdleWork DEF DeletionFailed, Works
<1> QED BY <1>2, <1>3

(* What each step of a job leaves it to do, it may do already: only a      *)
(* claim is different.                                                     *)
LEMMA JobStepWork ==
  ASSUME IInv, NEW j \in Jobs,
         \/ StartCleanup(j) \/ DeleteSupersededAssetPacks(j) \/ PhaseEnds(j) \/ DeleteObjects(j)
         \/ Confirm(j) \/ JobStorageFails(j) \/ WriteRow(j) \/ FinalizeStart(j) \/ FinalizeList(j)
         \/ FinalizePackDone(j) \/ FinalizeAccount(j) \/ \E i \in Ids : FinalizePack(j, i)
  PROVE  \E w : Works(w) /\ job' = [job EXCEPT ![j] = w]
<1>1. job[j] \in Job /\ JobHolds(job[j]) /\ JobEmpties(job[j])
  BY DEF IInv, TypeOK, JobsHoldTheDead, FinalEmpties
<1>2. CASE StartCleanup(j) \/ DeleteSupersededAssetPacks(j)
  <2>1. account = "active" => Works(Listed("portal"))
    BY ListedWork DEF Works
  <2>2. Works(Listed("abandon"))
    BY ListedWork DEF Works
  <2> QED BY <1>2, <2>1, <2>2 DEF StartCleanup, DeleteSupersededAssetPacks
<1>3. CASE PhaseEnds(j)
  <2>1. Following(j, job[j].phase) \in {"staging", "superseded", "idle"}
    BY DEF Following
  <2>2. Works(IdleJob) /\ \A phase \in {"staging", "superseded"} : Works(Listed(phase))
    BY ListedWork, IdleWork DEF Works
  <2> QED BY <1>3, <2>1, <2>2 DEF PhaseEnds
<1>4. CASE DeleteObjects(j)
  <2>1. Works([job[j] EXCEPT !.step = "confirm"])
    BY <1>1, <1>4 DEF DeleteObjects, Works, JobHolds, JobEmpties, Job
  <2> QED BY <1>4, <2>1 DEF DeleteObjects
<1>5. CASE Confirm(j)
  <2>1. CASE DeletionFailed(j)
    BY <2>1, DeletionFailedWork
  <2>2. CASE PrefixDeleted(job[j].phase, job[j].id) /\ job' = [job EXCEPT ![j].step = "write"]
    <3> DEFINE i == job[j].id
    <3>1. i \in Ids /\ job[j].step = "confirm"
      BY <1>1, <1>5 DEF Confirm, JobHolds
    <3>2. staging[i] = "none" /\ (job[j].phase # "staging" => final[ManifestOf[i]] = "none")
      BY <2>2, <3>1 DEF PrefixDeleted, SamePrefix
    <3>3. /\ [job[j] EXCEPT !.step = "write"] \in Job
          /\ JobHolds([job[j] EXCEPT !.step = "write"])
      BY <1>1, <3>1, <3>2 DEF JobHolds, Job
    <3>4. JobEmpties([job[j] EXCEPT !.step = "write"])
      BY <1>1, <3>1, <3>2 DEF JobEmpties, Job, Empty
    <3> QED BY <2>2, <3>3, <3>4 DEF Works
  <2> QED BY <1>5, <2>1, <2>2 DEF Confirm
<1>6. CASE JobStorageFails(j)
  BY <1>6, DeletionFailedWork DEF JobStorageFails
<1>7. CASE WriteRow(j)
  <2>1. job[j].phase # "final" => Works([job[j] EXCEPT !.step = "next", !.id = NoPack])
    BY <1>1 DEF Works, JobHolds, JobEmpties, Job
  <2>2. Works(Aborted(j)) /\ Works(IdleJob)
    BY AbortedWork, IdleWork DEF Works
  <2>3. \/ job' = [job EXCEPT ![j] = [job[j] EXCEPT !.step = "next", !.id = NoPack]]
        \/ job' = [job EXCEPT ![j] = Aborted(j)]
        \/ job' = [job EXCEPT ![j] = IdleJob]
    <3>1. [job EXCEPT ![j].step = "next", ![j].id = NoPack]
            = [job EXCEPT ![j] = [job[j] EXCEPT !.step = "next", !.id = NoPack]]
      BY DEF IInv, TypeOK
    <3> QED BY <1>7, <3>1 DEF WriteRow
  <2> QED BY <1>7, <2>1, <2>2, <2>3 DEF WriteRow
<1>8. CASE FinalizeStart(j)
  <2> DEFINE w == [IdleJob EXCEPT !.phase = "final", !.step = "list", !.held = Existing]
  <2>1. /\ w \in Job /\ w.phase = "final" /\ w.step = "list" /\ w.todo = {}
    <3>1. Existing \in SUBSET Ids
      BY DEF Existing
    <3> QED BY <3>1, NullTypes DEF IdleJob, Job, Phase
  <2>2. /\ account # "active" /\ \A i \in Ids : Exists(i) => Quiet(i)
        /\ job' = [job EXCEPT ![j] = w]
    BY <1>8 DEF FinalizeStart, DeletionDue, Existing, UploadUrlsExpired, Quiet
  <2> HIDE DEF w
  <2>3. Works(w)
    BY <2>1, <2>2 DEF Works, JobHolds, JobEmpties
  <2> QED BY <2>2, <2>3
<1>9. CASE FinalizeList(j)
  <2> DEFINE w == [job[j] EXCEPT !.step = "next", !.todo = Existing, !.seen = Existing]
  <2>1. w \in Job /\ w.phase = "final" /\ w.step = "next" /\ w.todo = Existing
    <3>1. Existing \in SUBSET Ids
      BY DEF Existing
    <3>2. job[j].phase = "final"
      BY <1>1, <1>9 DEF FinalizeList, JobEmpties
    <3> QED BY <1>1, <3>1, <3>2 DEF Job
  <2>2. job' = [job EXCEPT ![j] = w] /\ job[j].step = "list"
    BY <1>9 DEF FinalizeList
  <2>3. account # "active" /\ \A i \in Ids : Exists(i) => Quiet(i) /\ row[i].status \in Dead
    BY <1>1, <2>2 DEF JobEmpties, IInv, ClosedIsDead, Exists, Dead
  <2> HIDE DEF w
  <2>4. Works(w)
    BY <2>1, <2>3 DEF Works, JobHolds, JobEmpties, Existing
  <2> QED BY <2>2, <2>4
<1>10. CASE FinalizePackDone(j)
  <2> DEFINE w == [job[j] EXCEPT !.step = "next", !.id = NoPack]
  <2>1. /\ w \in Job /\ w.phase = "final" /\ w.step = "next" /\ w.todo = job[j].todo
        /\ job[j].step = "write" /\ job[j].phase = "final"
    BY <1>1, <1>10 DEF FinalizePackDone, Job
  <2>2. job' = [job EXCEPT ![j] = w]
    BY <1>10 DEF FinalizePackDone
  <2> HIDE DEF w
  <2>3. Works(w)
    BY <1>1, <2>1 DEF Works, JobHolds, JobEmpties
  <2> QED BY <2>2, <2>3
<1>11. CASE FinalizeAccount(j)
  BY <1>11, IdleWork DEF FinalizeAccount, Works
<1>12. ASSUME NEW i \in Ids, FinalizePack(j, i)
       PROVE  \E w : Works(w) /\ job' = [job EXCEPT ![j] = w]
  <2> DEFINE w == [job[j] EXCEPT !.step = "delete", !.id = i, !.todo = @ \ {i}]
  <2>1. /\ w \in Job /\ w.phase = "final" /\ w.step = "delete" /\ w.id = i
        /\ w.todo = job[j].todo \ {i}
        /\ job[j].step = "next" /\ job[j].phase = "final" /\ i \in job[j].todo
    BY <1>1, <1>12 DEF FinalizePack, Job
  <2>2. job' = [job EXCEPT ![j] = w]
    BY <1>12 DEF FinalizePack
  <2>3. row[i].status \in Dead /\ Quiet(i)
    BY <1>1, <2>1 DEF JobEmpties, IInv, UrlsHaveRows, Quiet
  <2> HIDE DEF w
  <2>4. Works(w)
    BY <1>1, <2>1, <2>3 DEF Works, JobHolds, JobEmpties
  <2> QED BY <2>2, <2>4
<1> QED BY <1>2, <1>3, <1>4, <1>5, <1>6, <1>7, <1>8, <1>9, <1>10, <1>11, <1>12

LEMMA DeleteAssetPackJobs ==
  ASSUME IInv, RowFacts, StoreStep, NEW j \in Jobs, NEW i \in Ids, DeleteAssetPack(j, i)
  PROVE  JobsHoldTheDead' /\ FinalEmpties'
<1> DEFINE w == [IdleJob EXCEPT !.phase = "owner"]
<1>1. w \in Job /\ w.phase = "owner" /\ w.step = "next" /\ w.held = {}
  BY NullTypes DEF IdleJob, Job, Phase
<1>2. job' = [job EXCEPT ![j] = [w EXCEPT !.step = "delete", !.id = i]]
  BY DEF DeleteAssetPack, IdleJob
<1>3. row'[i].status \in Dead /\ row'[i].urls # "live"
  <2>1. row[i] \in Row /\ row \in [Ids -> Row]
    BY DEF IInv, TypeOK
  <2>2. row' = [row EXCEPT ![i] = WithStatus(i, "deleting")] /\ row[i].urls # "live"
    BY DEF DeleteAssetPack, UploadUrlsExpired
  <2> QED BY <2>1, <2>2 DEF WithStatus, Row, Dead
<1> HIDE DEF w
<1>4. Works(w)
  BY <1>1 DEF Works, JobHolds, JobEmpties
<1> QED BY <1>1, <1>2, <1>3, <1>4, ClaimingJob

LEMMA JobsInv ==
  ASSUME IInv, Next, RowFacts, StoreStep
  PROVE  JobsHoldTheDead' /\ FinalEmpties'
<1>1. ASSUME NEW j \in Jobs,
             \/ JobStep(j) \/ StartCleanup(j) \/ DeleteSupersededAssetPacks(j)
             \/ \E i \in Ids : DeleteAssetPack(j, i)
      PROVE  JobsHoldTheDead' /\ FinalEmpties'
  <2>1. CASE \E i \in Ids : DeleteAssetPack(j, i)
    BY <2>1, DeleteAssetPackJobs
  <2>2. CASE \E i \in Ids : Claim(j, i)
    BY <2>2, ClaimJobs
  <2>3. CASE ~(\E i \in Ids : DeleteAssetPack(j, i)) /\ ~(\E i \in Ids : Claim(j, i))
    BY <1>1, <2>3, JobStepWork, OneJob DEF JobStep
  <2> QED BY <2>1, <2>2, <2>3
<1>2. CASE job' = job
  BY <1>2, JobsAtRest DEF JobsHoldTheDead, FinalEmpties
<1>3. CASE Crash
  BY <1>3 DEF Crash, IdleJob, JobsHoldTheDead, FinalEmpties, JobHolds, JobEmpties
<1>4. \/ job' = job \/ Crash
      \/ \E j \in Jobs : \/ JobStep(j) \/ StartCleanup(j) \/ DeleteSupersededAssetPacks(j)
                         \/ \E i \in Ids : DeleteAssetPack(j, i)
  <2>1. ASSUME NEW i \in Ids, InitiateAssetPack(i) \/ ResumeUpload(i) \/ CreateUploadUrls(i)
                              \/ ActivateAssetPack(i) \/ UrlsExpire(i)
        PROVE  job' = job
    BY <2>1 DEF InitiateAssetPack, ResumeUpload, CreateUploadUrls, ActivateAssetPack, UrlsExpire
  <2>2. ASSUME NEW r \in Requests, Verification(r) \/ \E i \in Ids : CompleteAssetPack(r, i)
        PROVE  job' = job
    BY <2>2 DEF Verification, Inspect, CopyVerifiedObject, CheckPublished, PutManifest,
                ActivateVerified, StorageUnavailable, StorageFails, CompleteAssetPack
  <2>3. ASSUME \/ CreateInvitation \/ VisitEnds \/ DeleteAccount \/ RefreshCapability
               \/ \E retention \in BOOLEAN : DayPasses(retention)
               \/ \E i \in Ids, c \in {"good", "bad"} : PutObject(i, c)
        PROVE  job' = job
    BY <2>3 DEF CreateInvitation, VisitEnds, DeleteAccount, RefreshCapability, DayPasses, PutObject
  <2> QED BY <2>1, <2>2, <2>3 DEF Next
<1> QED BY <1>1, <1>2, <1>3, <1>4

LEMMA InitInv == Init => IInv
<1> SUFFICES ASSUME Init PROVE IInv
  OBVIOUS
<1>1. TypeOK
  <2>1. 0 \in 0 .. MaxFaults /\ "none" \in Content
    BY PackAssumption DEF Content
  <2> QED BY <2>1, NullTypes DEF Init, TypeOK
<1>2. /\ \A i \in Ids : /\ row[i].status = "unused" /\ row[i].urls = "none"
                       /\ row[i].cleaned = FALSE /\ staging[i] = "none"
      /\ \A m \in Manifests : final[m] = "none"
      /\ active = NoPack /\ account = "active" /\ visit = NoPack
  BY DEF Init, Unused
<1>3. /\ \A r \in Requests : req[r].step = "idle"
      /\ \A j \in Jobs : job[j] = IdleJob
  BY DEF Init, IdleRequest
<1>4. OneRowPerManifest /\ PointerIsActive /\ PublishedIsWhole /\ VerifiedIsWhole
  BY <1>2, <1>3, PackAssumption
  DEF OneRowPerManifest, Exists, PointerIsActive, PublishedIsWhole, VerifiedIsWhole, RequestWhole
<1>5. ClosedIsDead /\ RestedIsQuiet /\ JobsHoldTheDead /\ FinalEmpties
  BY <1>2, <1>3, IdleWork DEF ClosedIsDead, RestedIsQuiet, JobsHoldTheDead, FinalEmpties
<1>6. UrlsHaveRows /\ CleanedIsSettled /\ CleanedStaysClean /\ VisitKeepsItsPack /\ FilesHaveRows
  BY <1>2 DEF UrlsHaveRows, CleanedIsSettled, CleanedStaysClean, VisitKeepsItsPack, FilesHaveRows
<1> QED BY <1>1, <1>4, <1>5, <1>6 DEF IInv

LEMMA StepInv == IInv /\ [Next]_vars => IInv'
<1> SUFFICES ASSUME IInv, [Next]_vars PROVE IInv'
  OBVIOUS
<1>1. CASE Next
  <2>1. VerifiesRow /\ DeletesRow /\ TypeOK
    BY DEF IInv, VerifiesRow, VerifiedIsWhole, RequestWhole, DeletesRow, JobsHoldTheDead, JobHolds
  <2>2. TypeOK'
    BY <1>1, <2>1, NextTypes
  <2>3. RowFacts /\ StoreStep /\ \A i \in Ids : RowStep(i)
    BY <1>1, NextRows, NextStore DEF RowFacts
  <2>4. PointerIsActive' /\ ClosedIsDead' /\ RestedIsQuiet'
    BY <2>3 DEF RowFacts
  <2> QED BY <1>1, <2>2, <2>3, <2>4, RowInv, RequestsInv, JobsInv DEF IInv
<1>2. CASE UNCHANGED vars
  <2>1. StoreStep /\ RowFacts /\ \A i \in Ids : RowStep(i)
    BY <1>2, SameStore, SameRows DEF vars, store, RowFacts
  <2>2. TypeOK' /\ PointerIsActive' /\ ClosedIsDead' /\ RestedIsQuiet'
    BY <1>2, <2>1 DEF vars, IInv, TypeOK, RowFacts
  <2>3. VerifiedIsWhole'
    <3>1. ASSUME NEW r \in Requests PROVE RequestWhole(r)'
      BY <1>2, <2>1, RequestStays DEF vars
    <3> QED BY <3>1 DEF VerifiedIsWhole
  <2>4. JobsHoldTheDead' /\ FinalEmpties'
    BY <1>2, <2>1, JobsAtRest DEF vars, JobsHoldTheDead, FinalEmpties
  <2> QED BY <2>1, <2>2, <2>3, <2>4, RowInv DEF IInv
<1> QED BY <1>1, <1>2

(* The invariant holds of every state that AssetPacks reaches. *)
THEOREM Invariance == Spec => []IInv
<1> QED BY InitInv, StepInv, PTL DEF Spec

-----------------------------------------------------------------------------

(* The rows, the objects, the requests and the jobs of AssetPacks keep     *)
(* their types.                                                            *)
THEOREM TypeCorrectness == Spec => []TypeOK
<1>1. IInv => TypeOK
  BY DEF IInv
<1> QED BY Invariance, <1>1, PTL

(* The companion's pointer names the one active pack, and the objects      *)
(* published for it are complete whatever the cleanups and the account     *)
(* deletion remove, unless its manifest had an earlier row.                *)
THEOREM ActivePacksAreWhole == Spec => []ActivePackIsWhole
<1>1. IInv => ActivePackIsWhole
  <2> SUFFICES ASSUME IInv PROVE ActivePackIsWhole
    OBVIOUS
  <2>1. active # NoPack => active \in Ids /\ row[active].status = "active"
    BY DEF IInv, TypeOK, PointerIsActive
  <2> QED BY <2>1 DEF ActivePackIsWhole, IInv, PointerIsActive, PublishedIsWhole
<1> QED BY Invariance, <1>1, PTL

(* Neither cleanup claims the pack that a visit refers to. *)
THEOREM VisitsKeepTheirPacks == Spec => []VisitKeepsItsPack
<1>1. IInv => VisitKeepsItsPack
  BY DEF IInv
<1> QED BY Invariance, <1>1, PTL

(* stagingCleanedAt is final: nothing is staged for the row any more. *)
THEOREM CleanedPacksStayClean == Spec => []CleanedStaysClean
<1>1. IInv => CleanedStaysClean
  BY DEF IInv
<1> QED BY Invariance, <1>1, PTL

(* No cleanup and no account deletion leaves a file in R2 without a row.   *)
THEOREM NoFileIsLost == Spec => []FilesHaveRows
<1>1. IInv => FilesHaveRows
  BY DEF IInv
<1> QED BY Invariance, <1>1, PTL

(* A row that was claimed for deletion never comes back to use: no         *)
(* verification, resumed upload or activation that was under way when it   *)
(* was claimed changes that.                                               *)
THEOREM ClaimsAreFinal ==
  Spec => [][\A i \in Ids : row[i].status \in Dead => row'[i].status \in Dead]_vars
<1>1. IInv /\ [Next]_vars =>
        [\A i \in Ids : row[i].status \in Dead => row'[i].status \in Dead]_vars
  <2> SUFFICES ASSUME IInv, Next, NEW i \in Ids, row[i].status \in Dead
               PROVE  row'[i].status \in Dead
    OBVIOUS
  <2> QED BY NextRows DEF RowFacts, RowStep
<1> QED BY Invariance, <1>1, PTL DEF Spec
=============================================================================
