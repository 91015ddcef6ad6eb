------------------------------- MODULE FileUpload -------------------------------
(***************************************************************************)
(* Telemetry Files upload, lib/zephyr-layer/iotc_file_upload.c.            *)
(*                                                                         *)
(* Discovery, which init() runs on the application's thread, leaves the    *)
(* strings an upload needs: iotc-c-lib keeps the credentials URL and the   *)
(* client id, iotc_fu_identity_hook() the announce topic, the bucket and   *)
(* the role.  A worker thread uploads: it tests them once and reads them   *)
(* again between four network round trips, and nothing keeps discovery     *)
(* from replacing them meanwhile.  Identity responses are numbered, and a  *)
(* string holds the number of the response it came from, 0 for NULL.       *)
(***************************************************************************)
EXTENDS Naturals

CONSTANT MaxIdentities    \* bound: identity responses in one behaviour

ASSUME IdentitiesAssumption == MaxIdentities \in Nat

VARIABLES
    disc,         \* where discovery stands; at "null" the hook has freed its
                  \* three strings and not yet cleared the pointers
    seen,         \* number of identity responses so far
    offer,        \* what each response says of File Support
    fs_creds_url, client_id,             \* iotc-c-lib's configuration
    fu_topic, fu_bucket, fu_role_arn,    \* iotc_file_upload.c
    up,           \* where iotc_fu_upload() stands
    url,          \* the URL its first request is reading
    bucket,       \* the bucket copied into the host name of the PUT
    signer,       \* the role whose credentials sign it, 0 for the provider's
    heap,         \* what the upload has allocated and not freed
    (* history of the current or last upload *)
    stored,       \* the bucket its file was stored in, 0 for none
    announced,    \* the topic it was announced on, 0 for none
    overlap,      \* discovery ran at the same time
    stray         \* it read a string that was NULL or freed

hooked == <<fu_topic, fu_bucket, fu_role_arn>>
config == <<fs_creds_url, client_id>>
discVars == <<disc, seen, offer>>
request == <<url, bucket, signer>>
vars == <<discVars, config, hooked, up, request, heap, stored, announced, overlap, stray>>

Identity == 0..MaxIdentities
Offers   == {"off", "platform", "customer"}   \* who owns the bucket chosen
Uploading == up # "idle"
-----------------------------------------------------------------------------
(***************************************************************************)
(* Discovery, iotc_dra_run().                                              *)
(***************************************************************************)
Overlaps == overlap' = (overlap \/ Uploading)

\* init() resets iotc-c-lib before it runs discovery; deinit() leaves the
\* same state as a discovery that fails.
DiscoverStart ==
    /\ disc = "idle"
    /\ disc' = "requests"
    /\ fs_creds_url' = 0 /\ client_id' = 0
    /\ Overlaps
    /\ UNCHANGED <<seen, offer, hooked, up, request, heap, stored, announced, stray>>

DiscoverFails ==
    /\ disc = "requests"
    /\ disc' = "idle"
    /\ Overlaps
    /\ UNCHANGED <<seen, offer, config, hooked, up, request, heap, stored, announced, stray>>

\* The identity response arrives and configures iotc-c-lib; one without File
\* Support carries no credentials URL.
DiscoverAnswer ==
    /\ disc = "requests" /\ seen < MaxIdentities
    /\ seen' = seen + 1
    /\ \E o \in Offers :
          /\ offer' = [offer EXCEPT ![seen'] = o]
          /\ fs_creds_url' \in IF o = "off" THEN {0} ELSE {0, seen'}
    /\ client_id' = seen'
    /\ disc' = "hook"
    /\ Overlaps
    /\ UNCHANGED <<hooked, up, request, heap, stored, announced, stray>>

\* The hook's own parse of the response runs out of memory: all stays.
HookParseFails ==
    /\ disc = "hook"
    /\ disc' = "idle"
    /\ Overlaps
    /\ UNCHANGED <<seen, offer, config, hooked, up, request, heap, stored, announced, stray>>

HookFree ==
    /\ disc = "hook"
    /\ disc' = "null"
    /\ Overlaps
    /\ UNCHANGED <<seen, offer, config, hooked, up, request, heap, stored, announced, stray>>

\* Mutant: a role is replaced but never cleared.
HookCaptureKeepsRole ==
    /\ disc = "null"
    /\ fu_topic' \in IF offer[seen] = "off" THEN {0} ELSE {0, seen}
    /\ fu_bucket' \in IF offer[seen] = "off" THEN {0} ELSE {0, seen}
    /\ fu_role_arn' = IF offer[seen] = "customer" THEN seen ELSE fu_role_arn
    /\ disc' = "idle"
    /\ Overlaps
    /\ UNCHANGED <<seen, offer, config, up, request, heap, stored, announced, stray>>

\* Mutant: a topic is replaced but never cleared.
HookCaptureKeepsTopic ==
    /\ disc = "null"
    /\ fu_topic' \in IF offer[seen] = "off" THEN {fu_topic} ELSE {fu_topic, seen}
    /\ fu_bucket' \in IF offer[seen] = "off" THEN {0} ELSE {0, seen}
    /\ fu_role_arn' \in IF offer[seen] = "customer" THEN {0, seen} ELSE {0}
    /\ disc' = "idle"
    /\ Overlaps
    /\ UNCHANGED <<seen, offer, config, up, request, heap, stored, announced, stray>>

\* The pointers are cleared and the strings of the response copied; each may
\* be missing there or not fit the heap.
HookCapture ==
    /\ disc = "null"
    /\ fu_topic' \in IF offer[seen] = "off" THEN {0} ELSE {0, seen}
    /\ fu_bucket' \in IF offer[seen] = "off" THEN {0} ELSE {0, seen}
    /\ fu_role_arn' \in IF offer[seen] = "customer" THEN {0, seen} ELSE {0}
    /\ disc' = "idle"
    /\ Overlaps
    /\ UNCHANGED <<seen, offer, config, up, request, heap, stored, announced, stray>>
-----------------------------------------------------------------------------
(***************************************************************************)
(* iotc_fu_upload(), on a worker thread.                                   *)
(***************************************************************************)

\* Mutant: the bucket is not asked for.
AvailableAnyBucket == fs_creds_url # 0 /\ client_id # 0 /\ fu_topic # 0

\* iotc_fu_available().
Available == fs_creds_url # 0 /\ client_id # 0 /\ fu_topic # 0 /\ fu_bucket # 0

\* A string of the hook that cannot be read: NULL, or freed and not cleared.
Stray(s) == s = 0 \/ disc = "null"

\* The error path: both sets of credentials are freed.
Fail == up' = "idle" /\ heap' = {} /\ UNCHANGED <<request, stored, announced>>

UploadStart ==
    /\ up = "idle" /\ Available
    /\ up' = "url"
    /\ stored' = 0 /\ announced' = 0
    /\ overlap' = (disc # "idle") /\ stray' = FALSE
    /\ UNCHANGED <<discVars, config, hooked, request, heap>>

\* The URL is split in place: the request goes on reading its path.
UploadUrl ==
    /\ up = "url"
    /\ stray' = (stray \/ fs_creds_url = 0 \/ client_id = 0)
    /\ \/ Fail
       \/ url' = fs_creds_url /\ up' = "provider"
          /\ UNCHANGED <<bucket, signer, heap, stored, announced>>
    /\ UNCHANGED <<discVars, config, hooked, overlap>>

\* fetch_credentials() over mutual TLS.
UploadProvider ==
    /\ up = "provider"
    /\ stray' = (stray \/ url # fs_creds_url)
    /\ \/ Fail
       \/ heap' = {"provider"} /\ up' = "role" /\ UNCHANGED <<request, stored, announced>>
    /\ UNCHANGED <<discVars, config, hooked, overlap>>

\* A bucket the customer owns has a role to assume; it is copied into the
\* body of the request at once.
UploadRole ==
    /\ up = "role"
    /\ signer' = fu_role_arn
    /\ IF fu_role_arn = 0
       THEN up' = "sign" /\ UNCHANGED stray
       ELSE up' = "assume" /\ stray' = (stray \/ Stray(fu_role_arn) \/ client_id = 0)
    /\ UNCHANGED <<discVars, config, hooked, url, bucket, heap, stored, announced, overlap>>

\* Mutant: a refused role returns at once.
UploadAssumeReturns ==
    /\ up = "assume"
    /\ \/ up' = "idle" /\ UNCHANGED heap
       \/ heap' = heap \cup {"role"} /\ up' = "sign"
    /\ UNCHANGED <<discVars, config, hooked, request, stored, announced, overlap, stray>>

\* sts_assume_role().
UploadAssume ==
    /\ up = "assume"
    /\ \/ Fail
       \/ heap' = heap \cup {"role"} /\ up' = "sign" /\ UNCHANGED <<request, stored, announced>>
    /\ UNCHANGED <<discVars, config, hooked, overlap, stray>>

\* The host and the key of the object, and the signature with its header.
UploadSign ==
    /\ up = "sign"
    /\ stray' = (stray \/ Stray(fu_bucket) \/ client_id = 0)
    /\ \/ Fail
       \/ bucket' = fu_bucket /\ heap' = heap \cup {"token"} /\ up' = "put"
          /\ UNCHANGED <<url, signer, stored, announced>>
    /\ UNCHANGED <<discVars, config, hooked, overlap>>

\* The PUT: stored, refused, or not answered.  The header is freed first.
UploadPut ==
    /\ up = "put"
    /\ \/ Fail
       \/ stored' = bucket /\ heap' = heap \ {"token"} /\ up' = "announce"
          /\ UNCHANGED <<request, announced>>
    /\ UNCHANGED <<discVars, config, hooked, overlap, stray>>

\* The record is published, and what becomes of it is not asked; or it does
\* not fit the heap.
UploadAnnounce ==
    /\ up = "announce"
    /\ \/ Fail /\ UNCHANGED stray
       \/ /\ announced' \in {0, fu_topic}
          /\ stray' = (stray \/ Stray(fu_topic))
          /\ up' = "idle" /\ heap' = {}
          /\ UNCHANGED <<request, stored>>
    /\ UNCHANGED <<discVars, config, hooked, overlap>>
-----------------------------------------------------------------------------
Init ==
    /\ disc = "idle" /\ seen = 0 /\ offer = [i \in 1..MaxIdentities |-> "off"]
    /\ fs_creds_url = 0 /\ client_id = 0
    /\ fu_topic = 0 /\ fu_bucket = 0 /\ fu_role_arn = 0
    /\ up = "idle" /\ url = 0 /\ bucket = 0 /\ signer = 0 /\ heap = {}
    /\ stored = 0 /\ announced = 0 /\ overlap = FALSE /\ stray = FALSE

Discovery == DiscoverStart \/ DiscoverFails \/ DiscoverAnswer
             \/ HookParseFails \/ HookFree \/ HookCapture

InUpload == UploadUrl \/ UploadProvider \/ UploadRole \/ UploadAssume
            \/ UploadSign \/ UploadPut \/ UploadAnnounce

Next == Discovery \/ UploadStart \/ InUpload

Spec == Init /\ [][Next]_vars
-----------------------------------------------------------------------------
TypeOK ==
    /\ disc \in {"idle", "requests", "hook", "null"} /\ seen \in Identity
    /\ offer \in [1..MaxIdentities -> Offers]
    /\ fs_creds_url \in Identity /\ client_id \in Identity
    /\ fu_topic \in Identity /\ fu_bucket \in Identity /\ fu_role_arn \in Identity
    /\ up \in {"idle", "url", "provider", "role", "assume", "sign", "put", "announce"}
    /\ url \in Identity /\ bucket \in Identity /\ signer \in Identity
    /\ heap \subseteq {"provider", "role", "token"}
    /\ stored \in Identity /\ announced \in Identity
    /\ overlap \in BOOLEAN /\ stray \in BOOLEAN

\* The one test at the start is enough, as long as no discovery runs beside
\* the upload: whatever came before, discoveries that failed, responses
\* without File Support and copies that did not fit the heap, the upload
\* reads no string that is NULL or freed.
StrayNeedsOverlap == stray => overlap

\* A role is only ever assumed for the bucket it came with, and only if that
\* bucket is the customer's: no role survives from an earlier response.
SignerFitsBucket ==
    up = "put" /\ ~overlap /\ signer # 0 => signer = bucket /\ offer[bucket] = "customer"

\* A file announced on the topic of one response was stored before, in the
\* bucket of that same response, unless discovery ran beside the upload.
AnnouncedIsStored == announced # 0 /\ ~overlap => stored = announced

\* Whatever step fails, the upload frees what it allocated.
NothingLeaks == ~Uploading => heap = {}
=============================================================================
