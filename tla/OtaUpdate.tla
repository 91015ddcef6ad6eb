------------------------------- MODULE OtaUpdate -------------------------------
(***************************************************************************)
(* IOTCONNECT OTA into MCUboot, lib/zephyr-layer/iotc_ota.c.               *)
(*                                                                         *)
(* The C2D work queue runs iotc_ota_handle(), the lowest-priority OTA      *)
(* thread downloads, marks, persists and reboots, and the main thread runs *)
(* iotc_ota_confirm_if_pending() after every connect.  The device may lose *)
(* power between any two steps; flash survives and RAM does not.  MCUboot, *)
(* which decides at each boot what runs, is external and modelled from the *)
(* calls the code makes.  An update job is identified with the image it    *)
(* installs and with its ack id.                                           *)
(***************************************************************************)
EXTENDS Naturals

CONSTANTS
    Jobs,           \* update jobs the platform may push
    Factory,        \* the image the device starts with
    None, Torn,     \* no job; a slot whose contents are no valid image
    MaxDeliveries,  \* bound: deliveries of one job, duplicates included
    MaxCrashes      \* bound: resets nobody asked for

ASSUME OtaAssumption ==
    /\ Factory \notin Jobs /\ None \notin Jobs /\ Torn \notin Jobs \cup {Factory, None}
    /\ None # Factory
    /\ MaxDeliveries \in Nat /\ MaxCrashes \in Nat

VARIABLES
    (* flash *)
    slot0, slot1,   \* image in the primary and in the secondary slot
    swap,           \* what MCUboot will do at the next boot
    image_ok,       \* the running image is confirmed
    stored,         \* settings entry iotc_ota/ack
    (* RAM *)
    job_busy, job, job_sem,
    handling,       \* event iotc_ota_handle() has accepted and not yet handed on
    c2d,            \* where the C2D work queue stands with it
    ota,            \* where the OTA thread stands
    pending,        \* pending_ack, None while have_pending_ack is false
    conf,           \* where iotc_ota_confirm_if_pending() stands
    link,           \* connected to the platform
    (* environment and history *)
    delivered,      \* deliveries of each job so far
    crashes,
    done, failed,   \* jobs whose DOWNLOAD_DONE, DOWNLOAD_FAILED got through
    online          \* images that have been connected to the platform

flashVars == <<slot0, slot1, swap, image_ok>>
jobVars   == <<job_busy, job, job_sem>>
c2dVars   == <<handling, c2d>>
mainVars  == <<pending, conf>>
histVars  == <<done, failed, online>>
vars == <<flashVars, stored, jobVars, c2dVars, ota, mainVars, link, delivered, crashes, histVars>>

Images == Jobs \cup {Factory}
-----------------------------------------------------------------------------
\* An OTA acknowledgement is published once and may be lost; offline it is
\* dropped by the transport.
ReportDone(j) ==
    /\ \/ UNCHANGED done
       \/ link /\ done' = done \cup {j}
    /\ UNCHANGED <<failed, online>>

ReportFailed(j) ==
    /\ \/ UNCHANGED failed
       \/ link /\ failed' = failed \cup {j}
    /\ UNCHANGED <<done, online>>

\* An update event reaches the handler: the device is connected, and the
\* work queue runs one handler at a time.
Event(j) ==
    /\ link /\ c2d = "idle"
    /\ delivered[j] < MaxDeliveries
    /\ delivered' = [delivered EXCEPT ![j] = @ + 1]
    /\ UNCHANGED <<slot0, swap, image_ok, stored, ota, mainVars, link, crashes>>

\* The event names the version that runs.
AlreadyRunning(j) ==
    slot0 = j /\ ReportDone(j) /\ UNCHANGED <<jobVars, c2dVars>>

\* The CAS on job_busy found another job there.
InProgress == job_busy = 1 /\ UNCHANGED <<jobVars, c2dVars, histVars>>

\* Mutant: job_busy is set whether or not it was set before.
HandleOtaNoCas(j) ==
    /\ Event(j) /\ UNCHANGED slot1
    /\ \/ AlreadyRunning(j)
       \/ job_busy' = 1 /\ handling' = j /\ c2d' = "copy" /\ UNCHANGED <<job, job_sem, histVars>>

\* Mutant: the secondary slot is prepared in the callback, before the checks.
HandleOtaEraseFirst(j) ==
    /\ Event(j) /\ slot1' = Torn
    /\ \/ AlreadyRunning(j)
       \/ InProgress
       \/ /\ job_busy = 0 /\ job_busy' = 1 /\ handling' = j /\ c2d' = "copy"
          /\ UNCHANGED <<job, job_sem, histVars>>

\* The version comparison, which an unreadable header or an event without a
\* version passes by, and the CAS.
HandleOta(j) ==
    /\ Event(j) /\ UNCHANGED slot1
    /\ \/ AlreadyRunning(j)
       \/ InProgress
       \/ /\ job_busy = 0 /\ job_busy' = 1 /\ handling' = j /\ c2d' = "copy"
          /\ UNCHANGED <<job, job_sem, histVars>>

\* The event's strings are copied; when the heap has no room for them the
\* handler returns, and job_busy stays as it is.
HandleCopy ==
    /\ c2d = "copy"
    /\ \/ job' = handling /\ c2d' = "give" /\ UNCHANGED handling
       \/ job' = None /\ c2d' = "idle" /\ handling' = None
    /\ UNCHANGED <<flashVars, stored, job_busy, job_sem, ota, mainVars, link, delivered, crashes, histVars>>

\* Mutant: the event is accepted without waking the OTA thread.
HandleGiveNothing ==
    /\ c2d = "give"
    /\ c2d' = "idle" /\ handling' = None
    /\ UNCHANGED <<flashVars, stored, jobVars, ota, mainVars, link, delivered, crashes, histVars>>

\* DOWNLOADING is published, whatever comes of it, and the OTA thread woken.
HandleGive ==
    /\ c2d = "give"
    /\ job_sem' = 1
    /\ c2d' = "idle" /\ handling' = None
    /\ UNCHANGED <<flashVars, stored, job_busy, job, ota, mainVars, link, delivered, crashes, histVars>>
-----------------------------------------------------------------------------
(***************************************************************************)
(* ota_worker() and ota_run().                                             *)
(***************************************************************************)
OtaTake ==
    /\ ota = "wait" /\ job_sem = 1
    /\ job_sem' = 0
    /\ ota' = "download"
    /\ UNCHANGED <<flashVars, stored, job_busy, job, mainVars, c2dVars, link, delivered, crashes, histVars>>

\* The TLS session is up and the secondary slot is being overwritten.
OtaWrite ==
    /\ ota = "download"
    /\ slot1' = Torn
    /\ ota' = "write"
    /\ UNCHANGED <<slot0, swap, image_ok, stored, jobVars, mainVars, c2dVars, link, delivered, crashes, histVars>>

\* Mutant: the failure path forgets job_busy.
OtaDownloadFailsBusy ==
    /\ ota \in {"download", "write"}
    /\ ReportFailed(job)
    /\ ota' = "wait"
    /\ UNCHANGED <<flashVars, stored, jobVars, mainVars, c2dVars, link, delivered, crashes>>

OtaDownloadFails ==
    /\ ota \in {"download", "write"}
    /\ ReportFailed(job)
    /\ job_busy' = 0
    /\ ota' = "wait"
    /\ UNCHANGED <<flashVars, stored, job, job_sem, mainVars, c2dVars, link, delivered, crashes>>

\* The body ended; a last callback without body bytes leaves the tail of the
\* image in the flash writer's buffer.
OtaDownloaded ==
    /\ ota = "write"
    /\ slot1' \in {job, Torn}
    /\ ota' = "mark"
    /\ UNCHANGED <<slot0, swap, image_ok, stored, jobVars, mainVars, c2dVars, link, delivered, crashes, histVars>>

\* boot_request_upgrade(BOOT_UPGRADE_TEST).
OtaMark ==
    /\ ota = "mark"
    /\ swap' = "test"
    /\ ota' = "store"
    /\ UNCHANGED <<slot0, slot1, image_ok, stored, jobVars, mainVars, c2dVars, link, delivered, crashes, histVars>>

OtaMarkFails ==
    /\ ota = "mark"
    /\ ReportFailed(job)
    /\ job_busy' = 0
    /\ ota' = "wait"
    /\ UNCHANGED <<flashVars, stored, job, job_sem, mainVars, c2dVars, link, delivered, crashes>>

\* ota_store_ack(), whose result is ignored; an ack id that could not be
\* copied clears the entry instead.
OtaStore ==
    /\ ota = "store"
    /\ stored' \in {job, None, stored}
    /\ ota' = "reboot"
    /\ UNCHANGED <<flashVars, jobVars, mainVars, c2dVars, link, delivered, crashes, histVars>>
-----------------------------------------------------------------------------
(***************************************************************************)
(* MCUboot at boot, external: a test swap, the revert of an image nobody   *)
(* confirmed, or the running image again.  A secondary slot that does not  *)
(* validate is erased and the running image kept.                          *)
(***************************************************************************)
BootSwap ==
    IF swap # "test" /\ (swap = "none" \/ image_ok)
    THEN swap' = "none" /\ UNCHANGED <<slot0, slot1, image_ok>>
    ELSE IF slot1 \notin Images
    THEN slot1' = None /\ swap' = "none" /\ image_ok' = TRUE /\ UNCHANGED slot0
    ELSE /\ slot0' = slot1 /\ slot1' = slot0
         /\ swap'     = IF swap = "test" THEN "revert" ELSE "none"
         /\ image_ok' = (swap # "test")

\* Mutant: the application confirms at boot, before it ever connects.
ResetRamConfirmFirst ==
    /\ job_busy' = 0 /\ job' = None /\ job_sem' = 0
    /\ handling' = None /\ c2d' = "idle"
    /\ ota' = "wait"
    /\ pending' = None /\ conf' = "load"
    /\ link' = FALSE

ResetRam ==
    /\ job_busy' = 0 /\ job' = None /\ job_sem' = 0
    /\ handling' = None /\ c2d' = "idle"
    /\ ota' = "wait"
    /\ pending' = None /\ conf' = "idle"
    /\ link' = FALSE

OtaReboot ==
    /\ ota = "reboot"
    /\ BootSwap /\ ResetRam
    /\ UNCHANGED <<stored, delivered, crashes, histVars>>

Crash ==
    /\ crashes < MaxCrashes
    /\ crashes' = crashes + 1
    /\ BootSwap /\ ResetRam
    /\ UNCHANGED <<stored, delivered, histVars>>
-----------------------------------------------------------------------------
(***************************************************************************)
(* iotc_ota_confirm_if_pending(), which main() calls when connect()        *)
(* returned 0.                                                             *)
(***************************************************************************)
LinkUp ==
    /\ ~link /\ conf = "idle"
    /\ link' = TRUE
    /\ conf' = "load"
    /\ online' = online \cup {slot0}
    /\ UNCHANGED <<flashVars, stored, jobVars, ota, pending, c2dVars, delivered, crashes, done, failed>>

LinkDown ==
    /\ link
    /\ link' = FALSE
    /\ UNCHANGED <<flashVars, stored, jobVars, ota, mainVars, c2dVars, delivered, crashes, histVars>>

\* Mutant: the settings subtree is not loaded before the ack is looked at.
ConfirmLoadNoSettings ==
    /\ conf = "load"
    /\ conf' = IF pending = None THEN "untracked"
               ELSE IF image_ok THEN "reverted" ELSE "confirm"
    /\ UNCHANGED <<flashVars, stored, jobVars, ota, pending, c2dVars, link, delivered, crashes, histVars>>

\* settings_load_subtree(), and what it found.
ConfirmLoad ==
    /\ conf = "load"
    /\ pending' = stored
    /\ conf' = IF stored = None THEN "untracked"
               ELSE IF image_ok THEN "reverted" ELSE "confirm"
    /\ UNCHANGED <<flashVars, stored, jobVars, ota, c2dVars, link, delivered, crashes, histVars>>

\* No ack to complete: a self-tested image is still confirmed, best effort.
ConfirmUntracked ==
    /\ conf = "untracked"
    /\ \/ image_ok' = TRUE /\ swap' = IF swap = "revert" THEN "none" ELSE swap
       \/ UNCHANGED <<image_ok, swap>>
    /\ conf' = "idle"
    /\ UNCHANGED <<slot0, slot1, stored, jobVars, ota, pending, c2dVars, link, delivered, crashes, histVars>>

\* boot_write_img_confirmed().
ConfirmImage ==
    /\ conf = "confirm"
    /\ \/ /\ image_ok' = TRUE /\ swap' = IF swap = "revert" THEN "none" ELSE swap
          /\ conf' = "confirmed"
       \/ conf' = "unconfirmed" /\ UNCHANGED <<image_ok, swap>>
    /\ UNCHANGED <<slot0, slot1, stored, jobVars, ota, pending, c2dVars, link, delivered, crashes, histVars>>

ConfirmReport ==
    /\ \/ conf = "confirmed" /\ ReportDone(pending)
       \/ conf \in {"reverted", "unconfirmed"} /\ ReportFailed(pending)
    /\ conf' = "clear"
    /\ UNCHANGED <<flashVars, stored, jobVars, ota, pending, c2dVars, link, delivered, crashes>>

ConfirmClear ==
    /\ conf = "clear"
    /\ pending' = None
    /\ stored' \in {None, stored}
    /\ conf' = "idle"
    /\ UNCHANGED <<flashVars, jobVars, ota, c2dVars, link, delivered, crashes, histVars>>
-----------------------------------------------------------------------------
Init ==
    /\ slot0 = Factory /\ slot1 = None /\ swap = "none" /\ image_ok \in BOOLEAN
    /\ stored = None
    /\ job_busy = 0 /\ job = None /\ job_sem = 0 /\ ota = "wait"
    /\ handling = None /\ c2d = "idle"
    /\ pending = None /\ conf = "idle" /\ link = FALSE
    /\ delivered = [j \in Jobs |-> 0] /\ crashes = 0
    /\ done = {} /\ failed = {} /\ online = {}

OtaThread == OtaTake \/ OtaWrite \/ OtaDownloadFails \/ OtaDownloaded \/ OtaMark
             \/ OtaMarkFails \/ OtaStore \/ OtaReboot

MainThread == LinkUp \/ ConfirmLoad \/ ConfirmUntracked \/ ConfirmImage
              \/ ConfirmReport \/ ConfirmClear

WorkQueue == HandleCopy \/ HandleGive

Next == (\E j \in Jobs : HandleOta(j)) \/ WorkQueue \/ OtaThread \/ MainThread \/ LinkDown \/ Crash

Fairness == WF_vars(WorkQueue) /\ WF_vars(OtaThread) /\ WF_vars(MainThread)

Spec == Init /\ [][Next]_vars /\ Fairness
-----------------------------------------------------------------------------
TypeOK ==
    /\ slot0 \in Images /\ slot1 \in Images \cup {None, Torn}
    /\ swap \in {"none", "test", "revert"} /\ image_ok \in BOOLEAN
    /\ stored \in Jobs \cup {None} /\ pending \in Jobs \cup {None}
    /\ job_busy \in {0, 1} /\ job \in Jobs \cup {None} /\ job_sem \in {0, 1}
    /\ handling \in Jobs \cup {None} /\ c2d \in {"idle", "copy", "give"}
    /\ ota \in {"wait", "download", "write", "mark", "store", "reboot"}
    /\ conf \in {"idle", "load", "untracked", "confirm", "confirmed", "unconfirmed",
                 "reverted", "clear"}
    /\ link \in BOOLEAN
    /\ delivered \in [Jobs -> 0..MaxDeliveries] /\ crashes \in 0..MaxCrashes
    /\ done \subseteq Jobs /\ failed \subseteq Jobs /\ online \subseteq Images

\* Somebody has the accepted job in hand: the work queue, or the OTA thread.
Served == c2d # "idle" \/ job_sem = 1 \/ ota # "wait"

\* job_busy is up with nobody behind it, and no strings to work from.
Stranded == job_busy = 1 /\ ~Served /\ job = None

\* job_busy refuses further updates ("OTA already in progress") for a job
\* somebody has in hand, or else because the strings of the last accepted
\* event could not be copied (iotc_ota.c:273): a flag nobody will ever clear
\* has that one cause.
BusyIsServedOrStranded == job_busy = 1 => Served \/ Stranded

\* What that failed copy costs: every update the platform pushes is refused
\* from then on, whoever else runs, until the device resets.
StrandedUntilReset ==
    [][Stranded => Stranded' \/ (job_busy' = 0 /\ conf' = "idle" /\ ~link')]_vars

\* While a new image runs on trial and no further update was accepted since
\* the boot, the image MCUboot would fall back to is whole and is one that
\* has been connected to the platform.
TrialHasFallback ==
    swap = "revert" /\ job_busy = 0 /\ job = None => slot1 \in online

\* The job's strings belong to the OTA thread from the moment it is woken
\* until it waits again: no duplicate or second event replaces them under it.
JobStringsStable ==
    [][(job_sem = 1 \/ ota # "wait") /\ job' # job => job' = None /\ ~link']_vars

\* The contract of UpdateContract: an image is on trial until it is confirmed,
\* and an update was offered when iotc_ota_handle() was called with it.
Contract == INSTANCE UpdateContract WITH
    image <- slot0, beside <- slot1, trial <- ~image_ok,
    offered <- {j \in Jobs : delivered[j] > 0}, known <- online

\* The callback, the two threads, MCUboot and every reset keep that contract.
KeepsUpdateContract == Contract!USpec

\* The firmware makes an image permanent only after that image has connected
\* to the platform.
PermanentWasOnline ==
    [][image_ok' /\ ~image_ok /\ slot0' = slot0 => slot0 \in online]_vars

\* A persisted ack is not forgotten: offline, as after every reset, a stored
\* ack is taken up again, on this boot or a later one, unless the ack of a
\* newer update replaces it first.
AckPickedUp ==
    stored # None /\ conf = "idle" /\ ~link ~> conf \in {"confirm", "reverted"} \/ ota = "store"

\* An accepted job ends, in a report or in the reboot it asked for, unless
\* its strings could not be copied.
JobReleased == job_busy = 1 ~> job_busy = 0 \/ Stranded

\* iotc_ota.c:346 "MCUboot reverted: we are back on the OLD image.", where
\* DOWNLOAD_FAILED is reported because the running image is confirmed.
RevertedReportIsTrue == conf = "reverted" => slot0 # pending
=============================================================================
