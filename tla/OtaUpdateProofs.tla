---------------------------- MODULE OtaUpdateProofs ----------------------------
(***************************************************************************)
(* Proofs about OtaUpdate, for any set of jobs, any number of deliveries   *)
(* and any number of crashes: its type invariant, that an accepted job is  *)
(* served and owns its strings unless they could not be copied, what that  *)
(* leaves behind, that a trial always has an image to fall back to, and    *)
(* that the whole keeps UpdateContract, from which follows that the        *)
(* firmware makes nothing permanent before it was online.                  *)
(*                                                                         *)
(* The last two are facts about flash that survive resets, but the reason  *)
(* they hold is in RAM: whatever damages the secondary slot or marks it    *)
(* was accepted over a link, by the image in slot 0.  Accepted and Marked  *)
(* carry that reason from the C2D callback to the next boot.               *)
(***************************************************************************)
EXTENDS OtaUpdate, TLAPS

InFlight == job_sem = 1 \/ ota # "wait"

\* An accepted job keeps job_busy up, is in one pair of hands at a time, and
\* came from the platform while the image in slot 0 was online.
Accepted ==
    /\ InFlight => job_busy = 1 /\ job \in Jobs /\ slot0 \in online /\ c2d = "idle"
    /\ job_sem = 1 => ota = "wait"
    /\ c2d # "idle" => job_busy = 1 /\ handling \in Jobs /\ slot0 \in online
    /\ c2d = "give" => job = handling

\* Whoever is connected, or confirms, was online, and reports on an ack that
\* was loaded.
Connected ==
    /\ link \/ conf # "idle" => slot0 \in online
    /\ conf \in {"confirm", "confirmed", "unconfirmed", "reverted"} => pending \in Jobs

\* What MCUboot would act on at the next boot.
Marked ==
    /\ swap = "test" => slot0 \in online
    /\ swap = "revert" /\ slot1 \notin online => slot0 \in online /\ slot1 # Factory

IInv == TypeOK /\ Accepted /\ Connected /\ Marked /\ BusyIsServedOrStranded /\ TrialHasFallback
-----------------------------------------------------------------------------
\* A device with the factory image and empty settings satisfies it.
LEMMA InitInv == Init => IInv
  <1> SUFFICES ASSUME Init PROVE IInv OBVIOUS
  <1> USE OtaAssumption
  <1>1. TypeOK
    <2>1. delivered \in [Jobs -> 0..MaxDeliveries] /\ crashes \in 0..MaxCrashes BY DEF Init
    <2>2. link \in BOOLEAN BY Zenon DEF Init
    <2> QED BY <2>1, <2>2 DEF Init, TypeOK, Images
  <1>2. Accepted /\ Connected /\ Marked
    BY DEF Init, Accepted, InFlight, Connected, Marked
  <1>3. BusyIsServedOrStranded /\ TrialHasFallback
    BY DEF Init, BusyIsServedOrStranded, TrialHasFallback
  <1> QED BY <1>1, <1>2, <1>3 DEF IInv

\* An event is reported, refused, or accepted for the copies.
LEMMA HandleStep == ASSUME IInv, NEW j \in Jobs, HandleOta(j) PROVE IInv'
  <1> USE OtaAssumption DEF IInv
  <1>1. /\ c2d = "idle" /\ link /\ slot0 \in online
        /\ UNCHANGED <<slot0, slot1, swap, image_ok, stored, ota, link, conf, pending, crashes,
                       job, job_sem, online, failed>>
        /\ done' \in {done, done \cup {j}}
        /\ delivered' = [delivered EXCEPT ![j] = @ + 1] /\ delivered[j] < MaxDeliveries
    BY DEF HandleOta, Event, AlreadyRunning, InProgress, ReportDone, jobVars, c2dVars, histVars,
           mainVars, Connected
  <1>2. \/ UNCHANGED <<job_busy, handling, c2d>>
        \/ job_busy = 0 /\ job_busy' = 1 /\ handling' = j /\ c2d' = "copy"
    BY DEF HandleOta, AlreadyRunning, InProgress, jobVars, c2dVars
  <1>3. TypeOK'
    <2>1. delivered' \in [Jobs -> 0..MaxDeliveries] BY <1>1 DEF TypeOK
    <2>2. /\ job_busy' \in {0, 1} /\ handling' \in Jobs \cup {None}
          /\ c2d' \in {"idle", "copy", "give"}
      BY <1>2 DEF TypeOK
    <2>3. done' \subseteq Jobs BY <1>1 DEF TypeOK
    <2> QED BY <1>1, <2>1, <2>2, <2>3 DEF TypeOK
  <1>4. Accepted' BY <1>1, <1>2 DEF Accepted, InFlight
  <1>5. BusyIsServedOrStranded'
    BY <1>1, <1>2 DEF BusyIsServedOrStranded, Served, Stranded
  <1>6. TrialHasFallback' /\ Connected' /\ Marked'
    BY <1>1, <1>2 DEF TrialHasFallback, Connected, Marked
  <1> QED BY <1>3, <1>4, <1>5, <1>6

\* The accepted event's strings are copied, or not, and handed on.
LEMMA QueueStep == ASSUME IInv, WorkQueue PROVE IInv'
  <1> USE OtaAssumption DEF IInv
  <1>1. /\ c2d # "idle" /\ job_busy = 1 /\ handling \in Jobs /\ slot0 \in online
        /\ UNCHANGED <<slot0, slot1, swap, image_ok, stored, ota, link, conf, pending, crashes,
                       job_busy, delivered, online, failed, done>>
        /\ job_sem = 0 /\ ota = "wait"
    BY DEF WorkQueue, HandleCopy, HandleGive, flashVars, mainVars, histVars, Accepted, InFlight,
           TypeOK
  <1>2. \/ job' = handling /\ c2d' = "give" /\ UNCHANGED <<handling, job_sem>>
        \/ job' = None /\ c2d' = "idle" /\ handling' = None /\ UNCHANGED job_sem
        \/ job = handling /\ job' = job /\ job_sem' = 1 /\ c2d' = "idle" /\ handling' = None
    BY DEF WorkQueue, HandleCopy, HandleGive, Accepted
  <1>3. TypeOK' BY <1>1, <1>2 DEF TypeOK
  <1>4. Accepted' BY <1>1, <1>2 DEF Accepted, InFlight
  <1>5. BusyIsServedOrStranded'
    BY <1>1, <1>2 DEF BusyIsServedOrStranded, Served, Stranded
  <1>6. TrialHasFallback' /\ Connected' /\ Marked'
    BY <1>1 DEF TrialHasFallback, Connected, Marked
  <1> QED BY <1>3, <1>4, <1>5, <1>6

\* Steps of the OTA thread up to the reboot.
LEMMA WorkerStep ==
    ASSUME IInv, OtaTake \/ OtaWrite \/ OtaDownloadFails \/ OtaDownloaded \/ OtaMark
                 \/ OtaMarkFails \/ OtaStore
    PROVE  IInv'
  <1> USE OtaAssumption DEF IInv
  <1>1. InFlight /\ job \in Jobs /\ slot0 \in online /\ job_busy = 1 /\ c2d = "idle"
    BY DEF OtaTake, OtaWrite, OtaDownloadFails, OtaDownloaded, OtaMark, OtaMarkFails,
           OtaStore, Accepted, InFlight
  <1>2. UNCHANGED <<slot0, job, online, link, conf, delivered, crashes, pending, handling, c2d>>
    BY DEF OtaTake, OtaWrite, OtaDownloadFails, OtaDownloaded, OtaMark, OtaMarkFails,
           OtaStore, ReportFailed, jobVars, flashVars, mainVars, histVars, c2dVars
  <1>3. /\ slot1' \in {slot1, job, Torn} /\ swap' \in {swap, "test"} /\ image_ok' = image_ok
        /\ stored' \in {job, None, stored} /\ job_sem' \in {job_sem, 0}
    BY DEF OtaTake, OtaWrite, OtaDownloadFails, OtaDownloaded, OtaMark, OtaMarkFails,
           OtaStore, jobVars, flashVars
  <1>4. \/ job_busy' = 1 /\ ota' \in {"download", "write", "mark", "store", "reboot"}
        \/ job_busy' = 0 /\ ota' = "wait"
    BY <1>1 DEF OtaTake, OtaWrite, OtaDownloadFails, OtaDownloaded, OtaMark, OtaMarkFails,
           OtaStore, jobVars
  <1>5. job_sem' = 0
    BY DEF OtaTake, OtaWrite, OtaDownloadFails, OtaDownloaded, OtaMark, OtaMarkFails,
           OtaStore, jobVars, Accepted, TypeOK
  <1>6. done' \subseteq Jobs /\ failed' \subseteq Jobs
    <2>1. CASE OtaDownloadFails \/ OtaMarkFails
      BY <1>1, <2>1 DEF OtaDownloadFails, OtaMarkFails, ReportFailed, TypeOK
    <2>2. CASE OtaTake \/ OtaWrite \/ OtaDownloaded \/ OtaMark \/ OtaStore
      BY <2>2 DEF OtaTake, OtaWrite, OtaDownloaded, OtaMark, OtaStore, histVars, TypeOK
    <2> QED BY <2>1, <2>2
  <1>7. TypeOK' BY <1>1, <1>2, <1>3, <1>4, <1>5, <1>6 DEF TypeOK, Images
  <1>8. Accepted' BY <1>1, <1>2, <1>4, <1>5 DEF Accepted, InFlight
  <1>9. Connected' BY <1>2 DEF Connected
  <1>10. Marked' BY <1>1, <1>2, <1>3 DEF Marked, Images, TypeOK
  <1>11. BusyIsServedOrStranded' /\ TrialHasFallback'
    BY <1>1, <1>2, <1>4 DEF BusyIsServedOrStranded, Served, TrialHasFallback
  <1> QED BY <1>7, <1>8, <1>9, <1>10, <1>11

\* MCUboot's decision keeps the flash facts, whatever ran before the reset.
LEMMA BootStep ==
    ASSUME IInv, BootSwap, ResetRam, UNCHANGED <<stored, delivered, done, failed, online>>,
           crashes' \in 0..MaxCrashes
    PROVE  IInv'
  <1> USE OtaAssumption DEF IInv
  <1>1. /\ job_busy' = 0 /\ job' = None /\ job_sem' = 0 /\ ota' = "wait"
        /\ pending' = None /\ conf' = "idle" /\ link' = FALSE
        /\ handling' = None /\ c2d' = "idle"
    BY DEF ResetRam
  <1>2. Accepted' /\ Connected' /\ BusyIsServedOrStranded'
    BY <1>1 DEF Accepted, InFlight, Connected, BusyIsServedOrStranded
  <1>3. /\ slot0' \in Images /\ slot1' \in Images \cup {None, Torn}
        /\ swap' \in {"none", "revert"} /\ image_ok' \in BOOLEAN
        /\ swap' = "revert" => slot1' \in online
    BY DEF BootSwap, TypeOK, Marked, Images
  <1>4. TypeOK'
    BY <1>1, <1>3 DEF TypeOK
  <1>5. Marked' /\ TrialHasFallback'
    BY <1>3, <1>4 DEF Marked, TrialHasFallback, TypeOK
  <1> QED BY <1>2, <1>4, <1>5

\* The main thread and the link.
LEMMA MainStep == ASSUME IInv, MainThread \/ LinkDown PROVE IInv'
  <1> USE OtaAssumption DEF IInv
  <1>1. /\ UNCHANGED <<slot0, slot1, job_busy, job, job_sem, ota, delivered, crashes, handling, c2d>>
        /\ swap' \in {swap, "none"} /\ stored' \in {stored, None}
        /\ pending' \in {pending, stored, None} /\ online' \in {online, online \cup {slot0}}
    BY DEF MainThread, LinkUp, LinkDown, ConfirmLoad, ConfirmUntracked, ConfirmImage,
           ConfirmReport, ConfirmClear, ReportDone, ReportFailed, jobVars, flashVars,
           mainVars, histVars, c2dVars, TypeOK
  <1>2. link' \/ conf' # "idle" => slot0 \in online'
    BY DEF MainThread, LinkUp, LinkDown, ConfirmLoad, ConfirmUntracked, ConfirmImage,
           ConfirmReport, ConfirmClear, ReportDone, ReportFailed, histVars, mainVars,
           Connected, TypeOK
  <1>3. TypeOK'
    <2>1. /\ image_ok' \in BOOLEAN /\ link' \in BOOLEAN
          /\ conf' \in {"idle", "load", "untracked", "confirm", "confirmed", "unconfirmed",
                        "reverted", "clear"}
      BY DEF MainThread, LinkUp, LinkDown, ConfirmLoad, ConfirmUntracked, ConfirmImage,
             ConfirmReport, ConfirmClear, flashVars, mainVars, TypeOK
    <2>2. done' \subseteq Jobs /\ failed' \subseteq Jobs
      BY DEF MainThread, LinkUp, LinkDown, ConfirmLoad, ConfirmUntracked, ConfirmImage,
             ConfirmReport, ConfirmClear, ReportDone, ReportFailed, histVars, TypeOK,
             Connected
    <2> QED BY <1>1, <2>1, <2>2 DEF TypeOK
  <1>4. Accepted' /\ BusyIsServedOrStranded' 
    BY <1>1 DEF Accepted, InFlight, BusyIsServedOrStranded, Served, Stranded
  <1>5. Connected'
    <2>1. conf' \in {"confirm", "confirmed", "unconfirmed", "reverted"} => pending' \in Jobs
      BY DEF MainThread, LinkUp, LinkDown, ConfirmLoad, ConfirmUntracked, ConfirmImage,
             ConfirmReport, ConfirmClear, mainVars, Connected, TypeOK
    <2> QED BY <1>1, <1>2, <2>1 DEF Connected
  <1>6. Marked' /\ TrialHasFallback' BY <1>1 DEF Marked, TrialHasFallback, Images
  <1> QED BY <1>3, <1>4, <1>5, <1>6

\* Every step of every thread, and every reset, keeps the inductive invariant.
LEMMA NextInv == IInv /\ [Next]_vars => IInv'
  <1> SUFFICES ASSUME IInv, [Next]_vars PROVE IInv'
    OBVIOUS
  <1>1. CASE \E j \in Jobs : HandleOta(j) BY <1>1, HandleStep
  <1>2. CASE OtaThread
    <2>1. CASE OtaReboot
      <3>1. crashes' \in 0..MaxCrashes BY <2>1 DEF OtaReboot, IInv, TypeOK
      <3> QED BY <2>1, <3>1, BootStep DEF OtaReboot, histVars
    <2> QED BY <1>2, <2>1, WorkerStep DEF OtaThread
  <1>3. CASE MainThread \/ LinkDown BY <1>3, MainStep
  <1>4. CASE Crash
    <2>1. crashes' \in 0..MaxCrashes BY <1>4, OtaAssumption DEF Crash, IInv, TypeOK
    <2> QED BY <1>4, <2>1, BootStep DEF Crash, histVars
  <1>5. CASE UNCHANGED vars
    BY <1>5 DEF IInv, TypeOK, Accepted, InFlight, Connected, Marked, BusyIsServedOrStranded,
       Served, Stranded, TrialHasFallback, vars, flashVars, jobVars, c2dVars, mainVars, histVars
  <1>6. CASE WorkQueue BY <1>6, QueueStep
  <1> QED BY <1>1, <1>2, <1>3, <1>4, <1>5, <1>6 DEF Next

\* The inductive invariant holds throughout: the job, the flash and what was
\* connected agree across every crash and reboot.
THEOREM Invariance == Spec => []IInv
  BY InitInv, NextInv, PTL DEF Spec
-----------------------------------------------------------------------------
\* What flash, RAM and the history range over.
THEOREM TypeCorrect == Spec => []TypeOK
  <1>1. IInv => TypeOK BY DEF IInv
  <1> QED BY <1>1, Invariance, PTL

\* A job_busy that is up is served, on the work queue or by the OTA thread, or
\* was left behind by the one thing that leaves it behind: copies that failed.
THEOREM AcceptedIsServed == Spec => []BusyIsServedOrStranded
  <1>1. IInv => BusyIsServedOrStranded BY DEF IInv
  <1> QED BY <1>1, Invariance, PTL

\* The image MCUboot would revert to is whole and was online.
THEOREM FallbackIsGood == Spec => []TrialHasFallback
  <1>1. IInv => TrialHasFallback BY DEF IInv
  <1> QED BY <1>1, Invariance, PTL

\* No event replaces the strings of a job in flight.
THEOREM StringsAreStable == Spec => JobStringsStable
  <1>1. ASSUME IInv, [Next]_vars, InFlight, job' # job
        PROVE  job' = None /\ ~link'
    <2>1. CASE \E j \in Jobs : HandleOta(j)
      <3>1. PICK j \in Jobs : HandleOta(j) BY <2>1
      <3> QED BY <1>1, <3>1 DEF HandleOta, AlreadyRunning, InProgress, jobVars
    <2>2. CASE OtaReboot \/ Crash BY <2>2 DEF OtaReboot, Crash, ResetRam
    <2>3. CASE OtaThread /\ ~OtaReboot
      BY <1>1, <2>3 DEF OtaThread, OtaTake, OtaWrite, OtaDownloadFails, OtaDownloaded, OtaMark,
         OtaMarkFails, OtaStore, jobVars
    <2>4. CASE MainThread \/ LinkDown
      BY <1>1, <2>4 DEF MainThread, LinkUp, LinkDown, ConfirmLoad, ConfirmUntracked,
         ConfirmImage, ConfirmReport, ConfirmClear, jobVars
    <2>5. CASE WorkQueue
      <3>1. c2d = "idle" BY <1>1 DEF IInv, Accepted
      <3> QED BY <2>5, <3>1 DEF WorkQueue, HandleCopy, HandleGive
    <2> QED BY <1>1, <2>1, <2>2, <2>3, <2>4, <2>5 DEF Next, vars, jobVars
  <1>2. IInv /\ [Next]_vars =>
            [(job_sem = 1 \/ ota # "wait") /\ job' # job => job' = None /\ ~link']_vars
    BY <1>1 DEF InFlight
  <1> QED BY <1>2, Invariance, PTL DEF Spec, JobStringsStable

\* The flag a failed copy left up is never cleared before the device resets:
\* no event, thread or link can do it.
THEOREM StrandedStays == Spec => StrandedUntilReset
  <1>1. ASSUME Stranded, [Next]_vars
        PROVE  Stranded' \/ (job_busy' = 0 /\ conf' = "idle" /\ ~link')
    <2>1. job_busy = 1 /\ c2d = "idle" /\ job_sem # 1 /\ ota = "wait" /\ job = None
      BY <1>1 DEF Stranded, Served
    <2>2. CASE OtaReboot \/ Crash BY <2>2 DEF OtaReboot, Crash, ResetRam
    <2>3. CASE ~(OtaReboot \/ Crash)
      <3>1. UNCHANGED <<job_busy, c2d, job_sem, ota, job>>
        <4>1. CASE \E j \in Jobs : HandleOta(j)
          <5>1. PICK j \in Jobs : HandleOta(j) BY <4>1
          <5> QED BY <2>1, <5>1 DEF HandleOta, Event, AlreadyRunning, InProgress, jobVars, c2dVars
        <4>2. CASE WorkQueue BY <2>1, <4>2 DEF WorkQueue, HandleCopy, HandleGive
        <4>3. CASE OtaThread
          BY <2>1, <2>3, <4>3 DEF OtaThread, OtaTake, OtaWrite, OtaDownloadFails, OtaDownloaded,
             OtaMark, OtaMarkFails, OtaStore
        <4>4. CASE MainThread \/ LinkDown
          BY <4>4 DEF MainThread, LinkUp, LinkDown, ConfirmLoad, ConfirmUntracked, ConfirmImage,
             ConfirmReport, ConfirmClear, jobVars, c2dVars
        <4>5. CASE UNCHANGED vars BY <4>5 DEF vars, jobVars, c2dVars
        <4> QED BY <1>1, <2>3, <4>1, <4>2, <4>3, <4>4, <4>5 DEF Next
      <3> QED BY <2>1, <3>1 DEF Stranded, Served
    <2> QED BY <2>2, <2>3
  <1>2. [Next]_vars =>
            [Stranded => Stranded' \/ (job_busy' = 0 /\ conf' = "idle" /\ ~link')]_vars
    BY <1>1
  <1> QED BY <1>2, PTL DEF Spec, StrandedUntilReset
-----------------------------------------------------------------------------
(***************************************************************************)
(* The refinement: every step of a thread, and every reset, is a step of   *)
(* UpdateContract or changes nothing it speaks of.  The contract tells an  *)
(* update from any other content of flash, hence Pushed.                   *)
(***************************************************************************)

Offered == {j \in Jobs : delivered[j] > 0}

\* What is in flash came with the device or from an event, and what the OTA
\* thread marks for the swap is what it downloaded for its job.
Pushed ==
    /\ job \in Jobs => job \in Offered
    /\ handling \in Jobs => handling \in Offered
    /\ slot0 \in Offered \cup {Factory}
    /\ slot1 \in Offered \cup {Factory, None, Torn}
    /\ swap = "test" => ota \in {"store", "reboot"}
    /\ ota \in {"mark", "store", "reboot"} => slot1 \in {job, Torn}

\* The events so far are all the contract sees of the callback.
LEMMA HandleOffers ==
    ASSUME IInv, NEW j \in Jobs, HandleOta(j)
    PROVE  Offered' = Offered \cup {j}
  <1>1. delivered \in [Jobs -> Nat] BY OtaAssumption DEF IInv, TypeOK
  <1>2. delivered' = [delivered EXCEPT ![j] = @ + 1] BY DEF HandleOta, Event
  <1>3. \A k \in Jobs : delivered'[k] > 0 <=> delivered[k] > 0 \/ k = j BY <1>1, <1>2
  <1> QED BY <1>3 DEF Offered

LEMMA OthersOfferNothing ==
    ASSUME Next, ~\E j \in Jobs : HandleOta(j)
    PROVE  delivered' = delivered
  BY DEF Next, WorkQueue, HandleCopy, HandleGive, OtaThread, OtaTake, OtaWrite, OtaDownloadFails, OtaDownloaded, OtaMark,
     OtaMarkFails, OtaStore, OtaReboot, MainThread, LinkUp, ConfirmLoad, ConfirmUntracked,
     ConfirmImage, ConfirmReport, ConfirmClear, LinkDown, Crash

LEMMA PushedStep == ASSUME IInv, Pushed, [Next]_vars PROVE Pushed'
  <1> USE OtaAssumption
  <1>1. CASE \E j \in Jobs : HandleOta(j)
    <2>1. PICK j \in Jobs : HandleOta(j) BY <1>1
    <2>2. Offered' = Offered \cup {j} BY <2>1, HandleOffers
    <2>3. UNCHANGED <<slot0, slot1, swap, ota, job>> /\ handling' \in {handling, j}
      BY <2>1 DEF HandleOta, Event, AlreadyRunning, InProgress, jobVars, c2dVars
    <2> QED BY <2>2, <2>3 DEF Pushed
  <1>2. ASSUME ~\E j \in Jobs : HandleOta(j), Next PROVE Offered' = Offered
    BY <1>2, OthersOfferNothing DEF Offered
  <1>3. CASE OtaThread /\ ~OtaReboot
    <2>1. Offered' = Offered
      BY <1>3 DEF OtaThread, OtaTake, OtaWrite, OtaDownloadFails, OtaDownloaded, OtaMark,
         OtaMarkFails, OtaStore, Offered
    <2>2. job \in Jobs /\ job' = job /\ slot0' = slot0 /\ handling' = handling
      BY <1>3 DEF OtaThread, OtaTake, OtaWrite, OtaDownloadFails, OtaDownloaded, OtaMark,
         OtaMarkFails, OtaStore, jobVars, c2dVars, flashVars, IInv, Accepted, InFlight
    <2>3. /\ slot1' \in {slot1, job, Torn}
          /\ swap' = "test" => ota' \in {"store", "reboot"}
          /\ ota' \in {"mark", "store", "reboot"} => slot1' \in {job, Torn}
      BY <1>3 DEF OtaThread, OtaTake, OtaWrite, OtaDownloadFails, OtaDownloaded, OtaMark,
         OtaMarkFails, OtaStore, flashVars, Pushed
    <2> QED BY <2>1, <2>2, <2>3 DEF Pushed
  <1>4. CASE OtaReboot \/ Crash
    <2>1. Offered' = Offered BY <1>4 DEF OtaReboot, Crash, Offered
    <2>2. BootSwap /\ job' = None /\ handling' = None /\ ota' = "wait"
      BY <1>4 DEF OtaReboot, Crash, ResetRam
    <2>3. /\ slot0' \in Offered \cup {Factory}
          /\ slot1' \in Offered \cup {Factory, None, Torn} /\ swap' # "test"
      BY <2>2 DEF BootSwap, Pushed, Images
    <2> QED BY <2>1, <2>2, <2>3 DEF Pushed
  <1>5. CASE MainThread \/ LinkDown
    <2>1. Offered' = Offered
      BY <1>5 DEF MainThread, LinkUp, LinkDown, ConfirmLoad, ConfirmUntracked, ConfirmImage,
         ConfirmReport, ConfirmClear, Offered
    <2>2. UNCHANGED <<slot0, slot1, job, handling, ota>> /\ (swap' = "test" => swap = "test")
      BY <1>5 DEF MainThread, LinkUp, LinkDown, ConfirmLoad, ConfirmUntracked, ConfirmImage,
         ConfirmReport, ConfirmClear, flashVars, jobVars, c2dVars
    <2> QED BY <2>1, <2>2 DEF Pushed
  <1>6. CASE UNCHANGED vars
    BY <1>6 DEF vars, flashVars, jobVars, c2dVars, Pushed, Offered
  <1>7. CASE WorkQueue
    <2>1. Offered' = Offered BY <1>7 DEF WorkQueue, HandleCopy, HandleGive, Offered
    <2>2. /\ UNCHANGED <<slot0, slot1, swap, ota>> /\ handling' \in {handling, None}
          /\ job' \in {job, handling, None} /\ ota = "wait"
      BY <1>7 DEF WorkQueue, HandleCopy, HandleGive, flashVars, jobVars, IInv, Accepted, InFlight
    <2> QED BY <2>1, <2>2 DEF Pushed
  <1> QED BY <1>1, <1>3, <1>4, <1>5, <1>6, <1>7 DEF Next, OtaThread

\* The callback offers an update to an image that is known.
LEMMA HandleKeepsContract ==
    ASSUME IInv, NEW j \in Jobs, HandleOta(j)
    PROVE  Contract!Offer
  <1>1. slot0 \in online BY DEF HandleOta, Event, IInv, Connected
  <1>2. UNCHANGED <<slot0, slot1, image_ok, online>>
    BY DEF HandleOta, Event, AlreadyRunning, InProgress, histVars, ReportDone
  <1> QED BY <1>1, <1>2, HandleOffers DEF Contract!Offer, Offered

\* The OTA thread writes beside the running image and touches nothing else.
LEMMA WorkerKeepsContract ==
    ASSUME IInv, Pushed, OtaThread, ~OtaReboot
    PROVE  [Contract!UNext]_(Contract!uvars)
  <1>1. UNCHANGED <<slot0, image_ok, online, delivered>> /\ slot1' \in {slot1, job, Torn}
    BY DEF OtaThread, OtaTake, OtaWrite, OtaDownloadFails, OtaDownloaded, OtaMark,
       OtaMarkFails, OtaStore, ReportFailed, flashVars, histVars
  <1>2. slot0 \in online /\ job \in Offered
    BY DEF OtaThread, OtaTake, OtaWrite, OtaDownloadFails, OtaDownloaded, OtaMark,
       OtaMarkFails, OtaStore, IInv, Accepted, InFlight, Pushed
  <1>3. CASE slot1' = slot1 BY <1>1, <1>3 DEF Contract!uvars
  <1>4. CASE slot1' # slot1
    <2>1. Contract!Overwrite BY <1>1, <1>2, <1>4 DEF Contract!Overwrite, Offered
    <2> QED BY <2>1 DEF Contract!UNext
  <1> QED BY <1>3, <1>4

\* What MCUboot does at a reset: nothing, an erased update, the start of a
\* trial, or its end.
LEMMA BootKeepsContract ==
    ASSUME IInv, Pushed, BootSwap, UNCHANGED <<delivered, online>>
    PROVE  [Contract!UNext]_(Contract!uvars)
  <1> USE OtaAssumption
  <1>1. CASE UNCHANGED <<slot0, slot1, image_ok>> BY <1>1 DEF Contract!uvars
  <1>2. CASE slot1 \notin Images /\ slot1' = None /\ image_ok' = TRUE /\ slot0' = slot0
             /\ swap \in {"test", "revert"}
    <2>1. slot0 \in online BY <1>2 DEF IInv, Marked, TypeOK
    <2>2. Contract!Keep BY <1>2, <2>1 DEF Contract!Keep
    <2> QED BY <2>2 DEF Contract!UNext
  <1>3. CASE slot1 \in Images /\ slot0' = slot1 /\ slot1' = slot0 /\ swap = "test"
             /\ image_ok' = FALSE
    <2>1. slot0 \in online BY <1>3 DEF IInv, Marked
    <2>2. slot1 \in Offered BY <1>3 DEF Pushed, IInv, TypeOK, Images
    <2>3. Contract!Install
      BY <1>3, <2>1, <2>2 DEF Contract!Install, Contract!Exchange, Offered
    <2> QED BY <2>3 DEF Contract!UNext
  <1>4. CASE slot1 \in Images /\ slot0' = slot1 /\ slot1' = slot0 /\ ~image_ok
             /\ swap = "revert" /\ image_ok' = TRUE
    <2>1. CASE slot1 \in online
      <3>1. Contract!Return BY <1>4, <2>1 DEF Contract!Return, Contract!Exchange
      <3> QED BY <3>1 DEF Contract!UNext
    <2>2. CASE slot1 \notin online
      <3>1. slot1 \in Offered /\ slot0 \in online
        BY <1>4, <2>2 DEF Pushed, Images, IInv, Marked
      <3>2. Contract!Displace
        BY <1>4, <2>2, <3>1 DEF Contract!Displace, Contract!Exchange, Offered
      <3> QED BY <3>2 DEF Contract!UNext
    <2> QED BY <2>1, <2>2
  <1> QED BY <1>1, <1>2, <1>3, <1>4 DEF BootSwap, IInv, TypeOK

\* The main thread connects the running image, or makes it permanent after that.
LEMMA MainKeepsContract ==
    ASSUME IInv, MainThread \/ LinkDown
    PROVE  [Contract!UNext]_(Contract!uvars)
  <1>1. CASE LinkUp
    <2>1. Contract!Connect BY <1>1 DEF LinkUp, flashVars, Contract!Connect
    <2> QED BY <2>1 DEF Contract!UNext
  <1>2. CASE ConfirmUntracked \/ ConfirmImage
    <2>1. slot0 \in online BY <1>2 DEF ConfirmUntracked, ConfirmImage, IInv, Connected
    <2>2. UNCHANGED <<slot0, slot1, delivered, online>> /\ image_ok' \in {image_ok, TRUE}
      BY <1>2 DEF ConfirmUntracked, ConfirmImage, histVars
    <2>3. CASE image_ok' = image_ok BY <2>2, <2>3 DEF Contract!uvars
    <2>4. CASE image_ok' = TRUE
      <3>1. Contract!Keep BY <2>1, <2>2, <2>4 DEF Contract!Keep
      <3> QED BY <3>1 DEF Contract!UNext
    <2> QED BY <2>2, <2>3, <2>4
  <1>3. CASE LinkDown \/ ConfirmLoad \/ ConfirmReport \/ ConfirmClear
    BY <1>3 DEF LinkDown, ConfirmLoad, ConfirmReport, ConfirmClear, ReportDone, ReportFailed,
       flashVars, histVars, Contract!uvars
  <1> QED BY <1>1, <1>2, <1>3 DEF MainThread

LEMMA StepKeepsContract ==
    ASSUME IInv, Pushed, [Next]_vars
    PROVE  [Contract!UNext]_(Contract!uvars)
  <1>1. CASE \E j \in Jobs : HandleOta(j)
    <2>1. Contract!Offer BY <1>1, HandleKeepsContract
    <2> QED BY <2>1 DEF Contract!UNext
  <1>2. CASE OtaThread /\ ~OtaReboot BY <1>2, WorkerKeepsContract
  <1>3. CASE OtaReboot \/ Crash
    <2>1. BootSwap /\ UNCHANGED <<delivered, online>> BY <1>3 DEF OtaReboot, Crash, histVars
    <2> QED BY <2>1, BootKeepsContract
  <1>4. CASE MainThread \/ LinkDown BY <1>4, MainKeepsContract
  <1>5. CASE UNCHANGED vars BY <1>5 DEF vars, flashVars, histVars, Contract!uvars
  <1>6. CASE WorkQueue
    BY <1>6 DEF WorkQueue, HandleCopy, HandleGive, flashVars, histVars, Contract!uvars
  <1> QED BY <1>1, <1>2, <1>3, <1>4, <1>5, <1>6 DEF Next, OtaThread

\* iotc_ota.c with MCUboot implements UpdateContract, for any set of updates,
\* however often each is delivered and wherever the resets fall.
THEOREM Refinement == Spec => KeepsUpdateContract
  <1>1. Init => Contract!UInit /\ Pushed
    <2> SUFFICES ASSUME Init PROVE Contract!UInit /\ Pushed OBVIOUS
    <2>1. Offered = {} BY DEF Init, Offered
    <2>2. Pushed BY <2>1, OtaAssumption DEF Init, Pushed
    <2>3. (~image_ok) \in BOOLEAN BY Zenon DEF Init
    <2> QED BY <2>1, <2>2, <2>3 DEF Init, Contract!UInit, Offered
  <1>2. IInv /\ Pushed /\ [Next]_vars => Pushed' BY PushedStep
  <1>3. IInv /\ Pushed /\ [Next]_vars => [Contract!UNext]_(Contract!uvars)
    BY StepKeepsContract
  <1> QED BY <1>1, <1>2, <1>3, Invariance, PTL DEF Spec, Contract!USpec, KeepsUpdateContract
-----------------------------------------------------------------------------
(***************************************************************************)
(* What follows from the contract alone.                                   *)
(***************************************************************************)

\* Once the device has been connected, flash holds an image that was: no
\* update, failure or reset can leave it with two images nobody has tried.
THEOREM GoodImageRemains == Spec => []Contract!GoodInFlash
  <1>1. Contract!UInit => Contract!GoodInFlash
    BY DEF Contract!UInit, Contract!GoodInFlash
  <1>2. Contract!GoodInFlash /\ [Contract!UNext]_(Contract!uvars) => Contract!GoodInFlash'
    BY DEF Contract!UNext, Contract!uvars, Contract!Connect, Contract!Offer,
       Contract!Overwrite, Contract!Install, Contract!Return, Contract!Displace,
       Contract!Exchange, Contract!Keep, Contract!GoodInFlash
  <1> QED BY <1>1, <1>2, Refinement, PTL DEF Contract!USpec, KeepsUpdateContract

\* The device only ever runs its factory image or one it was sent: a torn
\* download is never started.
THEOREM RunsOnlyUpdates == Spec => []Contract!RunsWhatWasOffered
  <1> DEFINE Known == online \subseteq Offered \cup {Factory}
  <1>1. Contract!UInit => Contract!RunsWhatWasOffered /\ Known
    BY DEF Contract!UInit, Contract!RunsWhatWasOffered
  <1>2. ASSUME Contract!RunsWhatWasOffered, Known, [Contract!UNext]_(Contract!uvars)
        PROVE  (Contract!RunsWhatWasOffered /\ Known)'
    <2>1. slot0 \in Offered \cup {Factory} BY <1>2 DEF Contract!RunsWhatWasOffered, Offered
    <2>2. slot0' \in Offered' \cup {Factory} /\ online' \subseteq Offered' \cup {Factory}
      BY <1>2, <2>1 DEF Contract!UNext, Contract!uvars, Contract!Connect, Contract!Offer,
         Contract!Overwrite, Contract!Install, Contract!Return, Contract!Displace,
         Contract!Exchange, Contract!Keep, Offered
    <2> QED BY <2>2 DEF Contract!RunsWhatWasOffered, Offered
  <1>3. Contract!RunsWhatWasOffered /\ Known /\ [Contract!UNext]_(Contract!uvars)
            => (Contract!RunsWhatWasOffered /\ Known)'
    BY <1>2
  <1> HIDE DEF Known
  <1> QED BY <1>1, <1>3, Refinement, PTL DEF Contract!USpec, KeepsUpdateContract

\* An image that is confirmed in place had been connected to the platform.
THEOREM ConfirmedWasOnline == Spec => PermanentWasOnline
  <1>1. ASSUME IInv, [Contract!UNext]_(Contract!uvars), image_ok', ~image_ok, slot0' = slot0
        PROVE  slot0 \in online
    <2>1. CASE Contract!Install \/ Contract!Return \/ Contract!Displace
      BY <1>1, <2>1 DEF Contract!Install, Contract!Return, Contract!Displace, Contract!Exchange
    <2>2. CASE Contract!Keep BY <2>2 DEF Contract!Keep
    <2> QED
      BY <1>1, <2>1, <2>2 DEF Contract!UNext, Contract!Connect, Contract!Offer, Contract!Overwrite,
         Contract!uvars
  <1>2. IInv /\ [Contract!UNext]_(Contract!uvars)
            => [image_ok' /\ ~image_ok /\ slot0' = slot0 => slot0 \in online]_vars
    BY <1>1
  <1> QED BY <1>2, Invariance, Refinement, PTL
          DEF Contract!USpec, KeepsUpdateContract, PermanentWasOnline
=============================================================================
