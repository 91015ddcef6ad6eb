---------------------------- MODULE UpdateContract ----------------------------
(***************************************************************************)
(* What updating over the air promises whoever owns the device, whatever   *)
(* the threads, the acknowledgements and the resets behind it do.  Flash   *)
(* holds the image that runs and one beside it.  Only an image that has    *)
(* been connected to the platform takes updates in, gives up the image     *)
(* beside it for one, or lets an update run; an update runs on trial, in   *)
(* exchange with the image that took it in; and a trial that nobody makes  *)
(* permanent ends in exchanging the two again.  The firmware makes only an *)
(* image permanent that has been connected.  MCUboot does not: Displace,   *)
(* the one action by which an update runs for good without ever having     *)
(* been connected, is what "once the NEW firmware is connected, [...] the  *)
(* image is confirmed" (iotc_ota.c:14-16) would rule out.                  *)
(***************************************************************************)
CONSTANTS Jobs, Factory, None, Torn

VARIABLES
    image,    \* the image that runs
    beside,   \* what the other slot holds
    trial,    \* the running image is not permanent
    offered,  \* updates the platform has offered
    known     \* images that have been connected to the platform

uvars == <<image, beside, trial, offered, known>>

UInit ==
    /\ image = Factory /\ beside = None /\ trial \in BOOLEAN
    /\ offered = {} /\ known = {}

Connect ==
    /\ known' = known \cup {image}
    /\ UNCHANGED <<image, beside, trial, offered>>

Offer ==
    /\ image \in known
    /\ \E j \in Jobs : offered' = offered \cup {j}
    /\ UNCHANGED <<image, beside, trial, known>>

\* A download under way or ended, in the place of whatever lay beside.
Overwrite ==
    /\ image \in known
    /\ beside' \in offered \cup {Torn}
    /\ UNCHANGED <<image, trial, offered, known>>

Exchange == image' = beside /\ beside' = image /\ UNCHANGED <<offered, known>>

Install == image \in known /\ beside \in offered /\ Exchange /\ trial' = TRUE

Return == trial /\ beside \in known /\ Exchange /\ trial' = FALSE

\* An update taken in during a trial lies where the fallback was; a reset
\* before it is marked exchanges the two as if it were the fallback.
Displace ==
    /\ trial /\ image \in known
    /\ beside \in offered \ known
    /\ Exchange /\ trial' = FALSE

\* The image stays for good; what lies beside may be erased with that.
Keep ==
    /\ image \in known
    /\ trial' = FALSE
    /\ beside' \in {beside, None}
    /\ UNCHANGED <<image, offered, known>>

UNext == Connect \/ Offer \/ Overwrite \/ Install \/ Return \/ Displace \/ Keep

USpec == UInit /\ [][UNext]_uvars
-----------------------------------------------------------------------------
\* Once the device has been connected at all, an image that was connected is
\* in its flash.
GoodInFlash == known # {} => image \in known \/ beside \in known

\* What runs is the factory image or was offered by the platform.
RunsWhatWasOffered == image \in offered \cup {Factory}
=============================================================================
