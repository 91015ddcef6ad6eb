----------------------------- MODULE IdentityStore -----------------------------
(***************************************************************************)
(* The persistent device identity, lib/zephyr-layer/iotc_identity.c.       *)
(*                                                                         *)
(* A build has one of three backends.  "ps" and "disk" keep the whole      *)
(* identity in one packed blob, which every save rewrites from the RAM     *)
(* mirrors s_cpid .. s_key; "settings" keeps one entry per field and never *)
(* reads the mirrors back.  The main thread loads the identity at boot,    *)
(* the shell (or the portal) saves and clears it, and nothing orders the   *)
(* two.  Power may fail between any two steps.  A media write is atomic    *)
(* here; the disk has a write cache, which DISK_IOCTL_CTRL_SYNC flushes.   *)
(***************************************************************************)
EXTENDS Naturals, Sequences

CONSTANTS
    ConfigOrder,    \* string fields, in the order apply_config_json saves them
    SetupOrder,     \* those cmd_setup saves, the first one its own argument
    ProvisionOrder, \* what cmd_provision saves: strings, then cert and key
    Pems,           \* the fields pasted as base64: cert and key
    Values,         \* what a field may be set to
    Default,        \* build-time CONFIG_IOTCONNECT_CPID / _ENV
    Empty, Garbled, \* no value; a mirror a failed base64 decode wrote over
    NoBlob,         \* no blob on the medium
    MaxCommands,    \* bound: provisioning commands in one behaviour
    MaxResets       \* bound: resets and power failures

Elements(s) == {s[i] : i \in DOMAIN s}
Fields == Elements(ConfigOrder) \cup Elements(SetupOrder) \cup Elements(ProvisionOrder) \cup Pems
Backends == {"ps", "disk", "settings"}

Blobs == [Fields -> Values \cup {Empty, Garbled}]

ASSUME IdentityAssumption ==
    /\ \A order \in {ConfigOrder, SetupOrder, ProvisionOrder} : order \in Seq(Elements(order))
    /\ Default \in Values
    /\ Values \cap {Empty, Garbled} = {} /\ Empty # Garbled /\ NoBlob \notin Blobs
    /\ MaxCommands \in Nat /\ MaxResets \in Nat

VARIABLES
    backend,    \* chosen by the build
    ram,        \* s_cpid, s_env, s_duid, s_disc, s_cert, s_key
    buf,        \* s_ps_blob or s_disk_buf, shared by pack and unpack; Unset
                \* while neither is using it, when its contents are dead
    medium,     \* what a read of the storage returns
    durable,    \* what survives a power failure
    loader,     \* where iotc_identity_load() stands
    todo,       \* saves the running command has still to make, and how
    saver,      \* "write" between the pack and the media write
    (* history *)
    seen,       \* since the boot, the mirrors have taken in what is stored
    promised,   \* value of each field the last save that returned 0 stored
    attempted,  \* values failed saves of a field left in its mirror since
    bypassed,   \* fields stored since the load without their mirror
    cause,      \* what has endangered promises so far
    commands, resets

media == <<buf, medium, durable>>
hist  == <<promised, attempted, bypassed>>
vars  == <<backend, ram, media, loader, todo, saver, seen, hist, cause, commands, resets>>

Packed == backend # "settings"
Unset  == [f \in Fields |-> Empty]
Stored(b, f) == IF b = NoBlob THEN Empty ELSE b[f]
-----------------------------------------------------------------------------
(***************************************************************************)
(* iotc_identity_load(), on the main thread, once per boot.                *)
(***************************************************************************)

\* The medium cannot be read: the packed backends leave the mirrors alone and
\* return -ENOENT, as for a device that was never provisioned.
LoadFails ==
    /\ loader = "idle"
    /\ loader' = "done"
    /\ UNCHANGED <<backend, ram, media, todo, saver, seen, hist, cause, commands, resets>>

\* The blob is read into the shared buffer; or there is none.
LoadRead ==
    /\ Packed /\ loader = "idle"
    /\ IF medium = NoBlob
       THEN loader' = "done" /\ seen' = TRUE /\ UNCHANGED buf
       ELSE loader' = "unpack" /\ buf' = medium /\ UNCHANGED seen
    /\ cause' = IF saver = "write" THEN cause \cup {"raced"} ELSE cause
    /\ UNCHANGED <<backend, ram, medium, durable, todo, saver, hist, commands, resets>>

\* Mutant: the fields are checked where they lie and never copied out.
LoadUnpackNothing ==
    /\ loader = "unpack"
    /\ seen' = TRUE /\ loader' = "done"
    /\ UNCHANGED <<backend, ram, media, todo, saver, hist, cause, commands, resets>>

\* The fields are copied to the mirrors, the empty ones too.
LoadUnpack ==
    /\ loader = "unpack"
    /\ ram' = buf
    /\ seen' = TRUE
    /\ loader' = "done"
    /\ buf' = IF saver = "write" THEN buf ELSE Unset
    /\ UNCHANGED <<backend, medium, durable, todo, saver, hist, cause, commands, resets>>

\* settings_load_subtree() delivers the entries that exist.
LoadSettings ==
    /\ ~Packed /\ loader = "idle"
    /\ ram' = [f \in Fields |-> IF Stored(medium, f) = Empty THEN ram[f] ELSE medium[f]]
    /\ seen' = TRUE
    /\ loader' = "done"
    /\ bypassed' = {}
    /\ UNCHANGED <<backend, media, todo, saver, promised, attempted, cause, commands, resets>>
-----------------------------------------------------------------------------
(***************************************************************************)
(* The provisioning commands, on the shell's thread: each is a sequence of *)
(* saves.  "shell" commands write the mirror themselves and stop at the    *)
(* first failure, "config" ignores it and writes the mirror afterwards,    *)
(* "kv" ignores it and writes no mirror.                                   *)
(***************************************************************************)
Idle == todo = <<>>

Run(saves) ==
    /\ Idle /\ commands < MaxCommands
    /\ commands' = commands + 1
    /\ todo' = saves
    /\ UNCHANGED <<backend, ram, media, loader, saver, seen, hist, cause, resets>>

Save(f, v, style) == [style |-> style, field |-> f, value |-> v]

\* iotc cred cpid | env | duid | cert | key.
CmdCred(f, v) == Run(<<Save(f, v, "shell")>>)

\* iotc config, and the portal's config page: the n string fields the JSON
\* has, at those places of the order.
CmdConfig(n, at, v) ==
    /\ \A i, j \in 1..n : i < j => at[i] < at[j]
    /\ Run([i \in 1..n |-> Save(ConfigOrder[at[i]], v, "config")])

\* iotc setup: what is not given is taken from the mirror, then the build.
CmdSetup(v, given) ==
    Run([i \in DOMAIN SetupOrder |->
            LET f == SetupOrder[i]
            IN Save(f, IF i = 1 \/ given THEN v
                       ELSE IF ram[f] = Empty THEN Default ELSE ram[f], "shell")])

\* iotcprov provision.
CmdProvision(v) ==
    Run([i \in DOMAIN ProvisionOrder |-> Save(ProvisionOrder[i], v, "kv")])

\* save_pem() decodes into the mirror and fails half way: the length stays.
CmdPemFails(f) ==
    /\ Idle /\ commands < MaxCommands
    /\ commands' = commands + 1
    /\ ram[f] # Empty
    /\ ram' = [ram EXCEPT ![f] = Garbled]
    /\ attempted' = [attempted EXCEPT ![f] = @ \cup {Garbled}]
    /\ UNCHANGED <<backend, media, loader, todo, saver, seen, promised, bypassed, cause, resets>>
-----------------------------------------------------------------------------
\* A blob packed from mirrors that do not hold what is stored loses it, and
\* the buffer is shared "never concurrent" with a load (iotc_identity.c:74).
Endangered(current) ==
    cause \cup (IF current THEN {} ELSE {"blind"})
          \cup (IF loader = "unpack" THEN {"raced"} ELSE {})

MirrorTakes == Packed \/ Head(todo).style # "kv"

Succeeds(f, v) ==
    /\ promised'  = [promised EXCEPT ![f] = v]
    /\ attempted' = [attempted EXCEPT ![f] = {}]
    /\ bypassed'  = IF MirrorTakes THEN bypassed \ {f} ELSE bypassed \cup {f}
    /\ todo' = Tail(todo)

Fails(f, v) ==
    /\ attempted' = [attempted EXCEPT ![f] = @ \cup {v}]
    /\ bypassed'  = IF MirrorTakes THEN bypassed \ {f} ELSE bypassed
    /\ todo' = IF Head(todo).style = "shell" THEN <<>> ELSE Tail(todo)
    /\ UNCHANGED promised

\* settings_save_one(): one entry, durable when it returns 0.
SaveField ==
    /\ ~Packed /\ ~Idle
    /\ LET f == Head(todo).field  v == Head(todo).value
       IN /\ \/ /\ medium' = [medium EXCEPT ![f] = v]
                /\ durable' = medium'
                /\ Succeeds(f, v)
             \/ Fails(f, v) /\ UNCHANGED <<medium, durable>>
          /\ ram' = IF MirrorTakes THEN [ram EXCEPT ![f] = v] ELSE ram
    /\ UNCHANGED <<backend, buf, loader, saver, seen, cause, commands, resets>>

\* Mutant: the blob is packed before the mirror takes the new value.
SavePackFirst ==
    /\ Packed /\ ~Idle /\ saver = "idle"
    /\ LET f == Head(todo).field  v == Head(todo).value
       IN ram' = [ram EXCEPT ![f] = v] /\ buf' = ram /\ saver' = "write" /\ UNCHANGED <<hist, todo>>
    /\ seen' = (seen \/ medium = NoBlob)
    /\ cause' = Endangered(seen')
    /\ UNCHANGED <<backend, medium, durable, loader, commands, resets>>

\* iotc_kv_save() of a packed backend: the mirror takes the value and all
\* mirrors are packed into the shared buffer, if they fit.
SavePack ==
    /\ Packed /\ ~Idle /\ saver = "idle"
    /\ LET f == Head(todo).field  v == Head(todo).value
       IN /\ ram' = [ram EXCEPT ![f] = v]
          /\ \/ /\ buf' = ram' /\ saver' = "write"
                /\ UNCHANGED <<hist, todo>>
             \/ Fails(f, v) /\ UNCHANGED <<buf, saver>>
    /\ seen' = (seen \/ medium = NoBlob)
    /\ cause' = Endangered(seen')
    /\ UNCHANGED <<backend, medium, durable, loader, commands, resets>>

\* The buffer goes to the medium.  The result of the cache flush is ignored.
SaveWrite ==
    /\ saver = "write"
    /\ saver' = "idle"
    /\ buf' = IF loader = "unpack" THEN buf ELSE Unset
    /\ LET f == Head(todo).field  v == Head(todo).value
       IN \/ /\ medium' = buf
             /\ durable' \in IF backend = "disk" THEN {buf, durable} ELSE {buf}
             /\ Succeeds(f, v)
          \/ Fails(f, v) /\ UNCHANGED <<medium, durable>>
    /\ UNCHANGED <<backend, ram, loader, seen, cause, commands, resets>>

\* Mutant: the entries are deleted and the mirrors are left as they are.
CmdClearKeepsMirrors ==
    /\ Idle /\ commands < MaxCommands
    /\ commands' = commands + 1
    /\ medium' = (IF Packed THEN NoBlob ELSE Unset) /\ durable' = medium'
    /\ promised' = Unset /\ bypassed' = {}
    /\ attempted' = [f \in Fields |-> {}]
    /\ cause' = Endangered(TRUE)
    /\ UNCHANGED <<backend, ram, buf, loader, todo, saver, seen, resets>>

\* iotc cred clear: kv_delete() of every field, its result ignored, then the
\* mirrors.  The disk backend does not flush what it wrote.
CmdClear ==
    /\ Idle /\ commands < MaxCommands
    /\ commands' = commands + 1
    /\ ram' = Unset
    /\ promised' = Unset
    /\ attempted' = [f \in Fields |-> {}]
    /\ bypassed' = {}
    /\ \E kept \in IF Packed THEN {{}, Fields} ELSE SUBSET Fields :
          /\ medium' = IF Packed THEN IF kept = {} THEN NoBlob ELSE medium
                       ELSE [f \in Fields |-> IF f \in kept THEN medium[f] ELSE Empty]
          /\ durable' \in IF backend = "disk" THEN {medium', durable} ELSE {medium'}
          /\ cause' = Endangered(TRUE) \cup (IF kept = {} THEN {} ELSE {"undeleted"})
    /\ buf' = IF backend = "disk" THEN Unset ELSE buf
    /\ UNCHANGED <<backend, loader, todo, saver, seen, resets>>

\* A reset or a power failure: RAM is lost, and what the disk had cached.
Reset ==
    /\ resets < MaxResets
    /\ resets' = resets + 1
    /\ medium' = durable
    /\ cause' = IF medium = durable THEN cause ELSE cause \cup {"dropped"}
    /\ ram' = Unset /\ buf' = Unset
    /\ loader' = "idle" /\ todo' = <<>> /\ saver' = "idle"
    /\ seen' = FALSE /\ bypassed' = {}
    /\ UNCHANGED <<backend, durable, promised, attempted, commands>>
-----------------------------------------------------------------------------
Init ==
    /\ backend \in Backends
    /\ ram = Unset /\ buf = Unset
    /\ medium = IF Packed THEN NoBlob ELSE Unset
    /\ durable = medium
    /\ loader = "idle" /\ todo = <<>> /\ saver = "idle"
    /\ seen = FALSE
    /\ promised = Unset /\ attempted = [f \in Fields |-> {}] /\ bypassed = {}
    /\ cause = {} /\ commands = 0 /\ resets = 0

Load == LoadFails \/ LoadRead \/ LoadUnpack \/ LoadSettings

Command ==
    \/ \E v \in Values :
          \/ \E f \in Fields : CmdCred(f, v)
          \/ \E n \in 1..Len(ConfigOrder) : \E at \in [1..n -> DOMAIN ConfigOrder] :
                CmdConfig(n, at, v)
          \/ \E given \in BOOLEAN : CmdSetup(v, given)
          \/ CmdProvision(v)
    \/ \E f \in Pems : CmdPemFails(f)
    \/ CmdClear

Next == Load \/ Command \/ SaveField \/ SavePack \/ SaveWrite \/ Reset

Spec == Init /\ [][Next]_vars
-----------------------------------------------------------------------------
TypeOK ==
    /\ backend \in Backends
    /\ ram \in Blobs /\ buf \in Blobs
    /\ medium \in Blobs \cup {NoBlob} /\ durable \in Blobs \cup {NoBlob}
    /\ loader \in {"idle", "unpack", "done"}
    /\ todo \in Seq([field : Fields, value : Values \cup {Garbled},
                     style : {"shell", "config", "kv"}])
    /\ saver \in {"idle", "write"}
    /\ seen \in BOOLEAN
    /\ promised \in Blobs
    /\ attempted \in [Fields -> SUBSET (Values \cup {Garbled})]
    /\ bypassed \subseteq Fields
    /\ cause \subseteq {"blind", "raced", "undeleted", "dropped"}
    /\ commands \in 0..MaxCommands /\ resets \in 0..MaxResets

\* What is stored of a field is what the last successful save of it stored,
\* or what a failed command since then left in its mirror for the save of
\* another field to pick up; unless a packed blob was written before the old
\* one was loaded or while it was, an erase failed, or the disk dropped its cache.
StoredAsPromised ==
    cause = {} => \A f \in Fields : Stored(medium, f) \in {promised[f]} \cup attempted[f]

\* What iotc setup takes for a cpid or env it was not given, and what the next
\* save of a packed backend writes of every other field: once loaded, the
\* mirrors hold what is stored, or what a failed save left there, but for the
\* fields iotcprov provision has stored past the mirrors of the settings backend.
MirrorsAreStored ==
    seen /\ cause = {} => \A f \in Fields \ bypassed :
        \/ ram[f] \in {Stored(medium, f)} \cup attempted[f]
        \/ saver = "write" /\ f = Head(todo).field

\* iotconnect_identity.h:62 "Persist one identity field": with the stored
\* identity loaded and no failed command before it, a save changes the stored
\* value of the field it was called for and of no other.
SavesOneField ==
    [][~Idle /\ medium' # medium /\ cause' = {} /\ (\A f \in Fields : attempted[f] = {})
         /\ resets' = resets =>
       \A f \in Fields \ {Head(todo).field} : Stored(medium', f) = Stored(medium, f)]_vars

\* iotc_identity.c:785 prints "identity erased" after every erase that wrote
\* the medium, and :310-312 says what the flush is for: "an abrupt power-off
\* can drop" a write.  An erased identity does not come back.
ErasedStaysErased ==
    "undeleted" \notin cause =>
        \A f \in Fields : promised[f] = Empty /\ attempted[f] = {} => Stored(medium, f) = Empty
=============================================================================
