# Verification of the IoTConnect Zephyr SDK

TLA+ models of `iotc-zephyr-sdk`, the TLC runs that check them on small
instances, and TLAPS proofs of what matters most for every value of the
constants. `PROJECT.json` lists the components, runs, properties, the source
lines each definition stands for, the hazards and the findings.

    tlc -config MqttSession.cfg MqttClient     # any run of PROJECT.json
    tlapm MqttClientProofs.tla                 # and so each *Proofs.tla

The SDK connects a Zephyr device to Avnet IoTConnect: it discovers the broker
over HTTPS, keeps one MQTT session over TLS, publishes telemetry, hands
cloud-to-device (C2D) messages to callbacks, installs firmware through MCUboot,
and keeps the device's identity and its Wi-Fi networks in flash. Samples set it
up over a soft-AP portal, and read an energy meter. Paths below are relative to `src/`;
`zl/` abbreviates `lib/zephyr-layer/`.

## 1. Inventory

| Component (source) | State it keeps | Operations | Talks to |
|---|---|---|---|
| MQTT transport (`zl/iotc_mqtt_client.c`) | `connected`, `pump_run`, `pump_tid`, `connack_sem`, one static `mqtt_client`, one pump stack, the `c2d_workq` | connect, disconnect, publish, is_connected; pump thread; event handler | Zephyr MQTT and sockets below, status callback and C2D dispatch above |
| C2D dispatch (`zl/iotc_mqtt_client.c`, `zl/iotc_iotcl_user_config.h`, iotc-c-lib) | the queued copies of messages | queue, parse, call the command or OTA callback, acknowledge | transport, application, OTA |
| SDK orchestrator (`lib/iotconnect.c`) | `s_config`, `s_inited`, `s_creds`, `s_creds_registered` | init, connect, disconnect, deinit | discovery, TLS slots, iotc-c-lib, transport |
| Telemetry quota (`lib/iotconnect.c:68-110`) | `s_msg_sent`, `s_msg_limit` | count and drop, set the limit | publishing threads, shell |
| TLS slots (`zl/iotc_tls_credentials.c`) | slots of Zephyr's TLS subsystem, by tag and type | register, clear | orchestrator |
| Discovery client (`zl/iotc_dra_client.c`) | request and response buffers | two HTTPS requests | TLS slots, iotc-c-lib |
| OTA (`zl/iotc_ota.c`) | `job_busy`, the job's strings, `job_sem`, `pending_ack`, the settings entry `iotc_ota/ack` | accept an event, download, mark, reboot, confirm | C2D queue, flash, MCUboot, settings |
| Identity store (`zl/iotc_identity.c`) | RAM mirrors `s_cpid`..`s_key`, a shared blob buffer, the medium | load, save one field, clear, shell commands | main thread, shell, portal |
| Provisioning (`zl/iotc_provision.c`) | none of its own | generate a key and certificate, save six fields | identity store |
| Sample main loops (`samples/*/src/main.c`) | the loop's position | connect, publish while connected, disconnect, again | orchestrator |
| Wi-Fi store (`zl/iotc_wifi_store.c`) | Zephyr's `wifi_credentials` | set; when full: pick the oldest, delete it, set again | the portal's HTTP thread, the shell |
| Wi-Fi auto-connect (`zl/iotc_wifi_autoconnect.c`) | a connection semaphore | a thread: check, request connect-stored, wait 30 s and 10 s more | net_mgmt, Wi-Fi store |
| Soft-AP portal (`samples/softap-provisioning/src/`) | a body buffer and length per resource, a reboot work item | boot decision; three handlers that store (`wifi`, `provision`, `config`); reboot | identity store, Wi-Fi store, provisioning |
| File upload (`zl/iotc_file_upload.c`) | the endpoint discovery left, temporary credentials | fetch credentials, assume a role, upload | discovery, HTTPS |
| Meter UART ingest (`samples/kinetis-meter/src/meter_uart.c`) | ring buffer, line buffer, last readings, a mutex | ISR fills the ring; a work item takes bytes, assembles and parses lines; the reader copies | UART, system work queue, sample main loop |
| Time, vitals, tools, patches, docs | - | pure I/O, formatting, host scripts | - |

What is hard about it:

* **Threads.** The application thread, the message pump, the C2D work queue,
  the OTA thread, the shell, Zephyr's system work queue and its HTTP server run
  concurrently, and almost nothing in the SDK takes a lock: the code relies on
  Zephyr's own mutex inside `mqtt_*()`, on one `atomic_cas` (OTA) and on
  "never concurrent" comments.
* **Callbacks.** A failing `mqtt_publish()` in any thread runs the event handler
  in that thread. Zephyr releases its mutex around the handler, which lowers the
  flag and calls the application after the socket was closed and before the
  client's state is reset: another thread can be anywhere in between.
* **A lock held while waiting.** The payload of a PUBLISH is read under the
  client's mutex and without a timeout (`zl/iotc_mqtt_client.c:194`).
* **One flag, many exits.** `job_busy` is given back by the thread that takes a job
  up, and by no one if the job is lost before (`zl/iotc_ota.c:273`).
* **Pointers kept by others.** The TLS subsystem keeps the pointers it was
  given; whoever frees the strings must clear the slots first, on every error path.
* **Power failures.** The OTA job spans a reboot; identity saves rewrite a blob
  with every credential in it; the disk has a write cache.
* **Ignored results.** `k_thread_join()`, the settings writes of OTA, the cache
  flush of the disk backend, every save of the portal's handlers.
* **Small buffers.** A Wi-Fi store of two entries, a UART ring and a line buffer
  that overflow, one body buffer per resource for requests that come in pieces.

What makes each component correct, in short: the flag and the sockets agree and
someone serves every session announced as connected (transport); every slot
points to live memory (orchestrator and TLS); an accepted job ends and the
device can always go back to an image that works (OTA); a save changes the field
it names and what is stored is what was acknowledged (identity); telemetry stops
at the limit (quota); the loop comes back to service (samples); what the
portal answered with 200 is there at the next boot (portal); a store never
dead-ends on "no space" and costs one other network at most (Wi-Fi); the station
comes up (auto-connect); damage to a line stays in that line and a snapshot is
of readings a whole number of lines left (meter).

## 2. Modules

| Module | Models | Checked by | Proved in |
|---|---|---|---|
| `SessionContract` | abstract: the flag goes up once for each CONNECT a broker accepted | refined by `MqttClient` | `MqttClientProofs!Refinement` |
| `MqttClient` | transport: three threads over the sockets | `mqtt_session`, `pump_outlives_disconnect` | `MqttClientProofs` |
| `SampleLoop` | composition: the samples' main loop and command callback over `MqttClient` | `sample_loop` | `SampleLoopProofs` |
| `UpdateContract` | abstract: the image that runs, the one beside it, trials, what was offered and what was connected | refined by `OtaUpdate` | `OtaUpdateProofs!Refinement` |
| `OtaUpdate` | C2D callback, OTA thread, confirmation, MCUboot, resets | `ota_update`, `ota_reverted_report` | `OtaUpdateProofs` |
| `SdkLifecycle` | composition: the singleton of `iotconnect.c` over the TLS slots and discovery | `sdk_lifecycle` | `SdkProofs` |
| `IdentityStore`, `MCIdentityStore` | three storage backends, load, commands, resets | `identity_store`, `identity_erased` | `IdentityStoreProofs` |
| `FileUpload` | the upload's four steps against a re-run of discovery | `file_upload` | `FileUploadProofs` |
| `TelemetryQuota` | check, load and store of an unlocked counter | `sdk_lifecycle` | `SdkProofs` |
| `Sdk` | composition: `iotconnect.c` as one program, `SdkLifecycle` with `TelemetryQuota` | `sdk_lifecycle` | `SdkProofs` |
| `WifiStore` | the store of networks and its eviction, per caller | `soft_ap` | `SoftApProofs` |
| `SoftAp`, `MCSoftAp` | composition: boot, portal, shell, auto-connect over `WifiStore` | `soft_ap` | `SoftApProofs` |
| `MeterUart` | interrupt, work item, reader | `meter_uart`, `meter_resync` | `MeterUartProofs` |

In every module a comment "Mutant:" introduces a variant of the definition that
follows it, a plausible bug in the same lines, which no specification uses;
`PROJECT.json` says which property it breaks.

### MqttClient and SessionContract

`app`, `pump` and `worker` say where each thread stands; the other variables
keep the names of the file-scope state. `iotc_mqtt_client_connect()` is
`ConnectEnter` .. `SubscribeOk`, one action per call that can block or be
overtaken: the semaphore is reset (`ConnectEnter`), the socket opened and CONNECT
written (`ConnectOpen`), the CONNACK polled for and read (`ConnackInput`,
`ConnackFails`), the semaphore taken (`ConnackTaken`, `ConnackMissing` and its
`ConnackAbort`), SUBSCRIBE written and the pump created (`SubscribeOk`).
`iotc_mqtt_client_disconnect()` is `DisconnectEnter`, `DisconnectCheck`,
`DisconnectEnd`, `LowerFlag`; a publish is the check of the flag (`AppPublish`,
`WorkerPublish`) and, later, the call (`AppSend`, `WorkerSend`). The pump's loop
is `PumpStart` .. `PumpExit`.

An event is not part of the call that raises it. `ClientDisconnect` is what
Zephyr's `client_disconnect()` does before its event: the socket is closed.
`handler[t]` is what thread `t` has still to do: `EventLower` is the DISCONNECT
branch of `mqtt_evt_handler()`, the flag and the status callback, and
`ClientReset` what the library does when it has its mutex back; `EventRaise` is
the CONNACK branch. Between them every other thread may run, so a raised flag
over a closed socket is a state of the model. `held` is the mutex while the pump
waits for a payload (`PumpHandlePublish`, then `PumpPayload` or
`PumpPayloadFails`): no other call that takes it is enabled meanwhile.

Choices: a `k_thread_create()` over a live pump replaces the old thread (the
code does so in undefined territory; other outcomes are not modelled), and
`mqtt_client_init()` over a client whose mutex is held leaves it free;
`pump_tid` is set exactly while `pump_run` is raised and needs no variable;
-EALREADY and invalid arguments change nothing and are stuttering steps. The
numbers of closed sockets are used again, as the network stack does.

Three variables are history. `told` is the session the status callback heard of
last. `lowered` are live sessions whose flag the pump's exit took down: a socket
in `open` that is no longer `sock` has leaked, and `OnlyPumpExitLeaks` says from
where. `disturbed` are the sessions in which the events of two threads met: the
session was dialled while an event was being handled, or with the flag or an
announcement of its number left over, or a thread closed it while another was
raising its flag, or a new pump was created over one inside the handler.

`SessionContract` is what the layers above may rely on: a broker accepts a
CONNECT at most once, whoever read the acceptance raises the flag once at most, and
whatever lowered the flag, it stays down until another CONNECT is accepted. The
mapping reads `mqtt = "tcp"` as a CONNECT that is out and a thread in
`EventRaise` as one with an acceptance to report.

### SampleLoop

`MqttClient` lets the application call anything at any time. The samples call
connect until it returns 0, publish while `is_connected()`, disconnect, and
start over; `Main` restricts the application's actions to those calls:
`MainConnecting`, `MainConnected`, `MainServe` (the flag is asked),
`MainPublish` (`publish()` asks it again), `MainSend` (the library does),
`MainLinkLost`, `MainDisconnect`, and `MainEvent` for the events its own calls
raise. `lost` counts the loop's messages that were not sent since it last connected.

### OtaUpdate and UpdateContract

`iotc_ota_handle()`, on the C2D work queue, is `HandleOta` (the version check and
the compare-and-swap on `job_busy`), `HandleCopy` (the strings) and
`HandleGive` (DOWNLOADING and `k_sem_give()`). A copy that fails returns with
`job_busy` still up: nobody serves the job and nobody lowers the flag, which is
`Stranded`. `OtaTake` .. `OtaReboot` is the OTA
thread, `LinkUp` a `connect()` that returned 0, `ConfirmLoad` .. `ConfirmClear`
`iotc_ota_confirm_if_pending()`. `BootSwap` is MCUboot, external, written from
what the code asks of it: a test swap once, a revert of an image nobody
confirmed, an invalid image erased. `ResetRam` clears what is not in flash. A
job is identified with its image and with its ack id.

`UpdateContract` is what updating promises the owner of the device, without
threads, acknowledgements or resets: two slots, whether the running image is on
trial, which updates were offered and which images were ever connected. The
mapping reads `image_ok = FALSE` as a trial and a delivery as an offer. A trial
nobody makes permanent ends in `Return`, to an image that was connected. In
one case it ends otherwise: an update taken in during the trial lies where the
fallback was, and a reset before it is marked exchanges the two. That is an
action of its own, `Displace`, because it is the one way an update that never was
connected runs for good.

### SdkLifecycle, TelemetryQuota and Sdk

Configuration copies are numbered by the `init()` that made them; slots,
descriptor fields and `s_config` hold copy numbers, `freed` the copies given
back. `init()` stands at "dra" and `connect()` at "mqtt" while their TLS
handshake runs, since that is when the slots are read. Every failure path is an action or
a disjunct: the identity cannot be copied, a registration is refused at any
credential after those before it were added, discovery fails. The configuration
is RAM credentials with runtime discovery (the default).

`TelemetryQuota` has the steps of `msg_limited_publish()` in each publishing
thread, `Check`, `Load`, `Store` and the call of the transport, `Handed`, and
`SetMsgLimit`, the shell's `iotc limit`. `Sdk` puts the two together: the
application thread (`Lifecycle`, `Send("main")`) is in one call at a time, the C2D
callback (`Send("c2d")`) in any call at any moment, and a message is
counted only while iotc-c-lib has its topics. Acknowledgements pass uncounted.

### IdentityStore

`backend` picks `ps`, `disk` (a packed blob) or `settings` (an entry per field).
A command is a sequence of saves, `todo`; a save of a packed backend is
`SavePack` (mirror, then pack into the shared buffer) and `SaveWrite` (medium).
The load is `LoadRead` and `LoadUnpack` around that same buffer. `medium` is
what a read returns and `durable` what survives a power failure. `cause`
collects what the run names as endangering: a blob packed before the old one
was loaded (`blind`), or while it was (`raced`), an erase that failed
(`undeleted`), a cache that was lost (`dropped`). A failed save leaves its value
in the mirror, and the save of another field then persists it: `attempted`
keeps those values. `iotcprov provision` stores into the settings backend past
the mirrors; `bypassed` are the fields whose mirror is behind for that
reason, until the next load or the next save that takes the mirror along.

### FileUpload

Identity responses are numbered, and each string holds the number of the
response it came from. `DiscoverStart` .. `HookCapture` is discovery on the
application's thread, down to `iotc_fu_identity_hook()`, which frees its three
strings before it clears the pointers (`disc = "null"`). `UploadStart` is
`iotc_fu_available()`; each later action is the stretch between two network round
trips, which reads the shared strings again. `overlap` and `stray` record
whether discovery ran beside the upload and whether the upload read a string that
was NULL or freed; what the program would do after such a read is not followed.

### WifiStore and SoftAp

`iotc_wifi_credentials_store()` makes up to four calls into Zephyr's
`wifi_credentials`, each under that library's own mutex and each a step:
`StoreSet`, `StorePick`, `StoreDelete`, `StoreSetAgain`. `at[t]` is the call a
thread makes next, or its result. Zephyr lists entries in an order of its own,
so `StorePick` may take any entry but the one being stored; that the victim is
the *oldest* network is not claimed. `crossed` marks calls that ran beside
another, `filled` and `wasted` say whether the store was ever full and how many
evictions made room for nothing.

`SoftAp` puts two callers over it: "http", the HTTP server's one thread, which
runs every handler of `portal.c`, and "shell". A request's body comes in two
pieces (`PostFirst`, `PostLast`), between which other resources are served; it
may be aborted (`PostAbort`) or empty (`PostEmpty`). `text` is what the string in
a resource's buffer parses to, `len` whether its length is 0: abort and a
finished request reset the length and leave the string. A handler that saves
leaves what it has to save in `due[t]`, and `SaveNext` makes the calls one by
one in the code's order (`Place`), each failing or not, since the handlers ignore
the result. A configuration may have any of its three fields, and may have them
empty (`Configs`, `Blank`): what is there is saved, and one field is enough for a
200. A key pair is
its generation number, so that `stored["cert"] = stored["key"]` says the two
belong together. `Boot`, `JoinOk`, `JoinTimeout` are `main.c`, which ends (`"stopped"`) where a call
of its own fails; a portal that is
up stays up until the reboot, even if the network returns. `AutoConnect` and
`AutoWaited` are the auto-connect thread, `LinkUp` and `LinkDown` the radio,
external. `Reset` is the reboot of `/api/finish`, the shell's, or a power
failure: what is in flash stays, a call in progress is cut.

### MeterUart

A byte is its frame, its place in it and that frame's length. `UartIsr` puts it
in the ring or drops it and submits the work item; `WorkStart` .. `WorkEnd` is
`rx_work_fn()`, which takes bytes, starts the line again when the buffer is full,
and parses a line at its end: `ParseRejects`, or `ParseLock`, `ParseFirst`,
`ParseSecond`, which write two readings under the mutex. `GetLock`, `GetFirst`,
`GetSecond` is `meter_uart_get()`. A reading is written when its key is in the line
and keeps its value when it is not, so any frame may write both, either or none;
a line that is no frame may write any of its pieces. `whole` are the readings as
the last parse left them. `dropped`, `oversized`, `mangled` count the damage,
`refused` the frames cJSON had no memory for.

## 3. What the runs check and show

| Run | Instance | Question | Result |
|---|---|---|---|
| `mqtt_session` | 2 sockets, 2 queued commands; 1.6 million states | Do flag, sockets, announcements and pump agree in every interleaving of calls and events? Which sockets are lost? Does the transport implement its contract? | holds, but where two threads' events met in a session |
| `pump_outlives_disconnect` | 2 sockets | "stops the message pump" (`include/iotconnect.h:166`) | **violated**: the join may time out after five seconds |
| `sample_loop` | 1 socket, 2 queued commands; 41 thousand | Is connect() ever refused for ever? Is a dead pump noticed? Does the loop come back to service, the pump end, each call return? What does a lost link cost? | holds, if no peer stops in the middle of a payload |
| `ota_update` | 2 jobs, 2 deliveries each, 1 reset; 855 thousand | Are accepted jobs served and ended, and what if their strings cannot be copied? Is there a good image to fall back to? Does flash change only as `UpdateContract` allows? Is a stored ack taken up? | holds, but for the failed copy |
| `ota_reverted_report` | 2 jobs, 1 reset | "MCUboot reverted: we are back on the OLD image." (`zl/iotc_ota.c:346`) | **violated**: a reset between confirming and clearing the ack |
| `sdk_lifecycle` | 3 init() calls, 2 publishers, limits 1 and 2, one change; 1.3 million | Which slots may dangle? What does the broker handshake read? Is a copy lost? By how much can the counter pass the limit, and does telemetry stop? | holds |
| `identity_store` | 3 fields, 2 values, 3 commands, 1 reset, 3 backends; 5.7 million | Is what is stored what was acknowledged? Do the mirrors hold it? Does a save change one field? | holds, but for the causes the run names |
| `identity_erased` | the same, 2 commands | An erased identity does not come back | **violated** on the disk backend: the erase is not flushed |
| `file_upload` | 3 identity responses; 228 thousand | Is the one test at the start enough? Do signature, bucket and announcement belong to one identity? Does an upload free everything? | holds, as long as discovery does not overlap an upload |
| `soft_ap` | 3 networks, 2 entries, 4 configurations, 2 requests or commands, 1 reset; 431 thousand | Does reprovisioning dead-end on a full store? What does an eviction cost? Is a body handled as it was sent? Is an answered setup enough for the next boot? Does the station come up? | holds, but for the causes the properties name |
| `meter_uart` | ring of 2, line of 2, frames of 1, 2 and 4 bytes, 2 frames; 179 thousand | Does damage spread? Can a snapshot be torn? Is a received frame forgotten? | holds |
| `meter_resync` | 1 frame of 1 or 4 bytes | "oversized frame: resync at next newline" (`meter_uart.c:124`) | **violated**: the tail of the frame is parsed as a line |

The four violations are the findings of `PROJECT.json`, each with the lines and
the quoted sentence.

**Bounds.** Two sockets give a leaked one and the one in use, whose number may
be that of a session before, so a pump can outlive two sessions; with a third,
one more could leak. Two queued commands are one whose callback publishes
while the pump waits for the payload of the other, or has no memory for a third.
`sample_loop` has
one socket: in it sessions follow each other through the same number, without
a bound on how many, until the one socket has leaked. Two jobs delivered twice
give a duplicate during the download, a second job meeting a busy one, and an
update on top of an update; one reset can fall between any two steps, and the
reboots the OTA thread asks for come on top. Three init() calls give a failure,
a retry and one over a live SDK; a limit of 1 is one both publishers can pass
at once. Three identity fields, of which one is always given, one may be left
out or defaulted and one is pasted, cover the ways the commands differ; three
commands give a value, its replacement and a failure between. Three identity
responses give an upload after a template changed from a customer's bucket to
the platform's or to none, and back. A Wi-Fi store of two entries and three
networks is full, with one network outside; a behaviour starts from an empty
device, a whole set-up or part of one, so two requests are enough to finish a
set-up or to make two threads evict at once, and the four configurations are a
whole one, each half of the cloud and one with an empty value. Of the meter's
frames one byte always fits, two just fill the line buffer and pass the ring with
their end of line, four overflow both. The type invariants are in no run:
section 5 proves them. The proofs remove the bounds from every safety property;
only the liveness properties rest on these instances. The inductive invariants
hold in TLC on these instances, too (with a range in place of `Nat` where they
quantify over it).

**Deadlock** is checked in `mqtt_session`, `pump_outlives_disconnect` and
`sample_loop`. It is not where the system really stops: when the bounded number
of deliveries, resets, init() calls, identity responses, requests, frames or commands
is used up and nothing is left to do.

**Fairness.** In `MqttClient` an API call in progress, the work queue and a ping
of the pump are strongly fair, since the mutex they wait for is given and taken
again and Zephyr's hands itself to a waiter; the pump's other steps are
weakly fair. Each wait has a timeout (`poll()` what is left of the keepalive,
`k_thread_join()` and the CONNACK semaphore their own) but one, the wait for a
payload: `PumpPayload` and `PumpPayloadFails` are not fair, and `PumpStops`,
`CallsReturn`, `DeadPumpNoticed` and `Reconnects` have `PeerFinishes` as their
premise. Without it they are false. Nothing obliges the application to call.
`SampleLoop` adds the main loop, and strong fairness of each step of a dial: the
network need not work, only not fail for ever. Its callback returns in the end;
nobody has to send commands. In `Sdk` the main thread's telemetry is strongly
fair, as it can be sent only between the other calls. In `OtaUpdate` the work
queue, the OTA thread and the main thread are weakly fair (a download has a
timeout; the main loop retries connect). In `SoftAp` the auto-connect thread is
weakly fair (its waits have timeouts) and `LinkUp` strongly: the network may
refuse, but not every attempt for ever. In `MeterUart` the work item and a copy in
progress are weakly fair, and taking the mutex in the parser strongly, since
the main thread may take it again and again. The other modules state no liveness.

## 4. How far a property reaches

**Transport.** A raised flag does not mean an open socket: between the close and
the event's `connected = false` (`zl/iotc_mqtt_client.c:250`) the flag is up over a
closed socket, and `is_connected()` and `publish()` read it there without a lock
(`:541`, `:552`). `ConnectedMeansUp` says that this is the only such moment, as
long as the events of the session were one thread's at a time.
The exception, `disturbed`, is real: a late DISCONNECT event of one thread can
fall into the next session and lower its flag, and a CONNACK event overtaken by
another thread's failing publish raises the flag after the session is over.
What remains then is `ConnectedIsServed` (there is a pump, which finds the
failure and lowers the flag) and the contract. `OneLostPerSession` is about the
loop only, and about sessions that were not disturbed; the callback may
lose one more for each queued command. `Reconnects` ends with the sockets:
each session the pump's exit leaks takes one, and with none left connect() fails
for ever.

**Update.** `BusyIsServedOrStranded` leaves one cause for a `job_busy` that nobody
serves, the failed copy of an event's strings; `StrandedUntilReset` says what it
costs: every later update is refused until the device resets. `JobReleased` holds up to that case.
`TrialHasFallback` stops speaking once a second update is accepted during the
trial, because its download overwrites the slot that holds the fallback; from
there `Displace` may make an update permanent that was never connected, against
"once the NEW firmware is connected, [...] the image is confirmed"
(`zl/iotc_ota.c:14-16`). `PermanentWasOnline`, proved, says that it is never the
firmware that does so, and `GoodInFlash` what is still true then: the image
beside it was connected.

**SDK.** `Overshoot` by one holds for two publishers, the number the samples
have. With three the number of publishers is no bound: one thread holds a high
value of the counter while another sets it back to a low one, a third passes the
check on the low value and then counts on from the high one, and so on.
`Overshoot` is about the counter, not about what went out: two increments that
overlap count once, so more messages than the limit can be published, against
"Telemetry publishes stop after the per-boot message limit"
(`include/iotconnect.h:169`); `TelemetryStops` says that they do stop in the end.
`BrokerHandshakeIsCurrent` and `NoCopyLost` speak of an SDK no `init()` was called
over while live, since `init()` overwrites `s_config` without freeing it.
`OnlyFailedInitDangles` has the one slot that does dangle: after a failed discovery
the retry's DRA handshake reads the freed CA of the first try, although
`lib/iotconnect.c:432` calls registering the DRA slot again harmless.
`RetryNeedsFailure` proves that no other handshake does.

**Identity.** `StoredAsPromised` and `MirrorsAreStored` exclude four causes, each a
hazard in `PROJECT.json`, and `dropped` the finding `identity_erased`. What a mirror
holds matters twice: `iotc setup` takes from it what it is not given, and a
packed backend writes all of them with each save. On the settings backend
`iotcprov provision` leaves the mirrors behind (`bypassed`), and an `iotc setup`
after it stores the old values again.

**Upload.** `StrayNeedsOverlap`, `SignerFitsBucket` and `AnnouncedIsStored` speak of
uploads that no init() or deinit() overlaps: nothing in the code excludes the
overlap, and then the upload does read freed strings.

**Portal.** `AnsweredIsEnough` is about a set-up whose four parts were each answered
with 200: a configuration that brought one of them is a 200 too, but for that
part only. It excludes what the portal cannot see: a save that failed (its
results are ignored and 200 is answered), an eviction that made room for
nothing, and an empty value saved over a part, by a later configuration or by
`iotcprov provision` without a cpid in the shell. The portal's own report
(`portal.c:13`, "reports what is stored") is of flags in RAM and is not modelled.
`PairMatches` excludes a pair that was cut by a reset, saved in part, or mixed by
two threads; nothing in the code notices such a pair before the broker refuses
it. Two callers that store the *same* network in a full store can evict two
others; that is the `wasted` of `OneEvictionPerCall`. An empty POST does run the
handler on the body of the request before it: `HandlesOwnBody` is about requests
with a body.

**Meter.** `DamageIsLocal` counts a full line buffer as damage each time it
happens, which `ResyncsAtNewline` shows to be no resync. `SnapshotIsWhole` says that
the mutex does its work, not that a snapshot is of one frame: a key that is
absent keeps the reading of an earlier frame (`meter_uart.h:13`). The kinetis
main ignores a failed `meter_uart_start()` and then locks a mutex nobody
initialised; `MeterUart` starts after a successful one.

## 5. Proofs

Eight modules prove, for every value of the constants, theorems of the form
`Spec => []Inv` by an inductive invariant. Each rests on nothing but the named
assumptions of the modules it extends.

*MqttClientProofs*, from `BoundsAssumption` only. The safety properties are not
inductive: that a raised flag means an established session does not say who may
still close it. `IInv` adds `Placed` (where a thread can be while it handles an
event), `Counted`, `Session`, `Calls` and `Pumped` (a raised flag has a pump,
disturbed or not). `Session` is, for a session with one thread's events at
a time, `Settled`: `Raising` (who read the CONNACK is alone until the flag is
up), `Closing`, `Up`, `Dialled`, `Closed`, `Live` (an established session
was announced and has its flag, or lost it to the pump's exit) and `Dead`; and,
for any session, `Announced` and `Leaks`. `Calls` is what the application thread
relies on at each place: `Waiting`, `Dials`, `Ended`, `Polled`. Lemmas say what
closing, an accepted CONNACK and each event do to `Session`, whichever thread
runs them; the step lemmas have one case per action. From `IInv`: `TypeCorrect`,
`FlagIsHonest`, `FlagIsServed`, `StatusIsHonest`, `LeaksComeFromPumpExit`,
`DisconnectLeavesNothing` (an action property), and `Refinement`: initial states
map to initial states and each step to a step of `SessionContract` or a stutter.

*SampleLoopProofs*, from the same. Every step is a step of the transport or leaves
it alone (`LoopRunsTransport`), so the theorems of `MqttClientProofs` carry over.
`LoopInv` adds `LoopPlaced` (which call of the API each place of the loop is in)
and, for a session that was not disturbed, `Loses`: connect() is called over a
flag that is down or about to be lowered by the caller (`FlagFalls`), and a
loop that lost a message finds it so before it sends another. From it:
`ConnectIsNeverRefused`, `OneMessagePerSession`.

*OtaUpdateProofs*, from `OtaAssumption` only. `IInv` adds `Accepted` (a
job in flight is busy, is in one pair of hands at a time, and arrived while the
running image was online), `Connected` (whoever is connected or confirms runs an
image that was online, and reports an ack that was loaded) and `Marked` (what
MCUboot would act on at the next boot: an image that is not the one it would
fall back to was online). From it: `TypeCorrect`, `AcceptedIsServed` (but for the
failed copy), `FallbackIsGood`, `StringsAreStable`, `StrandedStays`. `Refinement` needs
`Pushed` besides, since the contract tells an update from any other content of
flash: what MCUboot swaps in is what the OTA thread downloaded for a job that was
delivered. One lemma per thread and one for the boot map each step to a step of
`UpdateContract`, `Displace` among them, or a stutter. From the contract alone follow
`GoodImageRemains` and `RunsOnlyUpdates`, and from `IInv` `ConfirmedWasOnline`.

*SdkProofs*, from `InitsAssumption`, `QuotaAssumption` and `MainPublishes`, has
three parts. The singleton: `IInv` relates three pointers to each credential, in
`s_config`, in the retained descriptor and in the slot: `Numbered`, `Held` (a copy
is held by a live SDK or the `init()` in progress), `Discovering`, `Named` (a slot
that points into `s_config` is one that deinit() will clear), `Added`, `Intact` (no
other slot dangles), `Own`, `Current`. From it: `TypeCorrect`,
`NoOtherSlotDangles`, `HandshakeReadsLastInit`, `CopiesAreFreed`,
`RetryNeedsFailure`. The quota, under the hypothesis of two publishers: its bound
is not inductive, since a thread between its check and its store may write
anything up to the limit. `QuotaInv` says what such a thread holds, alone
(`Single`: it passed the check before the other stored, so it can write the limit
plus one only on top of the limit) and when both are inside (`Both`: nothing was
stored since the later check). From it: `OvershootByOne`. The composition: every
step is a step of one part and leaves the other alone (`SdkRunsParts`), so both
parts' theorems hold of it (`SdkOvershootByOne`).

*FileUploadProofs*, from `IdentitiesAssumption` only. `IInv` adds `OneResponse`
(the hook's strings come from one response, and a role from one whose bucket is
the customer's), `Undisturbed` (an upload without overlap works on exactly the
strings it tested) and `Allocated`. From it: `ReadsAreSafe`, `RolesFit`,
`AnnouncementsAreTrue`, `UploadsDoNotLeak`.

*SoftApProofs*, from `SoftApAssumption` and `WifiAssumption`, has two parts. The
store by itself (`StoreSpec`): `WifiInv` adds `Fits`, `Called` and `Apart` (what a
call that has the store to itself knows about it at each step). From it:
`NoSpaceIsARace` and `EvictionsAreAccounted`, the latter by counting the callers
between their eviction and their second set. The portal: `SoftApUsesStore` shows
that the sample's steps are the store's or leave it alone, so both theorems hold
in it. `BodyInv` relates the buffer, its length and the request in
flight (`BodiesAreTheirOwn`). `SaveInv` relates what each thread has still to save
to the generation it is of, to who provisions beside it and to what the step
before stored: `PairInv` for `CertificateFitsKey`, `ThereInv` with `KeptInv`, which
follows what was answered into the store, for `AnsweredSetupIsEnough`.

*IdentityStoreProofs*, from `IdentityAssumption` (the orders of saving are
sequences, a default is a value, `Empty` and `Garbled` are none), for the three
backends at once. That the medium holds what was promised says nothing about
the next save of a packed backend, which rewrites every field from the mirrors.
`PackedInv` says, while nothing has endangered the store, that each mirror
holds a promised or an attempted value of its own field, but for the one being
saved (`Mirrors`), that the blob about to be written is of those mirrors
(`Packing`), and that the blob the load has read is still the stored one
(`Loading`); before the load the mirrors are empty. `Exact` and `MirrorsInv` say
the like of the settings backend. From them: `TypeCorrect`, `PromisesAreKept`,
`MirrorsStayCurrent`, `OneFieldPerSave` (an action property), and
`ErasedWhileSafe`: what `identity_erased` refutes holds until one of the four
causes occurs.

*MeterUartProofs*, from `MeterAssumption`. The bytes in flight are a chain: the
last byte of the line, the ring, the byte the meter sends next. `Accounted` counts
its broken links and the bad line, with the lines already mangled, against the
bytes dropped, the full line buffers and the late start; each byte moved from the
ring to the line, and each one dropped, is a lemma about that count. `Locked` and
`Whole` are what the mutex protects: outside a parse both readings are as the
last whole parse left them. From them: `TypeCorrect`, `DamageStaysLocal`,
`SnapshotsAreWhole`. `NothingIsForgotten` is the safe part of the liveness property
`FramesArrive` (`Drained`): when the work item neither runs nor is queued, every
frame sent to its end was parsed or refused, but for what dropped bytes and full
buffers cost. It needs two invariants more, `Arriving`, which also counts the
ends of line in flight, and `Woken`, no wake-up is lost between the interrupt and
a work item on its way out.

Only model-checked: the liveness properties `PumpStops`, `CallsReturn`,
`DeadPumpNoticed`, `Reconnects`, `TelemetryStops`, `AckPickedUp`, `JobReleased`,
`Associates` and `FramesArrive`, since the prover does not reach
fairness and ENABLED. Every invariant and every action property of the passing
runs, and both refinements, are proved.

## 6. Not modelled

* Payloads, topics, JSON and the parsing in iotc-c-lib; the C2D acknowledgement
  protocol beyond "a callback may publish".
* Builds without runtime discovery, and the protected-storage credential
  backend: there a registration that fails half way leaves
  `s_creds_registered` down, and the broker slot outlives deinit().
* Torn writes of the identity blob (a disk write of several sectors is one
  step), parse errors part way through a load, two provisioning threads at
  once, and the steps inside `iotc cred clear`.
* The bytes of an OTA download: the image is whole, torn, or absent. An ack id
  of 128 bytes or more, which is stored but not loaded (`zl/iotc_ota.c:62`).
* Allocations that fail while credentials are copied (`lib/iotconnect.c:273`
  takes a missing copy for a credential that was not given).
* The announcement of an upload, which returns 0 although the publish behind it
  may have been dropped (`zl/iotc_file_upload.c:818`): the transport is not
  composed with the upload.
* The portal's page, status report, access point, DHCP and captive-portal DNS:
  nothing a later step reads. The torn write of one Wi-Fi entry.
* The poll byte the meter is sent, and what a reading is.
* The click-telemetry sample, which reads sensors and publishes as the others do.
* The components listed as not modelled in `PROJECT.json`: time sync and vitals
  are one query or one message of pure I/O; tools, patches and docs are no
  part of the running system; the others are planned below.

## 7. Plan

In order of importance:

1. **C2D dispatch**: the copies of messages, their quality of service and the
   acknowledgements, refining the queue of `MqttClient`.
2. **Composition** of `Sdk` and `MqttClient`: a deinit() while the pump
   outlives the session and still uses the credentials.
3. **Discovery client**: two requests over one buffer, in place of the single
   handshake of `SdkLifecycle`.
4. **Abstract specifications**: the settings backend of `IdentityStore` as what the
   packed ones implement while nothing endangers them.
