---------------------------------- MODULE Sdk ----------------------------------
(***************************************************************************)
(* lib/iotconnect.c as one program: the singleton (SdkLifecycle) and the   *)
(* telemetry quota (TelemetryQuota).  The application thread calls init,   *)
(* connect and deinit and sends telemetry between the calls; the C2D       *)
(* worker's callbacks send telemetry during them.  A message is counted    *)
(* only while iotc-c-lib has its reporting topic; the count itself is one  *)
(* boot's, and no init() or deinit() starts it again.                      *)
(***************************************************************************)
EXTENDS SdkLifecycle, TelemetryQuota

ASSUME MainPublishes == "main" \in Publishers

sdkAll == <<vars, quotaVars>>

\* iotconnect_sdk_init(), connect() and deinit(), on the application thread.
Lifecycle ==
    /\ pc["main"] = "check"
    /\ Next
    /\ UNCHANGED quotaVars

\* iotconnect_sdk_send_telemetry_number(), down to msg_limited_publish().
Send(p) ==
    /\ pc[p] = "check" => resolved /\ (p = "main" => call = "none")
    /\ Count(p) \/ Paused(p) \/ Handed(p)
    /\ UNCHANGED vars

Shell == (\E l \in Limits : SetMsgLimit(l)) /\ UNCHANGED vars

AllInit == Init /\ QuotaInit

AllNext == Lifecycle \/ (\E p \in Publishers : Send(p)) \/ Shell

\* The application goes on sending between its other calls.
AllSpec == AllInit /\ [][AllNext]_sdkAll /\ SF_sdkAll(Send("main"))
-----------------------------------------------------------------------------
\* Telemetry stops: if the SDK is usable again and again, and a limit is in
\* force for good, the counter reaches it and stays there, in spite of the
\* increments that are lost and of every init() and deinit() in between.
TelemetryStops ==
    []<>(pc["main"] = "check" /\ resolved /\ call = "none") =>
        <>[](s_msg_limit # 0 => s_msg_sent >= s_msg_limit)
=============================================================================
