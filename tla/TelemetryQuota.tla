---------------------------- MODULE TelemetryQuota -----------------------------
(***************************************************************************)
(* The demo quota of lib/iotconnect.c: msg_limited_publish() counts the    *)
(* telemetry of one boot in s_msg_sent and drops what exceeds s_msg_limit. *)
(*                                                                         *)
(* It is called without a lock by every thread that publishes: the main    *)
(* loop, and the C2D work queue whose callbacks send telemetry too.  The   *)
(* shell changes the limit meanwhile.  The check, the load and the store   *)
(* of the increment are three steps, and a thread can be preempted between *)
(* them.  Command acknowledgements and OTA reports go to other topics and  *)
(* pass uncounted; they change nothing here.  What the transport does with *)
(* a message that was counted is SampleLoop's.                             *)
(***************************************************************************)
EXTENDS Naturals

CONSTANTS
    Publishers,  \* threads that publish telemetry
    Limits,      \* limits the shell may set, 0 for unlimited
    Boot,        \* CONFIG_IOTCONNECT_DEMO_MSG_LIMIT
    MaxSets,     \* bound: changes of the limit
    MaxSent      \* bound: where the counter saturates, above every limit

ASSUME QuotaAssumption ==
    /\ Limits \subseteq Nat /\ Boot \in Limits /\ Boot # 0
    /\ MaxSets \in Nat /\ MaxSent \in Nat /\ \A l \in Limits : l + 1 < MaxSent

VARIABLES
    s_msg_limit, s_msg_sent,
    pc,         \* where each publisher stands in msg_limited_publish()
    reg,        \* the counter value each publisher has loaded
    (* history *)
    sets,       \* changes of the limit so far
    top,        \* highest limit set so far
    unlimited   \* the limit was 0 at some time

quota     == <<s_msg_limit, sets, top, unlimited>>
quotaVars == <<quota, s_msg_sent, pc, reg>>

Goto(p, where) == pc' = [pc EXCEPT ![p] = where]

\* Mutant: the comparison lets one message too many through.
UnderQuotaLate == s_msg_limit = 0 \/ s_msg_sent <= s_msg_limit

UnderQuota == s_msg_limit = 0 \/ s_msg_sent < s_msg_limit
-----------------------------------------------------------------------------
\* The check lets the message pass.
Check(p) ==
    /\ pc[p] = "check" /\ UnderQuota
    /\ Goto(p, "load")
    /\ UNCHANGED <<quota, s_msg_sent, reg>>

\* A message over the limit is dropped: nothing changes.
Paused(p) == pc[p] = "check" /\ ~UnderQuota /\ UNCHANGED quotaVars

\* s_msg_sent++ reads the counter ...
Load(p) ==
    /\ pc[p] = "load"
    /\ reg' = [reg EXCEPT ![p] = s_msg_sent]
    /\ Goto(p, "store")
    /\ UNCHANGED <<quota, s_msg_sent>>

\* Mutant: the increment is lost.
StoreNothing(p) ==
    /\ pc[p] = "store"
    /\ reg' = [reg EXCEPT ![p] = 0]
    /\ Goto(p, "publish")
    /\ UNCHANGED <<quota, s_msg_sent>>

\* ... and writes it back.
Store(p) ==
    /\ pc[p] = "store"
    /\ s_msg_sent' = IF reg[p] < MaxSent THEN reg[p] + 1 ELSE MaxSent
    /\ reg' = [reg EXCEPT ![p] = 0]
    /\ Goto(p, "publish")
    /\ UNCHANGED quota

\* iotc_mqtt_client_publish() is called.
Handed(p) ==
    /\ pc[p] = "publish"
    /\ Goto(p, "check")
    /\ UNCHANGED <<quota, s_msg_sent, reg>>

Count(p) == Check(p) \/ Load(p) \/ Store(p)

\* iotc limit <n>.
SetMsgLimit(l) ==
    /\ sets < MaxSets
    /\ sets' = sets + 1
    /\ s_msg_limit' = l
    /\ top' = IF l > top THEN l ELSE top
    /\ unlimited' = (unlimited \/ l = 0)
    /\ UNCHANGED <<s_msg_sent, pc, reg>>
-----------------------------------------------------------------------------
QuotaInit ==
    /\ s_msg_limit = Boot /\ s_msg_sent = 0
    /\ pc = [p \in Publishers |-> "check"] /\ reg = [p \in Publishers |-> 0]
    /\ sets = 0 /\ top = Boot /\ unlimited = FALSE

QuotaNext == (\E p \in Publishers : Count(p) \/ Paused(p) \/ Handed(p))
             \/ (\E l \in Limits : SetMsgLimit(l))

QuotaSpec == QuotaInit /\ [][QuotaNext]_quotaVars
-----------------------------------------------------------------------------
QuotaTypeOK ==
    /\ s_msg_limit \in Limits /\ s_msg_sent \in 0..MaxSent
    /\ pc \in [Publishers -> {"check", "load", "store", "publish"}]
    /\ reg \in [Publishers -> 0..MaxSent]
    /\ sets \in 0..MaxSets /\ top \in Limits /\ unlimited \in BOOLEAN

\* However the two publishers preempt each other, the counter passes the
\* highest limit there was by one message at most.
Overshoot == ~unlimited => s_msg_sent <= top + 1
=============================================================================
