------------------------------- MODULE MeterUart -------------------------------
(***************************************************************************)
(* The meter ingest of samples/kinetis-meter/src/meter_uart.c.             *)
(*                                                                         *)
(* The UART interrupt puts what the meter sends into a ring buffer and     *)
(* submits a work item; on the system work queue that item takes the bytes *)
(* out, assembles lines and parses them into `latest`, which the main loop *)
(* copies out under the mutex.  A frame is a few bytes and the end of line *)
(* here; each byte knows its frame, its place in it and the frame's length.*)
(***************************************************************************)
EXTENDS Naturals, Sequences

CONSTANTS
    RingSize,    \* RING_BUF_DECLARE(rx_ring, 512)
    LineSize,    \* sizeof(line_buf) - 1
    Lengths,     \* lengths a frame may have
    MaxFrames    \* bound: frames the meter sends

ASSUME MeterAssumption ==
    RingSize \in Nat \ {0} /\ LineSize \in Nat \ {0} /\ Lengths \subseteq Nat \ {0} /\ MaxFrames \in Nat

VARIABLES
    sent, pos, size,   \* external: the frame being sent, its next byte, its length
    ring,        \* rx_ring
    submitted,   \* rx_work is queued
    work,        \* where rx_work_fn() stands
    line,        \* line_buf[0 .. line_len - 1]
    latest,      \* two of the readings, each by the frame it is from
    frames,      \* latest.frames
    lock,        \* who holds the mutex
    reader,      \* where meter_uart_get() stands
    out,         \* the first reading of the copy it is making
    (* history *)
    late,        \* reception was enabled in the middle of a frame
    dropped,     \* bytes the ring had no room for
    oversized,   \* times line_buf was full
    mangled,     \* lines parsed that are no frame
    refused,     \* frames cJSON_Parse() had no memory for
    whole,       \* the readings as the last whole parse left them
    mixed        \* a copy was of readings no whole parse had left

meterVars == <<sent, pos, size, late>>
workVars  == <<work, line, oversized, mangled, refused, whole>>
readVars  == <<reader, out, mixed>>
vars == <<meterVars, ring, dropped, submitted, workVars, latest, frames, lock, readVars>>

EndOfLine == <<0, 0, 0>>
IsFrame(s) == LET k == s[1][1]  n == s[1][3] IN s = [i \in 1..n |-> <<k, i, n>>]
-----------------------------------------------------------------------------
(***************************************************************************)
(* uart_isr().                                                             *)
(***************************************************************************)
NextByte == IF pos > size THEN EndOfLine ELSE <<sent, pos, size>>

Receive ==
    /\ sent <= MaxFrames
    /\ IF Len(ring) < RingSize
       THEN ring' = Append(ring, NextByte) /\ UNCHANGED dropped
       ELSE dropped' = dropped + 1 /\ UNCHANGED ring
    /\ IF pos > size
       THEN sent' = sent + 1 /\ pos' = 1 /\ size' \in Lengths
       ELSE pos' = pos + 1 /\ UNCHANGED <<sent, size>>
    /\ UNCHANGED <<workVars, latest, frames, lock, readVars, late>>

\* Mutant: a work item that runs is not submitted again.
UartIsrUnlessRunning == Receive /\ submitted' = (submitted \/ work = "idle")

\* k_work_submit() queues the item, also while it runs.
UartIsr == Receive /\ submitted' = TRUE
-----------------------------------------------------------------------------
(***************************************************************************)
(* rx_work_fn(), on the system work queue.                                 *)
(***************************************************************************)
WorkStart ==
    /\ work = "idle" /\ submitted
    /\ submitted' = FALSE
    /\ work' = "bytes"
    /\ UNCHANGED <<meterVars, ring, dropped, line, oversized, mangled, refused, whole, latest, frames, lock, readVars>>

\* A byte is appended; or the buffer is full, and the line starts again
\* without it.  A line ends at its end-of-line byte unless it is empty.
WorkByte ==
    /\ work = "bytes" /\ ring # <<>>
    /\ ring' = Tail(ring)
    /\ LET byte == Head(ring)
       IN IF byte = EndOfLine
          THEN /\ work' = IF line = <<>> THEN "bytes" ELSE "line"
               /\ UNCHANGED <<line, oversized>>
          ELSE /\ IF Len(line) < LineSize
                  THEN line' = Append(line, byte) /\ UNCHANGED oversized
                  ELSE line' = <<>> /\ oversized' = oversized + 1
               /\ UNCHANGED work
    /\ UNCHANGED <<meterVars, dropped, submitted, mangled, refused, whole, latest, frames, lock, readVars>>

\* The ring is found empty, and then the item is done: between the two the
\* interrupt may put more.
WorkEnd ==
    /\ \/ work = "bytes" /\ ring = <<>> /\ work' = "return"
       \/ work = "return" /\ work' = "idle"
    /\ UNCHANGED <<meterVars, ring, dropped, submitted, line, oversized, mangled, refused, whole, latest, frames, lock, readVars>>

\* Mutant: the line is not started again after it was parsed.
LineDoneKeeps ==
    /\ work' = "bytes"
    /\ mangled' = IF IsFrame(line) THEN mangled ELSE mangled + 1
    /\ UNCHANGED line

LineDone ==
    /\ work' = "bytes"
    /\ mangled' = IF IsFrame(line) THEN mangled ELSE mangled + 1
    /\ line' = <<>>

\* cJSON_Parse() returns NULL: the line is no frame and not understood, or it
\* is one and there is no memory for it.
ParseRejects ==
    /\ work = "line"
    /\ refused' = IF IsFrame(line) THEN refused + 1 ELSE refused
    /\ LineDone
    /\ UNCHANGED <<meterVars, ring, dropped, submitted, oversized, whole, latest, frames, lock, readVars>>

ParseLock ==
    /\ work = "line" /\ lock = "free"
    /\ lock' = "work"
    /\ work' = "first"
    /\ UNCHANGED <<meterVars, ring, dropped, submitted, line, oversized, mangled, refused, whole, latest, frames, readVars>>

\* A reading whose key (or tag) the line has is stored; one it has not keeps
\* its previous value.
Reading(f) ==
    \/ \E i \in DOMAIN line : latest' = [latest EXCEPT ![f] = line[i][1]]
    \/ UNCHANGED latest

ParseFirst ==
    /\ work = "first"
    /\ Reading("va")
    /\ work' = "second"
    /\ UNCHANGED <<meterVars, ring, dropped, submitted, line, oversized, mangled, refused, whole, frames, lock, readVars>>

\* The last reading, latest.frames and the unlock.
ParseSecond ==
    /\ work = "second"
    /\ Reading("ia")
    /\ whole' = latest'
    /\ frames' = frames + 1
    /\ lock' = "free"
    /\ LineDone
    /\ UNCHANGED <<meterVars, ring, dropped, submitted, oversized, refused, readVars>>

Work == WorkStart \/ WorkByte \/ WorkEnd \/ ParseRejects \/ ParseLock \/ ParseFirst
        \/ ParseSecond
-----------------------------------------------------------------------------
(***************************************************************************)
(* meter_uart_get(), on the main thread.                                   *)
(***************************************************************************)

\* Mutant: the readings are copied without the mutex.
GetLockNone ==
    /\ reader = "idle"
    /\ reader' = "first"
    /\ UNCHANGED <<meterVars, ring, dropped, submitted, workVars, latest, frames, lock, out, mixed>>

GetLock ==
    /\ reader = "idle" /\ lock = "free"
    /\ lock' = "main"
    /\ reader' = "first"
    /\ UNCHANGED <<meterVars, ring, dropped, submitted, workVars, latest, frames, out, mixed>>

GetFirst ==
    /\ reader = "first"
    /\ out' = latest["va"]
    /\ reader' = "second"
    /\ UNCHANGED <<meterVars, ring, dropped, submitted, workVars, latest, frames, lock, mixed>>

GetSecond ==
    /\ reader = "second"
    /\ mixed' = (mixed \/ out # whole["va"] \/ latest["ia"] # whole["ia"])
    /\ lock' = "free"
    /\ reader' = "idle" /\ out' = 0
    /\ UNCHANGED <<meterVars, ring, dropped, submitted, workVars, latest, frames>>

Get == GetFirst \/ GetSecond
-----------------------------------------------------------------------------
\* meter_uart_start() enables reception between two frames or inside one.
Init ==
    /\ sent = 1 /\ size \in Lengths /\ pos \in 1..size
    /\ late = (pos # 1)
    /\ ring = <<>> /\ submitted = FALSE /\ work = "idle" /\ line = <<>>
    /\ latest = [va |-> 0, ia |-> 0] /\ whole = latest /\ frames = 0
    /\ lock = "free" /\ reader = "idle" /\ out = 0 /\ mixed = FALSE
    /\ dropped = 0 /\ oversized = 0 /\ mangled = 0 /\ refused = 0

Next == UartIsr \/ Work \/ GetLock \/ Get

\* The work queue runs what was submitted, and the main thread, which owns
\* the mutex for a copy only, is scheduled; nobody has to call it again.
Spec == Init /\ [][Next]_vars /\ SF_vars(ParseLock) /\ WF_vars(Work) /\ WF_vars(Get)
-----------------------------------------------------------------------------
TypeOK ==
    /\ sent \in 1..(MaxFrames + 1) /\ size \in Lengths /\ pos \in 1..(size + 1)
    /\ ring \in Seq(Nat \X Nat \X Nat) /\ Len(ring) <= RingSize
    /\ line \in Seq(Nat \X Nat \X Nat) /\ Len(line) <= LineSize
    /\ submitted \in BOOLEAN /\ late \in BOOLEAN /\ mixed \in BOOLEAN
    /\ work \in {"idle", "bytes", "return", "line", "first", "second"}
    /\ latest \in [{"va", "ia"} -> Nat] /\ whole \in [{"va", "ia"} -> Nat]
    /\ out \in Nat /\ frames \in Nat /\ refused \in Nat
    /\ lock \in {"free", "work", "main"} /\ reader \in {"idle", "first", "second"}
    /\ dropped \in Nat /\ oversized \in Nat /\ mangled \in Nat

Late == IF late THEN 1 ELSE 0

\* Damage does not spread: a dropped byte, a full line buffer and a late start
\* each put one line that is no frame before the parser, and nothing else does.
\* This is what rx_work_fn() keeps of its own resync rule, which it breaks.
DamageIsLocal == mangled <= dropped + oversized + Late

\* A snapshot is not torn: meter_uart_get() returns the readings as a whole
\* number of lines left them, however copies and parses overlap.  (They need
\* not be of one frame: a key a frame does not have keeps its old reading.)
SnapshotIsWhole == ~mixed

\* No frame is forgotten: what the meter has sent to its end is parsed, or
\* refused for want of memory, without waiting for more to arrive, except for
\* what lost bytes or its length cost (a lost end of line costs two frames).
FramesArrive ==
    <>[](sent - 1 <= frames + refused + 2 * dropped + oversized + Late)

\* meter_uart.c:124 "oversized frame: resync at next newline": on a line that
\* lost nothing the parser is given frames, never the tail of one that was too
\* long for the buffer.
ResyncsAtNewline == dropped = 0 /\ ~late /\ work = "line" => IsFrame(line)
=============================================================================
