--------------------------- MODULE BrowserChannel ---------------------------
(***************************************************************************)
(* The bounded queue between the relay and one browser connection          *)
(* (backend/app/services/terminal_queue.py), as operators on its value.    *)
(* Each method holds the channel's lock without suspending, so each is one *)
(* step of whoever calls it.                                               *)
(***************************************************************************)
EXTENDS Naturals, Sequences

CONSTANTS
    MaxFrames,    \* terminal_queue_max_frames
    MaxBytes,     \* terminal_queue_max_bytes
    MaxControl    \* the independent budget of control frames

ASSUME ChannelAssumption ==
    MaxFrames \in Nat /\ MaxBytes \in Nat /\ MaxControl \in Nat

(* An item is a chunk of output, a control frame, the one overflow notice  *)
(* or the sentinel close() leaves; id numbers the chunks of a session.     *)
Item(kind, id, size) == [kind |-> kind, id |-> id, size |-> size]
Output(id, size) == Item("output", id, size)
Control == Item("control", 0, 0)
OverflowNotice == Item("overflow", 0, 0)
EndOfChannel == Item("end", 0, 0)

EmptyChannel ==
    [items |-> <<>>, frames |-> 0, bytes |-> 0, control |-> 0,
     overflowed |-> FALSE, closed |-> FALSE]

Full(ch, size) == ch.frames >= MaxFrames \/ ch.bytes + size > MaxBytes

(* send_output: after the first frame that does not fit, a single notice   *)
(* is queued and every later frame is dropped.                             *)
SendOutput_NoNotice(ch, id, size) ==
    IF ch.closed \/ Full(ch, size) THEN ch
    ELSE [ch EXCEPT !.items = Append(@, Output(id, size)),
                    !.frames = @ + 1, !.bytes = @ + size]

SendOutput_FramesOnly(ch, id, size) ==
    IF ch.closed \/ ch.overflowed THEN ch
    ELSE IF ch.frames >= MaxFrames
         THEN [ch EXCEPT !.overflowed = TRUE, !.items = Append(@, OverflowNotice)]
         ELSE [ch EXCEPT !.items = Append(@, Output(id, size)),
                         !.frames = @ + 1, !.bytes = @ + size]

SendOutput(ch, id, size) ==
    IF ch.closed \/ ch.overflowed THEN ch
    ELSE IF Full(ch, size)
         THEN [ch EXCEPT !.overflowed = TRUE, !.items = Append(@, OverflowNotice)]
         ELSE [ch EXCEPT !.items = Append(@, Output(id, size)),
                         !.frames = @ + 1, !.bytes = @ + size]

(* send_control: refused (QueueOverflow) when closed or out of budget;     *)
(* the relay drops a refused frame for that one subscriber.                *)
SendControl(ch) ==
    IF ch.closed \/ ch.control >= MaxControl THEN ch
    ELSE [ch EXCEPT !.items = Append(@, Control), !.control = @ + 1]

Get_AnyKind(ch) ==
    LET item == Head(ch.items) IN
    [ch EXCEPT !.items = Tail(@), !.frames = @ - 1, !.bytes = @ - item.size]

(* get: the head leaves the queue and gives its budget back.               *)
Get(ch) ==
    LET item == Head(ch.items) IN
    [ch EXCEPT !.items = Tail(@),
               !.frames = IF item.kind = "output" THEN @ - 1 ELSE @,
               !.bytes = @ - item.size,
               !.control = IF item.kind = "control" THEN @ - 1 ELSE @]

(* close: what is queued is discarded and the consumer is told to stop.    *)
Close(ch) ==
    IF ch.closed THEN ch
    ELSE [ch EXCEPT !.items = <<EndOfChannel>>, !.closed = TRUE,
                    !.frames = 0, !.bytes = 0, !.control = 0]

(* The sum of a sequence of numbers, as a recursive function of how far it  *)
(* is summed, so that it can be reasoned about.                            *)
Sums(q) ==
    LET sum[k \in 0 .. Len(q)] == IF k = 0 THEN 0 ELSE sum[k - 1] + q[k]
    IN  sum
Total(q) == Sums(q)[Len(q)]

Ones(items, kind) == [i \in DOMAIN items |-> IF items[i].kind = kind THEN 1 ELSE 0]
Sizes(items) == [i \in DOMAIN items |-> items[i].size]
Queued(ch, kind) == Total(Ones(ch.items, kind))

(* The budgets count exactly what is queued and stay within their bounds.  *)
ChannelOK(ch) ==
    /\ ch.frames = Queued(ch, "output")
    /\ ch.control = Queued(ch, "control")
    /\ ch.bytes = Total(Sizes(ch.items))
    /\ ch.frames <= MaxFrames /\ ch.bytes <= MaxBytes /\ ch.control <= MaxControl
    /\ Queued(ch, "overflow") <= 1
    /\ ch.closed => ch.frames = 0 /\ ch.control = 0

=============================================================================
