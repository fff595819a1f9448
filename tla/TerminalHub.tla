---------------------------- MODULE TerminalHub ----------------------------
(***************************************************************************)
(* One session's live browsers: the relay (services/terminal_relay.py),    *)
(* the browser gateway coroutine and its pump task (api/ws/terminal.py),   *)
(* and each browser's bounded channel (module BrowserChannel).             *)
(*                                                                         *)
(* Everything runs in Central's event loop: a step is the code between two *)
(* suspensions.  The relay's lock is never held over one, so subscribe,    *)
(* unsubscribe, takeover and the fan-outs are each part of one step.       *)
(***************************************************************************)
EXTENDS BrowserChannel, FiniteSets

CONSTANTS
    Browsers,     \* browser connections, each a conn_id of its own
    Operators,    \* those whose user may_write_session, so may take over
    SizeOf,       \* the bytes of each chunk of output; its length bounds them
    MaxEvents,    \* bound on terminal.* events and shutdown announcements
    NoBrowser,
    NoItem

(* What a browser's channel holds and its pump has in hand.                *)
Items == [kind : {"output", "control", "overflow", "end"},
          id : 0 .. Len(SizeOf), size : Nat]

ASSUME HubAssumption ==
    /\ Operators \subseteq Browsers
    /\ NoBrowser \notin Browsers
    /\ SizeOf \in Seq(Nat)
    /\ MaxEvents \in Nat
    /\ NoItem \notin Items

VARIABLES
    gateway,     \* where each browser's gateway coroutine is
    ws,          \* its socket
    subscribers, \* TerminalRelay._sessions[session]
    writer,      \* TerminalRelay._writer[session]
    channel,     \* its BrowserChannel
    pump,        \* its pump task
    hand,        \* the item the pump is writing to the socket
    keys,        \* it has an admitted keystroke waiting for the node's send lock
    routed,      \* chunks of output the daemon has sent (history)
    events,      \* control events routed (bound)
    seen,        \* the last chunk each browser got, or was subscribed after
    gapped,      \* browsers told terminal.gap (history)
    late         \* keystrokes the daemon got from it after it lost the role

gatewayVars == <<gateway, ws>>
relayVars == <<subscribers, writer>>
outputVars == <<channel, pump, hand, seen, gapped>>
vars == <<gatewayVars, relayVars, outputVars, keys, routed, events, late>>

Serving == {"subscribed", "attaching", "loop"}
Gateways == Serving \cup {"new", "closing", "ended", "abandoned"}

Init ==
    /\ gateway = [b \in Browsers |-> "new"]
    /\ ws = [b \in Browsers |-> "open"]
    /\ subscribers = {}
    /\ writer = NoBrowser
    /\ channel = [b \in Browsers |-> EmptyChannel]
    /\ pump = [b \in Browsers |-> "off"]
    /\ hand = [b \in Browsers |-> NoItem]
    /\ keys = [b \in Browsers |-> FALSE]
    /\ routed = 0
    /\ events = 0
    /\ seen = [b \in Browsers |-> 0]
    /\ gapped = {}
    /\ late = [b \in Browsers |-> 0]
-----------------------------------------------------------------------------
(* The handshake is refused before the relay hears of the browser.         *)
Refuse(b) ==
    /\ gateway[b] = "new"
    /\ gateway' = [gateway EXCEPT ![b] = "ended"]
    /\ ws' = [ws EXCEPT ![b] = "closed"]
    /\ UNCHANGED <<relayVars, outputVars, keys, routed, events, late>>

(* subscribe(): the first browser that may write, with no incumbent, is    *)
(* the writer.  The pump starts with the same step.                        *)
Subscribe(b) ==
    /\ gateway[b] = "new"
    /\ gateway' = [gateway EXCEPT ![b] = "subscribed"]
    /\ subscribers' = subscribers \cup {b}
    /\ writer' = IF b \in Operators /\ writer = NoBrowser THEN b ELSE writer
    /\ pump' = [pump EXCEPT ![b] = "running"]
    /\ seen' = [seen EXCEPT ![b] = routed]
    /\ UNCHANGED <<ws, channel, hand, gapped, keys, routed, events, late>>

(* The role event has been sent and the attach audited.                    *)
AuditAttach(b) ==
    /\ gateway[b] = "subscribed"
    /\ ws[b] = "open"
    /\ gateway' = [gateway EXCEPT ![b] = "attaching"]
    /\ UNCHANGED <<ws, relayVars, outputVars, keys, routed, events, late>>

(* Sending the role to a browser that has gone, committing the audit, or   *)
(* sending session.attach to a node whose socket has gone raises; nothing  *)
(* between subscribe() and the receive loop catches that, so the coroutine *)
(* is gone with the subscriber still in the relay.                         *)
Abandon(b) ==
    /\ gateway[b] \in {"subscribed", "attaching"}
    /\ gateway' = [gateway EXCEPT ![b] = "abandoned"]
    /\ ws' = [ws EXCEPT ![b] = "closed"]
    /\ UNCHANGED <<relayVars, outputVars, keys, routed, events, late>>

(* session.attach was answered, whatever the answer says.                  *)
Attached(b) ==
    /\ gateway[b] = "attaching"
    /\ gateway' = [gateway EXCEPT ![b] = "loop"]
    /\ UNCHANGED <<ws, relayVars, outputVars, keys, routed, events, late>>

Unsubscribe_KeepsRole(b) ==
    /\ subscribers' = subscribers \ {b}
    /\ UNCHANGED writer

(* unsubscribe(): the role is released and nobody is promoted.             *)
Unsubscribe(b) ==
    /\ subscribers' = subscribers \ {b}
    /\ writer' = IF writer = b THEN NoBrowser ELSE writer

(* _teardown up to its first suspension: out of the relay, channel closed, *)
(* pump cancelled; what the pump had in hand is lost.                      *)
Teardown(b) ==
    /\ Unsubscribe(b)
    /\ gateway' = [gateway EXCEPT ![b] = "closing"]
    /\ ws' = [ws EXCEPT ![b] = "closed"]
    /\ channel' = [channel EXCEPT ![b] = Close(@)]
    /\ pump' = [pump EXCEPT ![b] = "done"]
    /\ hand' = [hand EXCEPT ![b] = NoItem]
    /\ keys' = [keys EXCEPT ![b] = FALSE]
    /\ UNCHANGED <<seen, gapped, routed, events, late>>

(* session.attach failed with an ApiError: offline, busy or timed out.     *)
AttachFailed(b) == gateway[b] = "attaching" /\ Teardown(b)

(* The receive loop ends: the browser left, or relaying its keystroke      *)
(* raised because the node's socket had gone.                              *)
LoopEnds(b) ==
    /\ gateway[b] = "loop"
    /\ ws[b] = "closed" \/ keys[b]
    /\ Teardown(b)

(* The rest of _teardown, after the cancelled pump has been awaited.       *)
Detached(b) ==
    /\ gateway[b] = "closing"
    /\ gateway' = [gateway EXCEPT ![b] = "ended"]
    /\ UNCHANGED <<ws, relayVars, outputVars, keys, routed, events, late>>

(* The browser's tab, machine or network goes.                             *)
BrowserLeaves(b) ==
    /\ ws[b] = "open"
    /\ ws' = [ws EXCEPT ![b] = "closed"]
    /\ UNCHANGED <<gateway, relayVars, outputVars, keys, routed, events, late>>
-----------------------------------------------------------------------------
Admitted_Anyone(b) == gateway[b] = "loop" /\ ~keys[b]

(* A keystroke is relayed only from the writer, judged as it is read: what *)
(* a browser sent before its socket closed may be read after...            *)
Admitted(b) ==
    /\ gateway[b] = "loop"
    /\ ~keys[b]
    /\ writer = b /\ b \in Operators

Keystroke(b) ==
    /\ Admitted(b)
    /\ keys' = [keys EXCEPT ![b] = TRUE]
    /\ UNCHANGED <<gatewayVars, relayVars, outputVars, routed, events, late>>

(* ...and reaches the daemon once the node's send lock is free.            *)
SendKeystroke(b) ==
    /\ gateway[b] = "loop"
    /\ keys[b]
    /\ keys' = [keys EXCEPT ![b] = FALSE]
    /\ late' = [late EXCEPT ![b] = IF writer = b THEN 0 ELSE @ + 1]
    /\ UNCHANGED <<gatewayVars, relayVars, outputVars, routed, events>>

(* The node has no connection: send_binary returns False, unnoticed.       *)
DropKeystroke(b) ==
    /\ gateway[b] = "loop"
    /\ keys[b]
    /\ keys' = [keys EXCEPT ![b] = FALSE]
    /\ UNCHANGED <<gatewayVars, relayVars, outputVars, routed, events, late>>

Broadcast(S) == [b \in Browsers |->
                    IF b \in S THEN SendControl(channel[b]) ELSE channel[b]]

(* terminal.control_acquire: the role moves and every subscriber is told.  *)
Takeover(b) ==
    /\ gateway[b] = "loop"
    /\ ~keys[b]
    /\ b \in Operators
    /\ b \in subscribers
    /\ events < MaxEvents
    /\ events' = events + 1
    /\ writer' = b
    /\ channel' = Broadcast(subscribers)
    /\ late' = [late EXCEPT ![b] = 0]
    /\ UNCHANGED <<gatewayVars, subscribers, pump, hand, seen, gapped, keys, routed>>

(* route_control of a daemon's terminal event, or announce_shutdown.       *)
RouteControl ==
    /\ events < MaxEvents
    /\ events' = events + 1
    /\ channel' = Broadcast(subscribers)
    /\ UNCHANGED <<gatewayVars, relayVars, pump, hand, seen, gapped, keys,
                   routed, late>>

(* route_output: each subscriber's own channel takes or refuses the chunk. *)
RouteOutput ==
    /\ routed < Len(SizeOf)
    /\ routed' = routed + 1
    /\ channel' = [b \in Browsers |->
                     IF b \in subscribers
                     THEN SendOutput(channel[b], routed + 1, SizeOf[routed + 1])
                     ELSE channel[b]]
    /\ UNCHANGED <<gatewayVars, relayVars, pump, hand, seen, gapped, keys,
                   events, late>>
-----------------------------------------------------------------------------
PumpTake(b) ==
    /\ pump[b] = "running"
    /\ hand[b] = NoItem
    /\ channel[b].items # <<>>
    /\ channel' = [channel EXCEPT ![b] = Get(@)]
    /\ hand' = [hand EXCEPT ![b] = Head(channel[b].items)]
    /\ UNCHANGED <<gatewayVars, relayVars, pump, seen, gapped, keys, routed,
                   events, late>>

(* The pump's write completes; a slow browser delays it at will.           *)
PumpDeliver(b) ==
    /\ pump[b] = "running"
    /\ hand[b] # NoItem
    /\ hand[b].kind \in {"output", "control"}
    /\ ws[b] = "open"
    /\ seen' = [seen EXCEPT ![b] = IF hand[b].kind = "output" THEN hand[b].id ELSE @]
    /\ hand' = [hand EXCEPT ![b] = NoItem]
    /\ UNCHANGED <<gatewayVars, relayVars, channel, pump, gapped, keys, routed,
                   events, late>>

PumpGap_LeavesOpen(b) ==
    /\ pump[b] = "running"
    /\ hand[b] # NoItem
    /\ hand[b].kind = "overflow"
    /\ ws[b] = "open"
    /\ gapped' = gapped \cup {b}
    /\ pump' = [pump EXCEPT ![b] = "done"]
    /\ hand' = [hand EXCEPT ![b] = NoItem]
    /\ UNCHANGED <<gatewayVars, relayVars, channel, seen, keys, routed, events, late>>

(* The overflow notice becomes terminal.gap, and then the socket is closed *)
(* with 1013 so that the gateway's loop ends and the browser reconnects.   *)
PumpGap(b) ==
    /\ pump[b] = "running"
    /\ hand[b] # NoItem
    /\ hand[b].kind = "overflow"
    /\ ws[b] = "open"
    /\ gapped' = gapped \cup {b}
    /\ ws' = [ws EXCEPT ![b] = "closed"]
    /\ pump' = [pump EXCEPT ![b] = "done"]
    /\ hand' = [hand EXCEPT ![b] = NoItem]
    /\ UNCHANGED <<gateway, relayVars, channel, seen, keys, routed, events, late>>

(* Writing to a closed socket raises and the pump returns.                 *)
PumpBroken(b) ==
    /\ pump[b] = "running"
    /\ hand[b] # NoItem
    /\ ws[b] = "closed"
    /\ pump' = [pump EXCEPT ![b] = "done"]
    /\ hand' = [hand EXCEPT ![b] = NoItem]
    /\ UNCHANGED <<gatewayVars, relayVars, channel, seen, gapped, keys, routed,
                   events, late>>
-----------------------------------------------------------------------------
BrowserNext(b) ==
    \/ Refuse(b) \/ Subscribe(b) \/ AuditAttach(b) \/ Abandon(b) \/ Attached(b)
    \/ AttachFailed(b) \/ LoopEnds(b) \/ Detached(b) \/ BrowserLeaves(b)
    \/ Keystroke(b) \/ SendKeystroke(b) \/ DropKeystroke(b) \/ Takeover(b)
    \/ PumpTake(b) \/ PumpDeliver(b) \/ PumpGap(b) \/ PumpBroken(b)

Next == RouteOutput \/ RouteControl \/ \E b \in Browsers : BrowserNext(b)

Spec == Init /\ [][Next]_vars

(* session.attach ends by its own timeout, and the keepalive breaks the    *)
(* socket of a browser that stops reading, so a pump's write ends too.     *)
Fairness ==
    \A b \in Browsers :
        /\ WF_vars(AuditAttach(b) \/ Abandon(b))
        /\ WF_vars(Attached(b) \/ AttachFailed(b) \/ Abandon(b))
        /\ WF_vars(LoopEnds(b)) /\ WF_vars(Detached(b))
        /\ WF_vars(SendKeystroke(b) \/ DropKeystroke(b))
        /\ WF_vars(PumpTake(b))
        /\ WF_vars(PumpDeliver(b) \/ PumpGap(b) \/ PumpBroken(b))

FairSpec == Spec /\ Fairness
-----------------------------------------------------------------------------
Channels == [items : Seq(Items), frames : Nat, bytes : Nat, control : Nat,
             overflowed : BOOLEAN, closed : BOOLEAN]

(* Every variable holds a value of its kind.                               *)
TypeOK ==
    /\ gateway \in [Browsers -> Gateways]
    /\ ws \in [Browsers -> {"open", "closed"}]
    /\ subscribers \subseteq Browsers
    /\ writer \in Browsers \cup {NoBrowser}
    /\ channel \in [Browsers -> Channels]
    /\ pump \in [Browsers -> {"off", "running", "done"}]
    /\ hand \in [Browsers -> Items \cup {NoItem}]
    /\ keys \in [Browsers -> BOOLEAN]
    /\ routed \in 0 .. Len(SizeOf)
    /\ events \in 0 .. MaxEvents
    /\ seen \in [Browsers -> 0 .. Len(SizeOf)]
    /\ gapped \subseteq Browsers
    /\ late \in [Browsers -> Nat]

(* The writer marker never points at a connection the relay has dropped,   *)
(* so a session whose writer left can be written to again.                 *)
WriterIsSubscribed == writer # NoBrowser => writer \in subscribers

(* Each channel's budgets count what is queued and hold their bounds.      *)
ChannelsBounded == \A b \in Browsers : ChannelOK(channel[b])

(* What a browser is still going to get, and where chunks of output are in *)
(* a sequence of items.                                                    *)
InHand(b) == IF hand[b] = NoItem THEN <<>> ELSE <<hand[b]>>
Upcoming(b) == InHand(b) \o channel[b].items
Outputs(items) == {i \in DOMAIN items : items[i].kind = "output"}

InOrder(items) == \A i, j \in Outputs(items) : i < j => items[i].id < items[j].id
Ids(items) == {items[i].id : i \in Outputs(items)}
NoticeEnds(items) ==
    \E i \in DOMAIN items : items[i] = OverflowNotice /\ \A j \in Outputs(items) : j < i

(* A subscriber will get every chunk routed since it subscribed, in order  *)
(* and once each, or else the chunks up to some last one and then, after   *)
(* them all, the notice that there is a gap.                               *)
NoSilentLoss ==
    \A b \in subscribers : pump[b] = "running" =>
        /\ InOrder(Upcoming(b))
        /\ \E last \in seen[b] .. routed :
              /\ Ids(Upcoming(b)) = seen[b] + 1 .. last
              /\ last = routed \/ NoticeEnds(Upcoming(b))

(* A browser the relay feeds has a pump, unless its socket is closed: the  *)
(* dead pump behind an open socket that the slow-client harness found.     *)
DeadPumpClosesSocket ==
    \A b \in subscribers : pump[b] = "done" => ws[b] = "closed"

(* Single writer: a browser that loses the role has at most the one        *)
(* keystroke it had already been admitted for reach the daemon after that. *)
OneLateKeystroke == \A b \in Browsers : late[b] <= 1

(* What a browser has seen grows by exactly the next chunk, and never      *)
(* again after it has been told of a gap.                                  *)
DeliveredInOrder ==
    [][\A b \in Browsers : b \in subscribers /\ seen'[b] # seen[b] =>
            seen'[b] = seen[b] + 1 /\ b \notin gapped]_vars

(* A gateway in its loop whose channel has overflowed leaves the relay, so *)
(* it stops counting as a watcher and releases the role.                   *)
SlowReaderLeaves ==
    \A b \in Browsers :
        gateway[b] = "loop" /\ channel[b].overflowed ~> b \notin subscribers

(* Every subscriber is a live browser connection, as the relay's own gauge *)
(* counts it: it still has the gateway that will unsubscribe it.           *)
SubscriberHasGateway == \A b \in subscribers : gateway[b] \in Serving

=============================================================================
