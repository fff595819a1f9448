# A TLA+ model of Cliora

Cliora is a web console for command-line agents. A browser talks to **Central**
(FastAPI, one asyncio process, PostgreSQL); each machine runs a **daemon**
(`agentd`, Go) that dials *out* to Central over one WebSocket and keeps the CLIs
in tmux sessions. Everything the console does to a machine is a correlated
request over that socket, and everything the machine has to say comes back on
it, read by one coroutine.

This directory holds TLA+ modules for the parts of the system where that
arrangement is hard to get right, the TLC configurations that check them on
small instances, and proofs checked by TLAPS. Paths below are relative to the
repository; most are under `backend/app` or `daemon/internal`.

## Contents

| Module | Models | Checked by | Proved in |
| --- | --- | --- | --- |
| `NodeRegistry` | live daemon connections, the correlation table, the gateway coroutine of each daemon socket | `MCNodeRegistry` | `NodeRegistryProofs` |
| `OneShotRpc` | the promise `request()` makes, with no sockets in it | as a PROPERTY of `NodeRegistry` | `NodeRegistryProofs` |
| `BrowserChannel` | the bounded queue of one browser, as operators | through `TerminalHub` | `TerminalHubProofs` |
| `TerminalHub` | relay, writer role, browser gateways and their pumps, for one session | `MCTerminalHub` (2 cfgs) | `TerminalHubProofs` |
| `SessionLifecycle` | session and shell rows, transactions and row locks, the receive loop, the daemon's processes | `MCSessionLifecycle` (3 cfgs) | `SessionLifecycleProofs` |
| `ShellLifetime` | the timers of the shell reaper against browsers, retries and restarts | `MCShellLifetime` | `ShellLifetimeProofs` |
| `TunnelPolicy` | the three layers that decide which ports a node may forward, as operators | through `Tunnels` | `TunnelsProofs` |
| `Tunnels` | tunnel rows and transactions, the receive loop that applies statuses, the daemon's supervisor | `MCTunnels` | `TunnelsProofs` |
| `NodeCredentials` | revoke, rotate, remove, disable and enable a node, against its sockets | `MCNodeCredentials` | `NodeCredentialsProofs` |
| `HostUpdate` | `sudo agentd update` on one machine: files, unit, crash and rollback | `MCHostUpdate` | `HostUpdateProofs` |
| `NodeUpdate` | Central's record of a node's update and version | `MCNodeUpdate` (2 cfgs) | `NodeUpdateProofs` |

`PROJECT.json` maps each definition to the lines it models and lists the runs,
mutants, hazards, findings and theorems.

## Inventory

| Component | State | Operations | Interacts with | Hard because |
| --- | --- | --- | --- | --- |
| Node connection registry (`services/registry.py`) | `_connections`, per-connection `pending`, send lock, heartbeat clock | register, remove, evict, close_all, request, resolve_response, touch | every service; the node gateway | supersede against cleanup, late answers, bounds, timeouts |
| Node gateway (`api/ws/nodes.py`) | one coroutine per socket, one database session | authenticate, register, receive loop | registry, relay, session/update/tunnel services | one reader: a handler that calls the node waits for itself |
| Terminal relay (`services/terminal_relay.py`) | subscribers and writer per session | subscribe, unsubscribe, takeover, fan-out, shutdown notice | both gateways, reaper | role left dangling, fan-out against slow readers |
| Browser channel (`services/terminal_queue.py`) | queue, three budgets, overflow and closed flags | send_output, send_control, get, close | relay, pump | exact accounting, silent loss |
| Terminal gateway (`api/ws/terminal.py`) | coroutine, pump task, its database session | handshake, subscribe, attach, loop, teardown | relay, registry, audit, reaper | failures between subscribe and teardown |
| Session service (`services/sessions.py`, `api/http/sessions.py`) | `terminal_sessions` rows | create, open_shell, terminate, delete, apply_status_changed | registry, PostgreSQL | state read before an await and written after; row locks held over awaits |
| Shell reaper (`services/shell_reaper.py`) | timers in memory | schedule, reap, reconcile, cancel_all | relay, session service | timers against reattach, retries, restart |
| Tunnels (`services/tunnels.py`, `daemon/internal/tunnel`) | rows; supervised processes | create, close, extend, rotate, status, close_for_node | registry, node gateway | row against process, unique index against uncommitted rows, the loop that must read the answer it waits for |
| Node management and credentials (`services/nodes.py`) | node row, credential versions | revoke, rotate, remove, disable, enable, authenticate, heartbeat | registry, tunnels, node gateway | eviction before commit; row locks held while a node is asked |
| Enrolment, tickets (`services/enrollment.py`, `ws_ticket.py`) | tokens, tickets | create, consume | node gateway, HTTP | one use under concurrency |
| Self-update (`services/node_update.py`, `daemon/internal/update`) | update columns; binary, backup, staging files | request, result; stage, swap, restart, check, roll back | registry, systemd | crash between steps, overlapping processes, stale row objects |
| Daemon connection (`daemon/internal/connection`) | socket, write mutex, dispatch loop, workers | connect, dispatch, shutdown | every daemon component | frames handled one at a time; shutdown against exit reports |
| Session manager, PTY, tmux (`daemon/internal/session`, `terminal`, `tmux`) | map of sessions, attach process | start, attach, detach, stop | dispatch | exit callback against reattach and stop |
| Node status and metrics (`services/nodes.py`) | heartbeat instants, samples | heartbeat, compute_status | registry, dashboard | boundaries, superseded sockets |
| Files (`services/files.py`, `daemon/internal/files`, `fs_workers.go`) | workers, preview handles, download slots | list, read, upload, store, preview | registry | slots and handles across reconnects |
| Authorization, audit, dashboard, favorites, integrations, releases, auth | rows | CRUD and predicates | HTTP layer | little concurrency |
| Frontend, contracts, installers, deploy | | | | not state machines of interest here |

What makes each modelled component correct, in a sentence:

* **Registry** — every call of `request()` ends exactly once, a caller is never
  left on a connection nobody will answer for, no entry outlives its caller,
  the table is bounded, and the registry lists exactly the sockets that are served.
* **Hub** — a subscriber either gets every chunk in order or is told of a gap
  and closed; the budgets are exact; at most one writer, and one that is there.
* **Sessions** — one live shell per CLI session; an ended row never lives again;
  a CLI session takes its shells with it; no lock
  cycles; every transaction ends.
* **Shell reaper** — a live shell that nobody watches has a timer, unless one of a
  few named lapses left it without; a browser that returns in time keeps its
  shell; a timer is never pushed out for ever.
* **Tunnels** — a port is forwarded by one open row; a layer may narrow and none
  may widen, but for the platform's empty list (below); a closed tunnel stays closed; every process ends by its deadline.
* **Credentials** — an action that invalidates a credential severs the live
  socket; transactions lock rows in one order; each ends although it may hold the
  row that the node's loop is waiting for.
* **Update** — what the tool reports is what is installed and running; Central
  shows the version a daemon registered with.

## How the modules correspond to the code

Central is one event loop, so a step of its side is the code between two
`await`s that may suspend. Rows are what is *committed*; a transaction keeps its
own changes until it commits, and the moment it flushes one (SQLAlchemy's
autoflush before a query, or an explicit `flush`) is the moment it holds the
row lock. A receive loop handles one frame at a time, and so does the daemon.

### NodeRegistry

The registry's own lock never spans a suspension and needs no variable; the
per-socket send lock does, and is the caller state `writing`.

* `gate[s]` is the position of socket `s`'s `node_gateway` coroutine: `auth`
  (challenge sent), `evicting` (registered, closing the socket it replaced),
  `loop`, `nested` (inside a handler that called `request()` on its own node),
  `ended`, and `abandoned` when the close of the replaced socket raised what
  nothing there catches, so that the registration stays behind. `current`, `pending`, `future` are the registry's dictionaries and
  Futures. `caller[r]` is the position of the coroutine that called `request()`.
* `doomed` and `draining` are the windows in which a connection is already out of
  the registry and its socket not yet closed (`_sever_connection`, the close of a
  superseded socket, `close_all`).
* The nested call models `apply_status_changed` → `_terminate_children` →
  `request("session.stop")` on the receive loop's own node. Its handler swallows an
  `ApiError` and the loop reads on (`ResumeLoop`); a write that breaks is none, and
  ends the loop (`NestedBreaks`).
* What a daemon answers is external (`Answer`): it may answer at any time or
  never, and an answer is lost with its socket.

The refinement to `OneShotRpc` maps a caller's position and its answer to a phase
(`idle`, `open`, `ok`, `failed`, `refused`) and the set of served calls: success
only of a served call, one outcome each, a failed call may still be served.

### BrowserChannel and TerminalHub

`BrowserChannel` gives each method of the class as an operator on a record; the
class's lock is never held over a suspension. `TerminalHub` is one session with
its browsers: the gateway coroutine (`new`, `subscribed`, `attaching`, `loop`,
`closing`, `ended`, or `abandoned` when an exception leaves the coroutine where
nothing catches it), the pump task with the item in its hand, the writer marker,
and the keystroke that was admitted and waits for the node's send lock. `seen`,
`gapped` and `late` are history variables.

### SessionLifecycle

Each HTTP request (or reaper run) and each node receive loop is a worker with a
transaction: an UPDATE of a locked row waits, and an UPDATE of a deleted row, a
second live shell or a missing parent is refused by the database. The SELECT of
`live_children` flushes the parent's status before the stops are awaited, while
a child's status is flushed at the commit. What the daemon sends is read in
order by the loop of the connection that is current, and only while that loop
is not inside a handler.

A `request()` here is just asked, answered, failed, broken or timed out;
`NodeRegistry` is its detail. It fails with an `ApiError`, which the services
expect, and it breaks with whatever the write of a dead socket raises, which
none of them does: the transaction is rolled back (`WriteBroke`). A terminal attach may happen whenever the session exists;
`TerminalHub` is its detail. `late` is a history variable: the shells whose rows
were first recorded when their CLI session had ended, or a cascade had already
read the shells it would end.

### ShellLifetime

One shell, the reaper's table and the browsers' gateways. `timer` is the task in
the table: `asleep` with `left` Ticks to go, `ending` while `terminate` is
awaited, and `over` between its return and its done-callback, when `schedule()`
still finds it in the table. A teardown leaves the relay and then waits for the
pump (`leaving`), unless the pump has ended before, so the count it reads may be of
a later moment. `Restart` is the drain with `cancel_all` and the start with
`reconcile` in one step, as nothing is served in between. `Abandon` is the leak
of `hub_leak`. `lapse` is a history variable with the reasons for which a deserted
shell may have nothing to end it, forgotten whenever a timer is armed: it was
never attached (`unseen`), its last detach came while a task was `over`
(`missed`), the attempts were used up (`gaveUp`), the database failed in the task
(`broke`) or at start-up (`unreconciled`), or a subscriber leaked. `back` holds
who subscribed since the task last looked.

### TunnelPolicy and Tunnels

`TunnelPolicy` translates the parsing, clamping and intersection of port lists.
A list is a set of ranges or `NoList` ("does not narrow"), and text that is no
range is `Garbage`. The reference it is compared with (`PlatformAdmits`,
`SettingsAdmit`, `NodeAdmits`) looks at the three rows as they are stored and at a
port, never at what `integration_layer` and its siblings have made of a row, nor
at a parsed list. `EmptyPlatformList` is the one stored list the code reads as
something else.

In `Tunnels`, `req[q]` is an HTTP transaction: the tunnels it has still to close
on the node (`todo`), those it has closed (`ended`), the row it inserts (`new`)
and how the open went (`fate`). A row inserted and not committed occupies its
port in `uq_node_tunnels_live_port`: another INSERT of that port waits for that
transaction, and a rotation keeps its old row locked from its flush to its
commit, both over a round trip to the node. `loops` are the receive loop of the
connection and, when the link was lost in the middle of a handler, the loop that
is still finishing it; applying a `closed` status makes the loop ask its own node
to close. A `running` status brings a URL or an expiry that may be new, so it may
write although nothing else changes (`MayChange`). A write that breaks undoes the
request, or ends the loop. `proc` is the supervisor's table (`up`, `back` while a
process that exited is being replaced), the process that a close did not find
(`orphan`: it may still come up and report `running`) and what becomes of it
(`leaked`). A lifetime is a number of `Tick`s.

### NodeCredentials

`node` and `creds` are the committed rows of `nodes` and `node_credentials`; a
transaction's `dirty` and `locked` say whether it changes a column of the node
row and has flushed that, `seen` and `holds` which credentials its UPDATE found
and revoked. `Sever` evicts the registered socket and `Close` closes it, both
before the commit; a `tunnel.close` whose write breaks undoes the transaction
before either (`TellBreaks`). A gateway coroutine is `auth`, `known` (the first of
its two queries has found the node), `verified` (its key is proved, it is not
registered yet), `loop`, or `busy` writing `last_seen_at`. `raced` is
a history variable: the sockets that proved their key while a revocation was
between its eviction and its commit.

### HostUpdate

`agentd update` as its file operations and unit commands: the copy to
the backup named after the version it replaces, the staged `.new`, the rename,
the restart, the health check, and the copy, rename and restart of a rollback.
A copy is two steps, as `copyFile` truncates its target first: until the second
one the file is `Partial`. Each step may fail, the process may be killed between any two, and the
unit may restart by itself at any time with whatever is installed. The code's lock is
inside the process, so two processes may overlap, and they share every file: a
file that is being written can be renamed over the binary, and the rest of the
copy lands there (`LandsInBinary`).

### NodeUpdate

`row` holds the three columns that the update request and the registration
write. A transaction loads an object once and its commit writes the columns that
differ from what was loaded (`Written`). A gateway has one database session for
its life, so the object it reads again may be the one it loaded when the daemon
authenticated or, once that has been collected, the row as it is: `Loaded` is
both. The daemon always refuses a `daemon.update` frame, because it is not root;
the release it runs changes through `HostUpdate` only, which Central does not
see: here the unit restarts with any release at any time.

## What each run checks

| Run | Question | Distinct states |
| --- | --- | --- |
| `registry` | stranded callers, the table's hygiene and bound, serving sockets are registered, self-calls; refinement of `OneShotRpc`; every call ends; a dead socket leaves | 734k |
| `hub` | budgets, silent loss, order, writer role, late keystrokes; an overflowed browser leaves the relay | 1.0M |
| `sessions` | one live shell, ended stays ended, shells end with their session, no lock cycle | 3.4M |
| `sessions_live` | every transaction ends | 673k |
| `shell_lifetime` | a deserted shell has a timer, a watched one is kept, every timer task ends | 54k |
| `tunnels` | only the platform's empty list widens, one open row per port, closed for good, processes and transactions end | 152k |
| `credentials` | no connection outlives its credential but by one race, no lock cycle, every operation ends | 634k |
| `host_update` | an update leaves a whole release and tells the truth, whatever crashed | 943k |
| `node_update` | no stale object puts an old version back | 2.0M |
| `hub_leak`, `session_restart`, `update_stuck` | three statements of the documentation or the comments that the code does not keep (below) | stop at the counterexample |

Every property of a passing run has a mutant: the definition named in
`PROJECT.json` changed the way a bug in that code would change it (a cleanup
forgotten, an identity check dropped, an off-by-one, a flush too early), which
the run detects.

### Bounds, and why they are enough

* `registry`: one node, because connections of different nodes share nothing but
  the dictionary; two sockets, so that one can supersede the other while either
  is drained, evicted or dropped (a third only repeats the second's role, as each
  socket is used once); two requests with `PendingMax = 1`, so that the bound is
  hit, by a nested call too. The proofs cover every size.
* `hub`: two browsers, both allowed to write, so a role can be taken over and
  left; four chunks of sizes 3, 1, 1, 1 with `MaxFrames = 2` and `MaxBytes = 3`,
  so that either budget is exceeded alone: by bytes behind the first chunk, which
  fills the queue exactly, and by frames with the last of three small ones, which
  would fit its bytes exactly. `MaxControl = 1`.
* `sessions`: the CLI session and two shells, so a shell can be replaced or two
  opens can race; two requests and one connection's loop, which is three
  transactions and enough for a lock cycle; `MaxSessions = 3`. Initially
  there are no rows, a running CLI session, or one with a shell. A connection
  that ends leaves its loop where it was and later requests fail as offline.
  Shells and requests are symmetric. `sessions_live` has one shell and no symmetry.
* `shell_lifetime`: three browsers (one may leak, one tear down and one come back),
  an idle time of two Ticks and a retry of one, three attempts (a first, a last and
  one between), two restarts. Restarts are bounded in the property too: a Central
  that restarts for ever arms the timer anew each time, as `reconcile` says.
* `tunnels`: two tunnels of one port and one owner, two requests, which is one
  pair for every conflict on the index and for a rotation against a close; a
  fleet budget of 1, a lifetime of 1 Tick that can be extended to 2, and one
  frame of the daemon's own under way (`MaxQueue`; answers are not bounded). In
  `Narrow` each layer narrows, with overlapping, out-of-range and unreadable
  ranges; in `Forbidden` the platform's list is stored empty, the settings have no
  row, the daemon reports no list and the credential cannot be read. Ports are
  checked from below the floor to above the ceiling. The tunnels differ in
  nothing, nor do the requests, and what is used stays used: the constraint
  `InOrder` looks at the behaviours that use `t1` and `q1` first, of which all
  others are a renaming (a symmetry set would not do for liveness).
* `credentials`: two requests (every pair of operations), two sockets (one can
  authenticate while the other is evicted), three operations, so that a third
  meets what two have left.
* `host_update`: two processes, three releases, three updates: an update may
  overlap another, and follow one that was killed anywhere, in the middle of a
  copy too.
* `node_update`: two requests, two sockets, two releases, two dials and two
  requests in all, two restarts; one frame under way in each direction.
* `MaxEvents` bounds control events, `MaxConnections` connections.

Deadlock checking is off: every module's system may really come to rest (all
sockets used, all requests over, all updates started).

### Fairness

* `NodeRegistry`: the event loop runs what is runnable (closing a superseded,
  evicted or drained socket, ending a loop whose socket is closed, resuming a
  handler, waking a caller); a timer fires; a write ends, because the WebSocket
  keepalive breaks a socket that stops draining. Nothing makes a daemon answer,
  connect or leave.
* `TerminalHub`: the same for gateway and pump. A pump's write ends by delivery or
  by the keepalive closing the socket; `session.attach` ends by its own timeout.
* `SessionLifecycle`: a transaction that can proceed does; a request times out;
  the loop reads when it has something to read and is not busy. Nothing makes
  the daemon answer.
* `Tunnels`: the same for transactions, loop and timeouts; time passes; a backoff
  ends. A process's deadline is strongly fair: it is disabled while the process is
  between two starts, and Go's `select` takes a timer that stays ready.
* `NodeCredentials`: strong fairness of a request, because PostgreSQL grants a
  row lock to those who wait for it in turn; nothing of a gateway or a daemon.
* `ShellLifetime`: time passes, the loop runs a task that is ready, and what the
  task awaits ends, because `session.stop` has a timeout. Nothing of a browser.
* `HostUpdate` and `NodeUpdate` have safety runs only.

## What the checks found

Three runs expect a violation: the code does not do what a document or a comment
of the repository says.

* **`hub_leak`** — between `relay.subscribe` and the `try/finally` that tears
  down (`api/ws/terminal.py` 111–175), a browser that leaves, a failed audit
  commit, or a dead node socket ends the coroutine and leaves the subscriber, maybe
  as the writer. `connection_count` promises *live* connections, and `open_shell`
  and the reaper take the entry as evidence that somebody is watching.
* **`session_restart`** — ADR 0017 says a daemon restart does not touch running
  sessions. A graceful stop kills the attach clients through their context, not
  as a detach; each may report `exited` before `node.shutdown` is sent, and an
  exited row is final.
* **`update_stuck`** — `settings.py:193`, `node_update.py:18` and
  `docs/runbooks/update-failure.md:180` say that the next registration settles an
  update that was left `in_progress`. Nothing does: `persist_registration` writes
  the version and not the status, and every later update is refused.

Met while modelling, visible in the modules, and not runs of their own:

* `create()` reads the provider's credential outside the `try` whose handler removes
  the row. A stored credential that cannot be read leaves a live row for a tunnel
  that no node was asked to open, although `tunnels.py:564` says that no row may
  remain (`Insert`, with `fate` `held` and nothing sent).
* `shell_reaper.py:36` calls the node's "own reconciliation on reconnect" the last
  line after five attempts. There is none: a shell whose attempts are used up waits
  for the next detach, the owner's next open or the next restart of Central. The
  same holds for a last browser that leaves while a finished task is still in the
  table, and for a shell that no browser ever attached to.
* ADR 0013 calls terminal states immutable. `terminate` and
  `apply_status_changed` judge an unlocked read, so that one may overwrite
  the other's `exited` with `terminated`. What holds is `EndedStaysEnded`.
* A shell that is being opened while its CLI session ends is invisible to the
  cascade and outlives it, which `sessions.py:455` and the system-terminal runbook
  exclude. `OnlyLateShellsOutlive` says that this is the only way.
* `terminate` does not look at `message.success`: a node that refused leaves a
  terminated row and a running process.
* A receive loop that cascades a stop, or closes a tunnel, on its own node always
  waits out the timeout (`OwnCallNeverAnswered`), during which it reads no
  heartbeat, no output and no answer.
* `integration_layer` (`tunnels.py:235`) turns a stored empty platform list,
  "forbid every port", into "unset", which forbids none. `tunnels.py:130` and 191
  ("none may widen"), `integrations.py:262` and 391, which keep the two apart when the
  list is stored, and `test_tunnel_policy.py:166` say otherwise. `OnlyEmptyListWidens`
  has it as its one exception, and the policy `Forbidden` of the run is such a row.
* What a `request()` raises when the write itself breaks (`RuntimeError` or
  `WebSocketDisconnect`) is no `ApiError`, and no service expects it. A
  cascade, a disable, a removal or a close is then undone entirely by an unreachable
  node, although `sessions.py:403` and `tunnels.py:757` say that such a node is not a
  failure; a node's removal is undone before it severs the socket; and a receive
  loop that was cascading ends.
* `ws/nodes.py:177` closes the superseded socket outside the `try` whose `finally`
  unregisters, and catches `RuntimeError` only: another error leaves a registered
  connection that no coroutine reads, until the node connects again
  (`ClosePreviousRaises`).
* The three tunnel limits count committed rows, so that overlapping creates can
  exceed them; a row that expired unclosed keeps its port in the unique index, and
  an INSERT against it is an `IntegrityError` that nothing handles; disabling a
  node misses the row that is being opened; `extend` moves the platform's deadline
  and not the daemon's; a rotation's lock makes a status handler wait, so that the
  answer to its own `tunnel.open` is read too late and the process it names is
  one no row describes; a `tunnel.close` between two processes of a tunnel can
  leave the one being started outside the supervisor's table.
* Two rotations at once break `UNIQUE (node_id, version)`, which undoes the second
  one entirely after it has severed the socket.
* `node_update.py:155` says the mark is "Recorded before the frame is sent". It
  stays in memory until the commit: two requests pass the check and both send.
  The docstring's promise about stale results (lines 22–24) is not implemented:
  a late result overwrites a newer request. `NODE_OFFLINE` marks an update failed
  although the daemon may have the order.
* `docs` (`error-catalog.md:176`) fears "two concurrent swaps of the same file". The lock
  that prevents them is per process: two `agentd update` processes overlap, the
  second one backs up the first one's binary under the old version's name, and its
  rollback restores that. As a copy truncates its target first, one of them may also
  install what the other has written so far of `.new`, or restore half a backup
  (`TypeOK` of `HostUpdate` allows `Partial` for the binary).

## What is proved

All theorems are for any constants that satisfy the named assumptions of their
module, and each listed one whose property is also in a run says so in
`PROJECT.json`.

**`NodeRegistryProofs`** (assuming `SocketsAssumption` and `BoundsAssumption`: each
socket authenticates as one node, the sentinels are no members, the requests are
finitely many): the types; `NoStrandedRequest`, `PendingHasCaller`,
`PendingBounded`, `RegisteredIsServed`, `ServingIsRegistered` and
`OwnCallNeverAnswered`; and `Spec => Rpc!Spec`, the refinement.

None of these is inductive by itself. `IInv` is their conjunction (without
`PendingBounded`) with two sets of facts the code relies on without
saying so. `CallFacts` ties a call's position to its connection, its Future and
its frame: a call that was refused was never parked and sent nothing, one in
flight has a connection and a Future, a frame is unsent while the call is idle or
queued, and a Future holds a result, or a call ended well, only if its answer
has been read. `NestFacts` says a gateway that is waiting for its own call is in
`nested`. `NoStrandedRequest` then follows action by action because whatever
takes a connection out of the registry fails, or puts in `draining`, what is
parked on it; `OwnCallNeverAnswered` because the answer to a gateway's own call
could only be read by that gateway in `loop`. `PendingBounded` has a step lemma
of its own about cardinalities (`BoundStep`), on top of `IInv`. The refinement
is one lemma per kind of step (`RpcStep`, `MoveOfOne`): a step of the registry moves at
most one call's phase, or serves one call, or is a stutter.

**`TerminalHubProofs`** (`ChannelAssumption`, `HubAssumption`: those who may write
are browsers, chunks have sizes, and the two sentinels are no browser and no item):
all of `TerminalHub`'s safety properties, in two layers.

*Who is who* — `WriterIsSubscribed`, `DeadPumpClosesSocket` (proved only)
and `OneLateKeystroke` need nothing of what is queued. `HubInv` relates the coroutine's position to the
relay: a browser is a subscriber exactly while its gateway is past `subscribe()`
and before its teardown (or abandoned), only a gateway in `loop` holds an admitted
keystroke, the writer has no late keystrokes, and nor has a browser that lost the
role while its next keystroke is waiting.

*What is queued* — `TypeOK`, `ChannelsBounded`, `NoSilentLoss` and
`DeliveredInOrder`, from `OutputInv`, which adds to `HubInv`:

* `SoundChannels` — `ChannelOK`, and a channel that has not overflowed holds no
  notice. The second part is what makes "one notice" inductive. A budget is a sum
  over the queue, so each method needs to know what appending an item or taking the
  head does to a sum (`CountsAppend`, `CountsTail`, for queues of any length). Those
  lemmas need the recursive function `Sums` to exist and to be what it says; both
  come from `Induction`, which is proved here from the well-foundedness of `<` on
  the naturals in a form without an operator parameter.
* `NewBrowsers`, `OpenChannels`, `GapIsLast` — nothing was sent to a browser before
  it subscribed, a subscriber's channel is not closed (otherwise a chunk would
  vanish) and has had a pump, and a pump that told of a gap is done.
* `Streams` — `NoSilentLoss` with the case split made precise: up to the last chunk
  routed if the channel has not overflowed, and the notice behind the outputs if it
  has. `NoSilentLoss` alone says "or" and is not inductive: a channel marked overflowed
  but holding no notice satisfies it until the next chunk is dropped, one that holds
  a notice without the mark until the next chunk goes in behind it. The lemmas `StreamOutput`,
  `StreamNotice`, `StreamBehind`, `StreamControl`, `StreamShown` and `StreamSeen`
  say what each operation does to what is upcoming; that the pump takes an item
  in hand changes nothing of it (`TakenInHand`).

`DeliveredInOrder` is then a fact about one step: what a pump has in hand is the
chunk after the last one seen (`InHandIsNext`), because the ids that are upcoming
have no hole and the first of them is the least.

Two theorems say of the runs' other subjects what holds without fairness:
`LeaksAreAbandoned`, that the leak `hub_leak` shows is the only way a subscriber
loses its gateway, and `OverflowGetsNoticed`, that a subscriber whose channel
overflowed has a running pump with the notice still to come, or a closed socket,
which is what `SlowReaderLeaves` needs of the safety side.

**`SessionLifecycleProofs`** (`LifecycleAssumption`: finitely many shells, at least
one connection, the CLI session is no shell, requests and receive loops are
different workers): the types, `OneLiveShell`, `OnlyLateShellsOutlive`,
`NoLockCycle`, `EndedStaysEnded`, and that a running row's process was started
(`RunningWasStarted`, which is proved only). `SessionInv` is:

* `Openers` — a transaction that opens a session is a request's, no other opens that
  session, and it has no row yet: its commit inserts and never overwrites.
* `Locks` — an open holds the row of the shell it replaces, a cascade that of its
  session, nobody else holds anything, and a locked row exists. A commit may thus
  write without looking again.
* `Cascades` — only the end of the CLI session ends shells, and while it runs each
  live shell is still to be ended, ended already, or `late`. This is what makes
  `OnlyLateShellsOutlive` inductive.
* `Parents`, `AtMostOne` — the database's own constraints; `OneLiveShell` is read
  off the second.
* `Answers` — an answer that a session was started, in the inbox or at the caller, is
  given after its process was; the row shows running only on such an answer.

`NoLockCycle` follows from `Locks` and `Cascades`: who holds one row and waits for
another is a cascade, it holds the CLI session's row and waits for shells', so
what it waits for is never what such a worker holds. `SessionsKeepInv` has one lemma
per action; `EndedStaysEnded` is carried through the same lemmas (`NoneRevives`),
as its proof needs `Locks` at every commit.

**`ShellLifetimeProofs`** (`ShellAssumption`: at least one attempt): the types,
`DesertedIsTimed` and `WatchedIsKept`. The first is inductive together with
`LeakIsLapse`: a leaked subscriber is a lapse for good, because the count never
comes to zero again and `schedule()` is not called. Without it, the last real
browser could leave a shell with neither timer nor lapse. The second needs
`EndsUnwatched`: a task that went on to end the shell had found nobody, so that
whoever is served meanwhile came `back` since.

**`TunnelsProofs`** (`PortAssumption`, `SpecAssumption`, `TunnelAssumption`):
the types, `OnlyEmptyListWidens`, `OneOpenRowPerPort` and `ClosedForGood`. The invariant is what a
transaction may rely on between its flush and its commit: the row it has
inserted has a port that no unclosed row has, but for those it closes itself
(`Sound`), and no other transaction creates that tunnel or holds that port
(`Apart`). A commit keeps it because what becomes live was held.

Of `TunnelPolicy`: for every three layers, however malformed their lists, and every
port, `effective_policy` admits the port exactly when it is unprivileged and the
lists of the three layer values it gets admit it (`EffectivePortsAreTheIntersection`).
From the rows, as stored, `OnlyEmptyListsWiden` proves the same of every reachable
state, with the platform's empty list as the only exception; it assumes of the rows
what their columns can hold (`StoredRow`). Parsing covers what the text admits, clamped (`ParsedCovers`); intersecting
covers what both arguments cover (`IntersectCovers`).

**`NodeCredentialsProofs`** (`CredentialAssumption`): the types,
`OldKeyOnlyByRace` and `NoLockCycle`. `Staged` says what has not happened yet at
each point of a transaction, which makes the lock order a fact about one
transaction: who has locked the node row and waits for credentials is a removal,
and nobody who holds credentials waits for the node row. `TrustedKeys` carries the
promise from the moment a key is proved, when the socket is not registered yet,
and `SeverLeavesNone` says that between eviction and commit there is no socket
left to betray.

**`HostUpdateProofs`** (`HostAssumption`): the types (a rename never installs a file
that is not there) and `OutcomesAreTrue`. What an update says at its end depends on
everything it left on the disk, so `OnDisk` carries that step by step: which
release is installed, which one its backup, its staged file and the copy in
progress hold, and that nobody else is at work.

**`NodeUpdateProofs`** (`UpdateAssumption`): the types and
`RegisteredVersionIsShown`. A request never changes the version of the object it
loaded, so that its commit cannot write one; and as long as the registered socket
is the only one there is (`Sole`), what its session holds has the committed version.

Only model-checked: everything under fairness (`EveryCallEnds`,
`DeadSocketLeaves`, `SlowReaderLeaves`, `EveryTransactionEnds`, `ProcessesEnd`,
`TransactionsEnd`, `AdminEnds`, `TasksEnd`), because liveness and ENABLED are
beyond the prover. Every invariant and action property of a passing run is a
theorem.

## What is not modelled, and why

* Data: message encodings, payloads, terminal bytes, path and workspace policy,
  the text of URLs, password and credential formats. Messages are records with the
  fields the properties distinguish.
* Authorization: `authz` is a set of pure predicates; its answer is the constant
  `Operators`. That eligibility is judged on objects loaded at the handshake is
  recorded as a hazard.
* `terminal.resize`, system information, metric samples and the status thresholds:
  frames and pure functions of times without state the properties are about.
* Enrolment tokens and WebSocket tickets: each is one use under one row lock or
  one dictionary operation, with nothing suspended between check and use.
* The daemon's own session map (below, in the plan).
* Files: each operation is one request over the registry; the parsers and the
  path policy are conversions with fuzz suites of their own.
* An update's dry run, and its refusals before the first file is touched. Of a
  request for an update: the checks of the manifest (`UPDATE_NOT_ALLOWED`), which
  end it before anything is recorded; a node that is busy and one that is offline
  are the same immediate failure.
* The frontend, installers, deployment, and CRUD services (see the components
  in `PROJECT.json`).

The map covers the parts where steps of several actors meet, which is a small
share of the repository's code: most of the rest is codecs, schemas, CRUD,
validation, user interface, tooling and scripts, where there is no state machine
to be faithful to.

## What is left

1. `AttachManager`: the daemon's session map, attach, detach, stop and the exit
   callback under its mutex.
2. Worker slots and preview handles of the file operations.

## Running it

    tlc -workers 2 -config MCNodeRegistry.cfg MCNodeRegistry
    tlapm NodeRegistryProofs.tla

Each `cfg` names its specification, constants and properties; `PROJECT.json`
pairs it with its module.
