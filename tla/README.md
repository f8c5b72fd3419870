# A TLA+ verification project for BloomFL

BloomFL is a decentralised federated-learning system: every node trains a
local model, exchanges weights with a few peers per round over an encrypted
request/response connection, and merges what it receives.  A FastAPI server
starts local simulations of several nodes and shows their progress on a
dashboard.

This directory holds TLA+ models of the parts of the code whose correctness
depends on the order in which things happen, the TLC configurations that check
them on small instances, and TLAPS proofs of the properties that matter most.
All paths below are relative to the repository root (`PROJECT.json` writes it as `src/`), where
a long prefix such as `src/bloomfl/` is given once; line numbers are those of the modelled commit.  `PROJECT.json` has the same information in machine-readable form: the
components, the runs, the source lines each definition stands for, the known
hazards, a mutation of the model for every checked property, and the findings.

    tlc -workers 2 -config MCGossip_three.cfg MCGossip    # check one run
    tlapm GossipExchangeProofs.tla                        # check the proofs

## 1. The system

| Component | State | Operations | Interacts with |
|---|---|---|---|
| Node controller (`src/bloomfl/node/controller.py`) | round, model, stop event, metrics buffer, noted batch size | `start`, `stop`, `run`, `_run_round`, `_on_gossip_received`, signal handlers | everything in a node |
| Gossip engine (`src/bloomfl/gossip/engine.py`) | round counter | `run_round` (initiator), `IncomingHandlerV2` (server) | transport, aggregation, keys |
| Aggregation (`gossip/aggregation.py`) | none | three merge strategies | engine, controller |
| TCP transport (`transport/tcp_transport.py`) | server socket, running flag, accept thread, one thread per connection | `start_server`, `stop_server`, `send_parameters`, `ping` | engine; sockets of other nodes |
| gRPC transport (`transport/grpc_transport.py`) | server, channel per call | same contract | engine |
| Discovery (`discovery/mdns.py`) | peer registry | add/update/remove callbacks in the mDNS thread, `get_peers` | learning loop |
| Identity keys (`security/key_manager.py`, `crypto.py`) | two key files, in a directory several nodes may share | load or create | handler, discovery (publishes the key) |
| Monitors (`monitoring/energy.py`, `thermal.py`) | detected sensor | `get_state` | adaptation |
| Adaptation manager (`adaptation/manager.py`) | committed and candidate state, counter | `compute_schedule` | learning loop |
| Model and training (`models/yolo_person.py`, `flower_client/client.py`) | weights, data loaders | `get_weights`, `set_weights`, training, evaluation | loop and connection threads, without a lock |
| Simulation service (`api/services/simulation_service.py`) | status, task, result, progress, runner list, sidecar file | `start`, `stop`, `_run`, `_monitor_progress` | runner thread, WebSocket manager |
| Simulation runner (`simulation/runner.py`) | active processes | `run`, `stop`, `_node_process` | node processes, metrics files |
| Fault injection, convergence, evaluation (`simulation`, `evaluation`) | random generator; none | wrappers and pure functions over metrics | runner |
| Configuration (`src/bloomfl/config.py`, `api/routers/config.py`, `api/dependencies.py`) | `.env`, two cached instances | read, patch, reset | everything |
| Metrics service and broadcaster (`api/services/metrics_service.py`, `api/websocket`) | file positions, set of connections per channel | read history; tail, broadcast, connect, disconnect | node processes (through files), dashboard |
| Inference, FastSAM, webcam | model caches, loop flag | load, detect, run, stop | API, camera |
| Dashboard: socket and gossip page (`frontend/src/hooks/useWebSocket.ts`, `app/(app)/gossip`) | records, round shown, live switch, playback; socket, retry timer | poll, merge a push, switch, play; reconnect | API |
| Dashboard: simulation page (`app/(app)/simulation`) | status, result, polls under way | poll, launch, stop | simulation service |
| Dashboard: configuration page (`app/(app)/config`) | form and what it is compared with | load, edit, discard, save | configuration |
| Dashboard: detection pages (`app/(app)/detection`, `components/detection`) | image, mode, chosen checkpoints, results, error, spinner | choose, run, compare, clear | inference services |
| Dashboard: node pages (`app/(app)/dashboard`, `nodes`, `metrics`, `convergence`; `components/data-table.tsx`, `section-cards.tsx`, `chart-area-interactive.tsx`; `hooks/useNodes.ts`) | records, skeleton, rows, selection, filter, page, drawer | load, merge a push, select, filter, drag | metrics service |
| Dashboard: shell (`app/(app)/layout.tsx`, `components/ui/sidebar.tsx`, `app-sidebar.tsx`, `nav-*.tsx`) | sidebar in two widths, cookie | toggle, navigate, reload | every page |

What is hard in it:

* **Threads that share the model.**  The learning loop and every connection
  thread copy the weights, aggregate, and copy the result back; no lock covers
  the three steps.
* **Exchanges that half succeed.**  The server merges before the initiator does;
  a timeout, an unreadable answer or a crash leaves one side updated.
* **Debouncing.**  A schedule depends on a history of readings through a
  counter and a candidate.
* **Coroutines, a thread and processes.**  A simulation is started and stopped by
  requests that suspend in the middle, while a thread fills the list of runners
  that `stop` reads, and processes outlive both.
* **Signals.**  `stop` runs in the signal handler, on top of whatever the main
  thread is doing, and takes locks.
* **Files written in pieces** by one process and read by another: metrics, and
  identity keys.
* **Callbacks that come late.**  mDNS callbacks look up the service as it is when
  they run; the close event of a socket arrives after its successor was opened,
  and both callbacks hold on to the handler of their time.
* **Two ways to the same data.**  The page merges pushed records and polled
  histories, each with its own losses.
* **Requests that overtake each other.**  No page waits for an answer before it asks again, none
  numbers its requests or aborts them, and closures keep the mode they were made in.
* **Two caches of one file.**  A save rewrites `.env` and resets one of the two objects
  read from it; several tabs save forms of different age.
* **Places instead of names.**  The table identifies a row, its selection and its drawer by the place
  in a list that every answer replaces.

What makes each component correct, in one line: *exchange* - both sides merge
what the other one sent, contributions are not lost, nobody waits for ever;
*adaptation* - transitions exactly after the configured number of equal
readings, no more work in a worse state; *simulation service* - the status says what
is running, one simulation at a time, stops return; *life cycle* - a signal
stops the node, its socket and its threads, and loses no metrics;
*discovery* - the registry has each live peer, under its own key; *keys* -
one identity per node across restarts; *configuration* - what simulations use is
what one user has saved; *broadcaster* - every record is pushed at most once, in order, and what is
skipped is healed by the poll; *reconnecting hook* - one connection while the page is shown, none after;
*pages* - what is shown belongs to what is chosen, never goes back, and comes to be shown at all.

## 2. Modules

| Module | Models | Lines | Proofs |
|---|---|---|---|
| `GossipExchange` | learning loop, connection threads, TCP exchange, crashes | engine, controller, transport | `GossipExchangeProofs` |
| `Adaptation` | monitors, hysteresis, decision table, loader | manager, monitors, controller | `AdaptationProofs` |
| `Debounce` | what hysteresis promises (abstract) | - | refinement in `AdaptationProofs` |
| `SimulationService` | service, runner thread, node processes, restarts | service, runner | `SimulationServiceProofs` |
| `NodeLifecycle` | start, stop, signals, metrics buffer, accept thread | controller, transport | `NodeLifecycleProofs` |
| `Discovery` | key files, announcements, the listener's registry | mdns, key manager | `DiscoveryProofs` |
| `LiveSocket` | the hook, its connections, endpoints, connection manager | useWebSocket, websocket/manager | `MetricsFeedProofs` |
| `MetricsFeed` | `LiveSocket` composed with writer, tail, poll and page | controller, broadcaster, metrics service, gossip page | `MetricsFeedProofs` |
| `SimulationApi` | what the service promises one client (abstract) | simulation router | refinement in `SimulationServiceProofs` |
| `SimulationPage` | the page over that promise: polls, launch, stop | simulation page | `DashboardProofs` |
| `ConfigPage` | `.env`, two singletons, requests, forms of several tabs | configuration, its router and page | `PageProofs` |
| `DetectionPage`, `FastSamPage` | image, modes, checkpoints, overlapping requests | the two detection pages | `PageProofs` |
| `NodeTable` | rows, selection, filter, pages, drawer | data-table | `PageProofs` |
| `NodePages` | loads and pushes of five pages and the gossip page, `NodeTable` on one | node pages, useNodes | `PageProofs` |
| `GossipPlayback` | playback over the loads of `NodePages` | gossip page | `PageProofs` |
| `AppShell` | sidebar, cookie, width, links | ui/sidebar, nav | `DashboardProofs` |
| `Dashboard` | a tab that goes from page to page: all of the above composed with the server | layout | `DashboardProofs` |
| `MCGossip`, `MCAdaptation`, `MCSimulation`, `MCLifecycle`, `MCDiscovery`, `MCFeed`, `MCDashboard` | values of the constants for TLC | - | - |

Definitions named `...` with the comment *Mutation of X* are variants of `X`
with a plausible bug; no specification uses them.  Each checked property is known to
fail when the variant named in `PROJECT.json` takes the place of `X`.

### GossipExchange

`model[i]` is the model of node i.  `main[i]` is its learning-loop thread: the
program counter runs through sleep, select, gossip, await, and `base` is the
local variable `current_weights` of `_run_round`.  `conn[x]` is the connection
of exchange x = (initiator, round, peer) with the thread that serves it.

Weights are abstracted to the *set of training updates they reflect*: training
of node i in round r adds (i, r), aggregation is union.  This is what is common
to all three strategies for the questions asked here - whose contribution is
in a model - and it makes a lost merge visible as a missing element.  The
momentum strategy with coefficient 1 and layers that the partial strategy does
not select are outside this abstraction.  The schedule is
left open (a round may or may not train and gossip), which covers everything
`Adaptation` decides.  Copying the weights is one step; a copy torn between
two layers is not modelled yet.

| Action | Code |
|---|---|
| `Train`, `SelectPeers`, `EndRound` | `_run_round`, sections 1-4 and 6-8; an exception in a section that changes no weights is the schedule that skips it |
| `BeginExchange`, `ConnectFails` | `run_round` up to the sent request; `send_parameters` failing to connect |
| `ApplyResponse`, `ExchangeFails` | decoded answer merged into the copy taken *before* the request; timeout, hang-up, undecodable answer |
| `OpenRequest` | the handler derives its key, decrypts and checks the hash; a request that fails is answered without the callback |
| `CallbackRead`, `CallbackWrite` | `_on_gossip_received`: copy, then aggregate and set (`MergeRequest`), or an exception that is logged and leaves the weights as they are |
| `Reply`, `HandlerDrops` | copy again and answer; receive or send fails |
| `Crash`, `Restart` | the process dies with its sockets and starts with fresh weights |

`outdated` is a history variable: the threads that hold a copy another thread
has written over since.

### Adaptation and Debounce

One action, `RunRound`, per round: classify the battery and temperature
readings, `ComputeSchedule` (count the candidate, commit, decide), and
`FollowSchedule` (rebuild the loader).  The sleep is in percent of the gossip
interval, so 1.25 and 1.5 stay integers.  The counter stops at the hysteresis
depth: beyond it the code's counter only ever satisfies the same comparison.
`recent` is a history of the last readings.  `Debounce` states the promise with
that history and no counter; `DebounceSpec` is its instance under the mapping
accepted <- committed.

### SimulationService

A step is what one coroutine does between two awaits that may suspend it.
`svc` is the state of the service, `sidecar` the saved state, `ref` the
runner list all runs share, `job[k]` the coroutine, monitor, worker thread and
processes of run k, `stopper[s]` a stop request that awaits its task.
Cancellation is a flag a stop sets and the coroutine meets at its
next await.  `Begin` may fail before the try block (the configuration is read
there); `ThreadFails` leaves spawned processes alone, as the code does;
`Restart` may find the sidecar torn only while it was being written.

### NodeLifecycle

The main thread's program counter is `loop`; `handlers` is the stack of signal
handlers in progress, each at a statement of `stop`.  Only the topmost frame
moves, so a handler that needs a lock held by a frame below it is stuck for good.
The locks are those of the stop event, of the transport, of the metrics
buffer and of the peer registry (`RegistryLocks`: `get_peers` and `peer_count` in a round).  A write that
fails may leave any prefix of the buffer in the file, and a process that exits takes its
buffer with it (`CheckStop`).  The accept thread checks, selects and accepts, and may meet a closed socket in
each of the three.  The thread of the mDNS browser wants the registry's lock for its callbacks
(`BrowserCalls`, `BrowserUpdates`); `StopCancels` is the join of it in `discovery.stop()`, which has no timeout.

### Discovery

`proc[n]` is a node's process from the constructor (which loads or creates the
key) to the running node; `private` and `public` are the two files of each key directory,
where writing the private one truncates it first; `record` is what the network
knows.  One node, `Me`, browses: `calls` are the callbacks the thread of
zeroconf is still to make, and `known` and `static` together are its registry, the entries
under a node id and the placeholders.  A placeholder is known by the text it has in `peer_addrs`, which may be
another than the IPv4 address the peer announces; only then does the peer not replace it.

| Action | Code |
|---|---|
| `Load`, `Generate`, `Truncate`, `Save`, `SavePublic` | `_load_or_create`; a key file that cannot be loaded lets the start fail |
| `Announce`, `AnnounceFails` | `start()`; `Me` is then told of every service there is |
| `Stop`, `Crash`, `Expire` | `unregister_service`; the process dies and the network keeps its record for a while |
| `AddService`, `AddServiceFails`, `RemoveService` | the listener; `update_service` is `add_service` |

### LiveSocket and MetricsFeed

`LiveSocket` is one use of the hook.  `sock[s]` has both ends of a connection, its inbox and
the handler it was opened with; `hook` the refs and the status; `timer` the closed sockets whose
`setTimeout(connect)` is pending, which may be more than the one `retryRef` holds; `channel` the
server's set and `cast` a broadcast over the snapshot it took.

`MetricsFeed` EXTENDS it with the file, in units of half a line; the tail's position and the
records it has still to broadcast; and the page.  A handler is the mode of the gossip page (live
or playback) that its closure was made in.  A step of the network or of the hook is a `Link`,
`Reconnect` or `Lose` step, and everything the page or the server does with a connection is
a conjunction of an action of `LiveSocket` with the feed's own part:

| Action | Code |
|---|---|
| `Flush`, `Written`, `WriteFails` | `_write_and_clear`: a batch of records reaches the file in pieces |
| `TailReads`, `TailSends`, `TailSendsTo`, `TailSent` | `_process_new_lines` and `broadcast` between their awaits |
| `Ask`, `Answer`, `Arrive`, `PollFails` | `loadHistory` and `get_node_history` |
| `Receive`, `Switch`, `LeavePage` | `onmessage` with `handleLive`; the live switch; unmounting |
| `Restart` | the API server ends; positions and connections are gone |

### The pages and Dashboard

`Dashboard` is one tab.  `tour` is the rest of the pages to be visited; the page at its head is the
only one that takes steps, and `Mount` sets the state of the next one as its `useState` calls do.  What the
server knows goes on below it.  The pages:

| Module | State | Actions and code |
|---|---|---|
| `SimulationPage` | `simPage`, `simPoll[p]`: a poll between its two requests and their answers | `PollStarts`, `PollServed`, `StatusArrives`, `ResultArrives`, `PollFails` are `poll()`; `Launch`, `Halt`, `ClickServed`, `ClickAnswered`, `ClickFails` are `onSubmit` and `onStop` |
| `ConfigPage` | `env`, `environ`, `apiConfig`, `coreConfig`, `run` (what a simulation takes), `form[t]` with the fields, what they are compared with, and the request on its way | `ReadConfig`, `PatchConfig`, `PatchTorn` are the router; `AnswerArrives`, `Edit`, `Discard`, `Submit` the form; `SimulationReads` is `_run` up to its thread, `NodeReads` the thread and a node's own `Config()` |
| `DetectionPage` | `det` (one field per `useState`), `asked[r]`: what a request under way was given, `list` with the queries for it and what their closures saw | `HandleFile`, `RunInference`, `HandleClear` (disabled while loading), `DetectionArrives`, `InferenceFails` share `ExecuteInference`; `FetchCheckpoints`, which may overlap; the selectors |
| `NodeTable` | `table`: the states of the component | one action per control; TanStack's rules (paging starts again with new data or a new filter) are external |
| `NodePages` | `view`, `load[s]`: a load and the parts that have been answered | `LoadStarts`, `Served`, `LoadArrives`, `LoadFails`, `PushArrives`; `LoadersOf` says which page loads what, `PartsOf` what a `Promise.all` joins |
| `GossipPlayback` | `play`, with the modes of which a connection may be left over, and the mode each load was begun in | `HistoryArrives`, `HistoryFails` (the error takes the page's place), `HandleLive` with the handler of any such connection, `Tick`, and the controls |
| `AppShell` | `shell` | `Trigger`, `Shortcut`, `SheetCloses`, `Resize` |

A record count stands for a node's history, a request for what the server finds in an image, a run number for a
result.  `SimulationPage` stands on `SimulationApi`, a state machine of three variables; that
`SimulationService` with its coroutines, thread and processes implements it is checked, and proved, not assumed.

The configuration's fields fall into four kinds by where a simulation takes them from: `ApiField`
(`metrics_dir`, from the API's own singleton), `CoreField` (`key_storage_dir`, from the core's),
`RequestField` (`transport` and the `sim_` fields, which the request writes into `os.environ`, where they stay
and come before the file), and the rest, which each node reads from the file.  `Refused` has what the form's schema
accepts and the validators of `Config` do not.

History variables tell overlaps from other reasons: `simPage.late`, `crossed`, `load[s].overtaken`, `was`.

## 3. What TLC checks

| Run | Instance | Result |
|---|---|---|
| `gossip` | nodes a, b, c; a and b run one round with fan-out 1, c answers; a knows b by address only; one crash | `TypeOK`, `BothUpdated`, `LossNeedsOverlap`, `LoopNeverStuck`, `HandlersEnd` hold |
| `gossip_lost` | a and b | `ServerMergeKept` is violated |
| `gossip_key` | a knows b by address only | `SameSessionKey` is violated |
| `adaptation` | readings on both sides of every threshold, depth 3, 4 epochs, batch 64 | `TypeOK`, `DebounceSpec`, `LessWorkWhenWorse` hold |
| `simulation_client` | one client, two runs of two nodes, one stop, one server crash | `TypeOK`, `ServiceIsApi` hold (1.4 million states) |
| `simulation_live` | overlapping requests, two runs of one node | `RunningHasTask`, `StopsReturn`, `RunsEnd` hold |
| `simulation_one` | one client, one stop | `OneSimulationAtATime` is violated |
| `lifecycle` | flush after two records, four rounds, two signals | `TypeOK`, `FileInOrder`, `NothingVanishes`, `StopEnds`, `AcceptThreadEnds` hold |
| `lifecycle_graceful` | the same with one signal | `GracefulShutdown` is violated |
| `discovery` | two nodes that share a key directory, three addresses, two static entries of which one is not written as announced, three crashes, stops or failures | `TypeOK`, `RegistryIsCurrent`, `KeysAgree`, `IdentityPersists`, `NodesStart` hold |
| `feed` | two records, two connections at a time, one poll at a time; one event out of switch, lost connection, failed write, read or poll, server restart | `TypeOK`, `ConnectionsBounded`, `SkippedWasTorn`, `PushedInOrder`, `PlaybackStays`, `GoneLeaves`, `PageCatchesUp` hold |
| `dashboard` | nine tours of one to three pages; two nodes and records, two runs, two polls and loads at a time, two tabs, a field of each kind, three clicks, two changes of models, one failure of each kind | `TypeOK`, `OldResultNeedsOverlap`, `SimulationsUseSaved`, `EnvIsOneForm`, `ResultsOfImage`, `PickNeedsOverlap`, `SelectionStays`, `GoesBackNeedsOverlap`, `PlaybackSkipsNothing`, `ResultShows` hold (0.53 million states) |

**Bounds.**  Three nodes give a server with two concurrent connection threads
beside its own loop, which is every pairing of roles; two that contact each other give the mutual wait.
The crash in `gossip` may fall before, in or after every step of every exchange.  Frames are
damaged there only by the wrong key (`Garbling` is off, or `BothUpdated` would say nothing); the proofs
cover any damage, any fan-out and any number of crashes.
Depth 3 is the first with a counter value that is neither the
first nor the last.  Two simulations are what it takes for one to be affected by
the end of the other.  Two signals give a handler that interrupts a
handler, and four rounds give two flushes of a two-record buffer by the loop
between any two of which a signal may fall.
In `discovery` three events let a node die while it creates a key, come back, and
die or move again; one node observes, since registries do not depend on each other, and
five keys are enough for every start to create one.  In `feed` the one event may fall
between any two steps of a write, a read, a broadcast and a poll; two records are the least that can be torn,
glued or reordered, and two connections the most one change of the handler leaves.
A page may be left at any point beside that event.
In `dashboard` two polls or two loads are the least that overtake each other, and three clicks are an
image, a second one, and a run or a clear between.  Of the configuration one field of each kind is enough, because no step
relates two; the one value that `Config` refuses is a hysteresis of 0.  The chart has the choices "all" and "10", the one a
phone gets; "30" differs from "all" only in its label.  A page meets what others left behind
only through the server and the shell, so that tours pair the pages that share something: a page
with itself (reload), lists with a node, a node with detection.  Loads overlap at the page
with the least besides them, and one loader of a page runs at a time, since loaders of one
page touch different parts.  The FastSAM page, which has the same code, gets fewer clicks.

**Fairness.**  Weak fairness of each thread or coroutine as a whole, because the operating
system and the event loop schedule all of them.  Where a step stands for a
timeout it is part of that: `send_parameters` and the connection threads have socket
timeouts, `select`, `Event.wait` and `join` have theirs.  The simulation service also
assumes that a broadcast ends.  `feed` assumes that intervals and timers fire (they are
the browser's) and that requests are answered; `discovery` that the thread of zeroconf makes
its callbacks and that a node that is down is started again ("restart: unless-stopped",
`docker-compose.yml:26`).  `dashboard` assumes of the timer and the network that at least one of the polls
comes through (weak fairness of their disjunction), and nothing else.  Nothing is assumed of crashes, signals,
requests, the user, the node's writes, or of a node process exiting by itself.

### What the passing runs show

* `BothUpdated`: an initiator that merged an answer has a peer that merged its
  request, when the identity key is used and frames are intact - "model A
  trains, gossips with B, both models updated" (`tests/test_integration.py`) -
  or whose merge raised: that exception is swallowed (`controller.py:283`), the request answered all the
  same, and nothing tells the initiator.
* `LossNeedsOverlap`: the *only* way to lose a contribution is a write-back of a copy that another
  thread of the same node has overwritten, or a crash.  Neither failed exchanges nor several peers in a round lose any.
* `LoopNeverStuck`, `HandlersEnd`: no mutual wait, and no connection thread that stays.
* `DebounceSpec`: candidate and counter implement debouncing of the
  *pair* of readings.
* `LessWorkWhenWorse`: the decision table is monotone, overlapping rows included.
* `RunningHasTask`: "running" always has a task at work or a stop about to
  reset it.  The one exception, which the property names, is a task whose setup
  failed before its try block: the status then stays at running until
  somebody calls stop.
* `ServiceIsApi`: with one client, each step of the service is one of `SimulationApi` or changes nothing the client
  sees: what is shown is the result of the simulation started last - until the server restarts, after which it may
  be any result an earlier simulation saved, or none (`ApiRestart`).
* `StopEnds`: a signal ends the loop unless it hit a lock its handler needs, or the registry's while a
  callback waits for it; with `AcceptThreadEnds` the accept thread goes too.
* `FileInOrder`, `NothingVanishes`: flushes by the loop, a handler and a
  nested handler never duplicate, reorder or drop records beyond a failed
  write and the last record of a process that exits; see below.
* `RegistryIsCurrent`, `KeysAgree`: although a callback may find a newer record than the one it
  was called for, or none, the entry of a peer about which no callback is pending is
  what the peer announces now, with the key of the process that runs there.
* `IdentityPersists`: a crash anywhere in the creation of a key never gives a node that
  was announced a second identity.  The exception it names is real: two
  nodes that find a shared directory empty both create a key and one is overwritten.
* `NodesStart`: the only crash a node does not recover from is the one between truncating and
  writing the private key file; in particular a missing public key file does no harm.
* `SkippedWasTorn`, `PushedInOrder`: the tail loses a record only if its read ended inside
  it, and never pushes one twice or out of order between two starts of the server.
* `PageCatchesUp`: whatever was skipped, glued to a torn line, or pushed while nobody was
  connected or while a poll was under way, the page ends with what the file holds.
* `ConnectionsBounded`, `GoneLeaves`: the hook never gives up, closes and
  timers multiply connections by no more than one per change of the handler, and those that
  are gone leave the broadcast set.  The one per change is a leak; see below.
* `OldResultNeedsOverlap`, `ResultShows`: the page covers a running simulation with an old result only if
  a poll overlapped the launch, and in the end shows the result of a finished one, through failed
  polls, failed clicks, restarts and reloads.
* `SimulationsUseSaved`, `EnvIsOneForm`: a simulation puts its keys where the file says now, and its nodes read the rest
  from it; the exception is a write cut short by an error.  The metrics directory is that of the file *as the server
  started*, since the API's own copy is never refreshed.  The file is always one form's, never a mixture of two tabs'.
* `ResultsOfImage`: what was found in one image is never shown with another, because every button that
  changes the image is disabled while an answer is awaited - mode, models and list are not.
* `PickNeedsOverlap`: the chosen model changes by itself only if the list was asked for again during a query.
* `SelectionStays`: dragging rows keeps the selection with the nodes, and so do answers for those that keep
  their place.  The others are the exception; see below.
* `GoesBackNeedsOverlap`: a failed or partial load never takes away what a page holds, on six pages, nor what it
  shows, on five: the gossip page becomes an error card until a load succeeds, and only a failing load does that.
* `PlaybackSkipsNothing`: playback shows every round once, unless the user, a load begun in live mode or a push to a
  connection left over from live mode moves it.

### Findings

Where the code does something its own documentation excludes, a run shows the
shortest trace:

* `gossip_lost`: "Triggers server-side aggregation so the server also
  benefits" (`gossip/engine.py:34`) - the merge is overwritten when it falls
  between an initiator's copy and its own answer.
* `gossip_key`: "Both parties compute the same K_psk independently"
  (`gossip/engine.py:13-15`) - the initiator uses the PSK for a static peer, the peer
  always its identity key, so the request is never merged.
* `simulation_one`: "managing one simulation run at a time"
  (`simulation_service.py:21`) - a stop before the runner is registered, or a failing
  spawn, leaves nodes behind.
* `lifecycle_graceful`: "handlers for graceful shutdown" (`controller.py:441`) - a
  signal inside a lock of the main thread deadlocks it.  So does one inside the lock of the registry while a callback
  of the mDNS browser waits there: the handler joins that thread (`mdns.py:165`) without a timeout.

Other differences between text and code, and behaviour a reader might not expect, seen
while modelling:

* The decision matrix in the header of `adaptation/manager.py` skips training for
  MEDIUM/HOT and gossip for MEDIUM/CRITICAL; the code does not (lines 193 and 175).  The
  lower bound of 16 raises smaller batch sizes (line 225).
* Battery and temperature are debounced as one pair (`manager.py:124`), so a battery reading that
  alternates keeps a steady critical temperature from committing
  ("suspend training immediately", `monitoring/thermal.py:32`).
* For the same reason a critical battery is not suspended for as long as the temperature changes its state more often than the
  hysteresis allows; only once committed does it stay suspended whatever the temperature does (`CriticalSuspends`).
* The round that a signal interrupts is recorded after the handler has flushed, and the process ends
  (`__main__.py:77`) with that record in its buffer, although the flush is there "before exit" (`controller.py:243`).
* A `stop` that returns late sets the status to idle although a newer run was started during its await
  (`simulation_service.py:130`); a further start is then accepted.
* The progress monitor counts metrics files of earlier simulations (`simulation_service.py:261`).
* The accept loop ends on one failing `accept` and `is_running` stays true
  (`tcp_transport.py:213-216`).
* The gossip page passes a handler that depends on the live switch (`gossip/page.tsx:196-215`).
  Every switch makes the hook replace its connection, and the close event of the old one opens another with the
  old handler (`useWebSocket.ts:45-53`): from then on records arrive twice, and in playback the
  old live-mode handler still moves the round.  `ConnectionsBounded`, `PlaybackStays` and
  `PlaybackSkipsNothing` state what is left.
* A record whose line the tail met half-written is never pushed, a failed write glues the next line
  to the rest of the last one, and after a restart of the server all records are pushed again
  (`broadcaster.py:46-50`).
* The answer to a save of the configuration is the API's cached copy (`api/routers/config.py:51`, with the
  `get_config` of `api/dependencies.py`), not what was written, although the function is to "reload the
  config singleton" (line 24): the form goes back to the old values (`config/page.tsx:187`), and saving
  it again after another edit takes the first edit back.  What is typed during a save is lost as well.
* A save of `metrics_dir` reaches neither the simulations nor the broadcaster until the server is started again
  (`simulation_service.py:141`, `api/dependencies.py`), and what a simulation's request puts into `os.environ` stays there for all later ones
  (lines 155-156).  Its `transport` is not passed to the runner (lines 160-170), whose nodes always use its default, "tcp".
* The form accepts a hysteresis of 0 (`config/page.tsx:65`), which `Config` refuses (`src/bloomfl/config.py:127-132`): once saved, every
  simulation fails before its try block, with the status left at "running", and the server does not start again.
* The answer to a late query for the checkpoints replaces the model the user has chosen meanwhile: the closure's
  `singleModeCheckpoint` is that of the render the query was begun in (`yolo/page.tsx:83`).
* A launch leaves polls under way (`simulation/page.tsx:104`): an old
  result, once there, hides the progress until the new simulation has finished.
* One failing poll of the gossip page replaces all of it by an error card for five seconds, and playback goes on behind it
  (`gossip/page.tsx:184`, 292-309).
* A refused or lost launch has already removed the result (`simulation/page.tsx:105`).
* Rows are identified by place (`data-table.tsx:353`): a node whose name sorts first shifts selection and drawer to the
  neighbours.  Every poll undoes dragging and goes back to the first page (lines 334-336).
* The metrics and convergence pages load once; a failure reads "No loss data available yet" (`metrics/page.tsx:65`).
* The cookie of the sidebar is written and never read (`ui/sidebar.tsx:86`); on a phone the sheet stays open
  over the page that was chosen in it; the table's links load the document again (`data-table.tsx:275`).
* The link of a node to its checkpoint drops the checkpoint (`inference/page.tsx:11`), and the FastSAM page takes any failure for a
  missing library (`fastsam/page.tsx:77`).
* A placeholder gives way only to a peer that announces the very text of the configured entry (`mdns.py:82`): beside an entry
  such as `127.0.0.1:50052` (`simulation/runner.py:65`) or a host name, the peer is listed twice, once without its identity key.
* `get_peers` compares node ids, which a placeholder for the node's own address does
  not have (`mdns.py:182`); all replicas of `docker-compose.yml` mount one key directory (line 45).

## 4. What is proved

All theorems hold for every value of the constants that satisfies the named
assumptions (`GossipAssumption`, `ThreadAssumption`, `AdaptationAssumption`, `ServiceAssumption`, `LifecycleAssumption`,
`DiscoveryAssumption`, `SocketAssumption`, `FeedAssumption`, and those of the pages and the composition).  All of them
only say that a constant is a number, a finite set or a function of the right kind.

**GossipExchangeProofs.**  `OneOpenConnection` and `BothUpdated` are not inductive
by themselves.  `IInv` adds `PeersAreOthers` (a loop past the start of its round has
a valid round number and never itself as a peer, so that its current exchange
exists) and `MergedBeforeAnswer` (an undamaged request under the identity key is
merged, or its merge has raised, before it is answered).  One lemma per action shows that it preserves
`IInv`; `Invariance` combines them, and `TypeCorrect`, `BothUpdatedHolds`,
`OneOpenConnectionHolds` and `FreshCopyHolds` follow.  `LossNeedsOverlapHolds` uses the
invariant at the two steps that write a merge back: a copy that is not
outdated *is* the model, so a union with it takes nothing away.

**AdaptationProofs.**  `IInv` says that `count` is the length of the run of equal
readings at the end of the history (`CountIsRun`), that the schedule is the decision
for the committed state, that a candidate counted to the end is committed, and
that the loader has the noted size.  From it follow the type invariant,
`LoaderFollowsSchedule`, `CriticalSuspends`, and - by monotonicity of `Decide`,
a lemma of its own - `LessWorkWhenWorse`.  `Refinement` shows that every round is a step of
`Debounce`: the counter reaches the depth exactly when the last readings are all equal.

**DiscoveryProofs.**  All safety invariants of `Discovery`.  `IdentityPersists` needs
`OneKeyPerDirectory`: in a directory that was not raced for, the progress of the one process that creates a key
shows in the file, and every node that has a key or was announced has the file's.
`RegistryIsCurrent` needs `RemovedHasNoRecord` - after the last callback about a node, if it is a removal,
there is no record - and `BrowsesWhileUp`.  Its step is proved twice over: once for a change
of the network that appends a callback, once for a callback that runs and shifts the others.
`KeysAgree` follows with `UpIsAnnounced`.  That `Announce` calls back about *every* service uses the cardinality
theorems for the enumeration of a finite set.

**SimulationServiceProofs.**  `RunningHasTask` is about one run and the service, but a run that ends must not take the
status from the next one.  `ServiceInv` therefore numbers the runs (`RunsNumbered`: while the status is "running", the
service's task is the last run started and there is no result), says that a cancellation under way is one that a `stop()`
awaits (`CancelsAwaited`), and that a result is one of a run whose thread has returned with no process
alive (`ResultsComplete`).  It holds for any number of overlapping requests.  Two kinds of step cover most actions, a lemma
each: a step of a thread or process beside the loop, and a step of one coroutine.  With one client that waits for its
answers `ClientInv` adds that a `stop()` awaits the service's own task, that an uncancelled run is the one that
"running" speaks of, and that what is saved is what a run ended with; from it `ServiceImplementsApi` shows that
each step is a step or a stutter of `SimulationApi`.

**NodeLifecycleProofs.**  Signal handlers run on top of the frames of the main thread, so the invariant speaks of all
frames.  `MetricsHeld` - whoever is inside the lock of the metrics holds it - gives that at most one frame is; then
`RecordsInOrder` - file and buffer ascend, and the file lies before the buffer except while a written buffer has not
been cleared - and `WrittenAccounted` are inductive with `BufferShort` and `Counts`.  `FileInOrder` follows.  For the action
property `NothingVanishes`, `LateInv` bounds what the end of the process can take: once the handler that interrupted the
loop has flushed, the buffer holds at most the record of the loop's current round (`LateOnly`).

**MetricsFeedProofs.**  `SocketInv` adds to the types that a reconnect timer belongs to a closed connection; it is what
bounds the connections.  `FeedInv` says that the rounds in the file ascend although some lines are torn, that a line the
tail has read only in part is one it will skip (`TornLast`), that everything taken lies before the position
(`TakenRead`), and that what is being pushed is the head of the queue; nothing read anew can then be pushed twice or
out of order.  What
`Parsed` collects from the file by recursion over the rounds is proved, by the least counterexample, to be the rounds whose lines
are complete (`ParsedRecords`).

**PageProofs.**  For the configuration, `ConfigInv` adds `SavesSent` - a form being saved is among those sent - to the
types, and to `EnvIsOneForm`, which needs it where the request is written.  `SimulationsUseSaved` needs two more parts: the
core's singleton has the fields of a simulation as `.env` has them, unless a write was cut short (`CoreIsSaved`), and the API's is
what the server started with (`ApiIsStarted`).  For the detection pages, `DetInv` says that a request is under way only while
the page is loading, at most one, and about the image on display, whose results are the only ones there (`OneImage`); and that,
as long as no query for the list crossed another, there is at most one, and none that was asked without a chosen model while a
model is chosen (`ListAlone`).  `ResultsOfImage` and `PickNeedsOverlap` follow; `ChosenAreListed` is inductive beside the types.

For the node pages, `PagesInv` is proved inductive step by step.  Its part for the table, `TableInv`, says that every row has
the place of its node in the list the rows were made of (`RowsRanked`), wherever it has been dragged; whether a node
is chosen then depends on its place only, which is what `SelectionStays` asks.  It rests on lemmas about places in a
finite set (no two nodes have the same, and every place is somebody's) and about what `RemoveAt` and `InsertAt` make of a
sequence.  `PageFits` bounds the page that is shown, which the type of its index needs when the size of the pages changes.  Its part for the
loads, `LoadOK`, says of every load under way that its answers are parts the page has asked for, that they are not
ahead of what is recorded, and (`NotBehind`) that they are not behind what is shown *unless something has overtaken the
load*; for a load of two steps the list must already have every node whose history is shown.  So each step either
is `Onward` - every part shows at least as much as before - or is the arrival of something overtaken, and
`GoesBackNeedsOverlap` follows, for the graph of the gossip page as well.  `PlayInv` adds playback: what plays does not
follow the newest round, and all rounds stay within those recorded.  `PlayKeeps` is what each step is shown to do.

**DashboardProofs.**  `DashboardIsConfig` maps every step of the composed system to a step or a stutter of `ConfigSpec`, so
that the two theorems about the configuration carry over.  The detection properties are proved again for the composition, where
two pages share the variables and are mounted anew.  `DashboardResults` rests on `NothingOld`: without an
overlap, between a launch and the end of its run neither the page nor any poll knows an old result.
`SelectionStaysHolds`, `GoesBackNeedsOverlapHolds` and `PlaybackSkipsNothingHolds` are action properties: `DashboardKeeps` carries
`PlayInv` and `PlayKeeps` from the steps of the pages to those of the composition, in which pages are mounted anew,
the window changes the chart and the nodes go on recording.  `CookieAgreesHolds` is about the shell, and
`DashboardTypes` puts the invariants of all parts together.

Some properties are proved only, and no run repeats them: `OneOpenConnection`, `FreshCopyIsModel`, `LoaderFollowsSchedule`,
`CriticalSuspends`, `ResultsOfEndedRuns`, `OneFrameInMetrics`, `ChosenAreListed`, `CookieAgrees`.

**Only model-checked.**  Liveness under fairness (`LoopNeverStuck`, `HandlersEnd`,
`StopsReturn`, `RunsEnd`, `StopEnds`, `AcceptThreadEnds`, `NodesStart`, `GoneLeaves`,
`PageCatchesUp`, `ResultShows`), which is out of the prover's reach.  Every other property of a passing run is a theorem
as well.

## 5. Not modelled, and why

Floating-point arithmetic of training and aggregation (pure, and tested
directly); the cipher and key derivation (assumed to work: only *which* key
is used is modelled); framing and JSON encoding; gRPC internals; sensors, camera and
image models (I/O); rendering, charts and the wrappers of `components/ui`; the landing page; command line, seed data and build scripts.
`PROJECT.json` lists every component with its status.

## 6. Plan

Done, in this order: the exchange, because it is what the system is for; adaptation;
the simulation service; the node's life cycle; discovery with the identity keys; the feed
from a node's metrics to a page; the pages of the dashboard with the configuration.  Next:

1. The pure functions, as operators checked against reference definitions over bounded inputs: the
   statistics of `evaluation/metrics.py`, `ConvergenceChecker`, the partition of the dataset, and the
   selection of layers in `aggregation.py`.
2. `SharedModel` - `get_weights` and `set_weights` one layer at a time, to see what
   torn copies the exchange may send.
3. `SimulatedNetwork` - the wrapper that replaces the controller's transport after the engine
   has taken the original (`runner.py:106`).
4. The model caches of the inference services, the stop of the webcam loop, and the gRPC transport as a
   variant of the server half of `NodeLifecycle`.

Proofs to come: with each of these modules, its type invariant and its safety properties.
