# Verification of xj

xj is a set of Go programs for teaching units ("units", 课程单元): a cloud
control server that connects teachers, students and classroom devices over
websockets (`cc.go`, `ndscloud/`), a statistics pipeline from Kafka to an HTTP
service (`nstat/`), and jobs and scripts that work on the same redis data
(`cmd/`).  This directory holds TLA+ models of its concurrent core, the TLC
instances that check them and TLAPS proofs about them.

Paths below are relative to the repository root.

## 1. Inventory

| Part | State | Operations | Hard | Must hold |
|---|---|---|---|---|
| Hub, `ndscloud/hub.go` | table id → client, per unit the ids by role, per client a buffered outbound channel | register, unregister, broadcast, `exists`, `get` | one goroutine serves all; blocks on a full channel; closes channels others hold; table searched by id, not by connection | table and caches agree; no send on or close of a closed channel but for known causes; every broadcast ends |
| Routing, `ndscloud/message.go`, `getrecversbyto` | none | field `to` → groups and individuals → set of ids | result aliases the hub's cache, may be nil | ids only; individuals are served |
| Connection goroutines, `ndscloud/client.go`, `handler.go:547-610` | position of `ServeWs`, countdown, `readPump`, `writePump`; websocket and redis open or closed; `isRegistered`, `stopreg` | forced login, time-out, frames, notice, logout, pings, end | four goroutines per client and the hub share state without locks; check-then-act on the table | silent clients are evicted; evicted ones disconnected; pumps end; one login per id; one writer per websocket |
| Message handlers, `ndscloud/processor.go` | as above, and redis | ten kinds of messages | redis fails half-way; a handler goes on after logout | broadcast what was stored, in order |
| Local terminals, `client.go:301-386`, `processor.go:92-173` | sets of users and devices reported by a local control | report, replace, remove | replaced by sets whose maps are nil | a full report is taken |
| Scenes and module status, `processor.go:183-369`, `client.go:114-126` | redis: scene id, scene record, status per module, history | start, end, status change, connect | read-merge-write from several connections; two-step end of a unit; each client keeps the scene id it read | no lost update; all write to the current scene |
| HTTP queries, `handler.go:36-539`, `api.go` | none | lists, chat paging | ids computed from positions | a page holds the messages up to and including the id |
| Statistics pipeline, `nstat/` | two channels, `stopCh`, `toStop`, position of five goroutines | collect, process, commit with three attempts, stop | shutdown: who closes what, who still sends; requests without a time-out; undated messages | all goroutines end; what was collected is committed |
| Ink persistence, `cmd/persistent_pms.go` | redis list, saved offset, file | page, append, save offset, delete | pages, crash between append and save, producer alongside | the file is a replay of the list; what the offset has passed is in it |
| End of units, `cmd/endunit_countdown.go` | monitored units | scan, monitor, end | unlocked iteration; removed before ended | an expired unit is ended |
| Clean-up, `cmd/cleanup_unit.go` | online lists | scan, check, delete | endless scan; errors taken for "not running"; requests without a time-out; no units | lists of running units survive; it ends |
| Token cache, SSDB client, `helper/oauth2.go`, `ssdb/ssdb.go` | cached token; receive buffer | get; parse a reply | expiry between two commands; partial reads | a valid token or an error; one reply per request |
| Course rating, `cmd/nstat/courserating*.go` | page, channel | page, commit | end without waiting | everything paged is committed |
| Start-up, scripts, experiments | – | – | – | not modelled: sequential I/O or trials of Go features |

How they interact: `cc.go` starts the hub and routes HTTP requests to
`handler.go`.  `ServeWs` makes a `Client` and starts its goroutines; these reach
the hub only through the unbuffered channels `register`, `unregister` and
`inbound` and the read-locked look-ups `exists` and `get`; the hub reaches them
only through `outbound`, which it also closes.  Connections of one unit meet in
the hub and in redis.  The jobs in `cmd/` meet the server in redis only, except
that `endunit_countdown` also connects to it as a client and sends an
end-of-unit message.

## 2. Plan

Done, in the order in which the parts matter:

1. `Routing`, `Hub`, `Cloud` – the cloud control server; `CloudProofs` – its
   invariants.
2. `Broadcast` – what the hub promises the peers; `CloudBroadcast` – the server
   implements it.
3. `Nstat` with `Factors` – the statistics pipeline and its stop protocol.
4. `PersistPms` – the ink files.
5. `Units` – a unit in redis and all that work on it: `Scenes` (connections),
   `EndUnit` (the job that ends it), `Chats` (paging), `LocalSets` (a local
   control's terminals), `Cleanup` with `AccessToken`.

6. The proof modules: `BroadcastProofs`, `NstatProofs`, `PersistPmsProofs`,
   `UnitsProofs`, `ScenesProofs`, `CleanupProofs`, and `DataLemmas` for what
   they share.

Every invariant that a passing run checks is a theorem as well, and so are the
action properties.  Left: the parts that are not modelled (sections 1 and 3), and
liveness, which stays with TLC (section 6).

Each module has its constants with named assumptions, one action per operation,
an MC module for its instances, and no RECURSIVE operator, so that a proof
module can extend it.

## 3. Modules

* **`Routing`** – `ParseFieldTo` and the choice of the cache's set.  The text of
  `to` is kept split at `@`, `|` and `,` (`head`, `sep`, `tail`), because the
  code looks at nothing else.  The last known group letter wins, as each
  replaces `receiverSet`.
* **`Hub`** – the state of `hub.go` and what `Run` does with one request:
  `Add` (`add`), `Unlist` (`remove`), `Accept` (`msgrecvers`), then one
  `Deliver` per receiver, so that the fan-out interleaves with everything but
  other requests.  Map iteration order is any order.  A panic (`closeClosed`,
  `sendClosed`, `nilMap`, `nilCache`) sets `crashed`, after which nothing moves:
  `Run` is not recovered and ends the process.
* **`Cloud`** – per connection the four goroutines, each with a variable that
  says where it is:

  | variable | goroutine | code |
  |---|---|---|
  | `serve` | `ServeWs` from `forceLogin` on | `client.go:169-183`, `handler.go:586-609` |
  | `countdown` | registration time-out | `handler.go:591-606` |
  | `read` | `readPump` with `process`, `notice`, `logout` | `client.go:185-249`, `processor.go` |
  | `write` | `writePump` | `client.go:256-299` |

  A send on one of the hub's unbuffered channels is one step of sender and hub,
  and is possible only while the hub is at its `select` (`Idle`).  Every
  look-up, test and flag between two such sends is a step of its own, so the
  check-then-act sequences of the code are open to interleaving.  Writes to a
  websocket last from one step to a later one.
* **`Broadcast`**, **`CloudBroadcast`** – the abstract specification: one message
  is on its way at a time, reaches each of its receivers at most once and its
  sender never, messages of one sender keep their order, and a channel is closed
  between two messages.  It knows no table, cache, login or goroutine.  The
  refinement mapping takes `packet`, `outbound` and `closed` as they are, the set
  of receivers still to be served for the sequence `todo`, and for the number of a
  sender's next message the frames its `readPump` has read, the one it still holds
  in `pending` not counted.
* **`Factors`**, **`Nstat`** – `Factors` is what `processor.handle` makes of one
  log message.  `Nstat` has the five goroutines of `nstat/server.go` with the
  bounded channels `inbound` and `outbound`, `toStop` and `stopCh`, batches, three
  attempts, and the draining at the end.  An attempt to commit is one POST of the
  whole batch, after which the service has all of it or nothing; it succeeds,
  fails with either of the two, or is never answered (`hung`).  A message without
  a date ends the process.  Where the goroutines are:

  | `at` of | code |
  |---|---|
  | `collector` | `collector.go:35-101` |
  | `processor` | `processor.go:286-308` |
  | `consumer` | `consumer.go:46-181` |
  | `moderator`, `loader` | `server.go:154-207` |

* **`PersistPms`** – `writePms` and `deletepms` of `cmd/persistent_pms.go`, each
  redis command and file operation a step, beside peers who draw; the program
  fails or is killed anywhere and is started again.
* **`Scenes`** – the redis data of one unit.  Every command is a step, so that
  read-merge-write and the two-step end of a unit interleave.  Stored values are
  known by the frame they came with.  `plan` is what the peers send.  Two
  variables are auxiliary: `raced`, the modules of which two updates overlapped,
  and `restarted`, the scenes whose record a start overwrote after their end.
* **`EndUnit`** – `cmd/endunit_countdown.go`: `main`'s scan and the Bus, `monitor`'s
  walk over it, and the connection it dials, which is one of `Scenes`'
  connections from then on.  The range over a map that `main` writes to either
  comes to a new entry or does not, or the runtime ends the process.
* **`Chats`** – `ServeChats` with a peer that pages back, from the end of the list
  or from a `chat_id`.  `total` (where the peer began), `first` and `astray` (it
  passed to another scene, or began beyond the list) are auxiliary.  The route
  (`cc.go:47`) gives the handler no `scene_id`, so that no query names a scene.
* **`LocalSets`** – the two sets of a local control with `ServeUsers` at the same
  time; a nil map ends the process (`up`).
* **`AccessToken`**, **`Cleanup`** – `AccessToken` of `helper/oauth2.go` for many
  callers, and `cmd/cleanup_unit.go` with a goroutine per unit that calls it.  In
  these and in `EndUnit` a request is answered, fails, or hangs for good.
* **`Units`** – the composition of `Scenes` to `Cleanup`: one unit in redis, the
  server's process, the job and the clean-up.
* **`MCCloud`**, **`MCNstat`**, **`MCPersistPms`**, **`MCUnits`** – the instances
  (section 4).
* **`DataLemmas`** – what concatenation, head and tail do to the order of a
  sequence and to the number of times a value occurs in it; induction over
  numbers and over finite sets; that a fold over a finite set exists.
* **`CloudProofs`**, **`BroadcastProofs`**, **`NstatProofs`**,
  **`PersistPmsProofs`**, **`UnitsProofs`**, **`ScenesProofs`**,
  **`CleanupProofs`** – the theorems (section 6).  `UnitsProofs` has the types of
  all parts of `Units`, terminals and paging; the next two extend it.

Definitions called "Mutant: ..." are plausible slips in the operator that follows
them; the check puts them in its place and expects the property to fail.

### What the model leaves out

* `NewClient`'s look-ups: a connection either gets a `Client` or not; those that
  do are `Conn`.
* Frames that `UnmarshalMessage` refuses, a registration that does not fit the
  identity and a second registration have no effect on the state: no step.
  Frames whose `msg` has another JSON type than the handler asserts are not
  sent by the peers of this model.
* In `Cloud`, what redis stores: there a command succeeds or fails, and always
  fails after `logout` has closed the client's connection to redis.  `Scenes` has
  the other half: what is stored, without the hub.  `LocalRegMsg` is in
  `LocalSets`; for the hub its terminals are further online messages of a device.
* The payload: a message in a channel is its sender and the number of the frame
  it came in with, which is what order and multiplicity need.
* The library's own panic on concurrent writes to a websocket.  `OneWriter`
  shows that the situation arises; the model then goes on.
* `removebyunitid`: nothing sends on `endunit`.
* In `Scenes`, frames that touch no redis key, those without a `to` among them.
* A redis command that fails is taken as not executed; in `Scenes` a peer whose
  client was logged out sends no more (in `Cloud` it may).
* In `Nstat`, the look-up of an address in `helper.go`, of which only the refusal
  matters, and a second run of the program.  There is nothing for it to go on from:
  `enable.auto.commit` is false (`collector.go:43`), nothing commits an offset or
  writes a message id down, and `auto.offset.reset` is `earliest`, so that it begins
  with the first message Kafka has and the service counts everything again.  The
  comments say otherwise: "first read the failed messages, then from the
  message_id recorded when the process last ended" (`collector.go:5`, in Chinese;
  also `consumer.go:5-7`).
* In `PersistPms`, two runs of "save" at the same time, and a write of which only
  a part reaches the file.
* `ServeModStatus`, `ServeModList` and the head of `ServeUsers` read one key or a
  copy and format it.  `cleanup_unit_nonconcurrency.go` has the steps of
  `Cleanup` in one goroutine.
* In `Cleanup`, the `SCAN` and the `DEL`s of a unit's local controls are one step: no
  other step of the program touches these lists in between.
* The SSDB client (a byte parser for a script that is run once), the migration of
  course ratings, the load generators, scripts and language experiments.
* The data of the course platform, Kafka and Lua code outside the repository: a
  unit's status, tokens, logs and the key `nc:chan:unit:run` change as their
  readers in the code allow.

## 4. What TLC checks

| Run | Instance | States | Shows |
|---|---|---|---|
| `cloud_relogin` | 4 connections, 3 ids, 2 units: one user logs in for `math` and again for `art`, or the other way round; the connection to `math` talks and may drop; of two students in `math` one talks and may time out | 1.3 M | `TypeOK`; `ListedIsReachable`; `StaleOnlyAcrossUnits`; `OrphanNeedsTwin`; `ImplementsBroadcast` |
| `cloud_room` | teacher and device in one unit, all kinds of frames, six forms of `to`, capacity 2 | 3.3 M | `ClosedEntryIsRegistered`; `PanicNeedsTwinOrRegistration`; `SenderHasCache`; `OutboundInOrder` |
| `cloud_live` | silent listener with channel capacity 1 and pings, sender with two frames, with fairness | 11 k | `BroadcastEnds`; `EvictedIsDisconnected`; `ReadPumpEnds`; `SilentIsEvicted` |
| `nstat` | three logs in four mixes, channels of one item, batches of two, two attempts, a stop at any time | 222 k | `TypeOK`, `AllAccounted`, `PipelineInOrder`, `CommittedIsPrefix`, `CountedPerAttempt`, `NilOnlyInShutdown`, `CountersAgree`; `StopEndsAll`, `LogsAreCounted` |
| `pms` | a teacher who draws two pages of two strokes, a student with one; one failure, one deletion; both programs | 370 k | `TypeOK`, `ReplayInOrder`, `RepeatsAreBounded`; `ShortRunsAreComplete`, `OffsetCatchesUp` |
| `units` | eleven small units (below) | 422 k | `TypeOK`, `CurrentSceneIsOpen`, `PassedScenesWereEnded`, `HistoryGivesStatus`, `JobEndsItsScene`, `ChatPagesAreExact`, `ListingIsFaithful`, `ListsAreCleared`; `SceneFallsBackOnlyLate`, `OnlyExpiredAreEnded`, `MonitoredIsEnded`, `ProgramEnds` |

All of them hold.  The properties are worded so that they say exactly how far
the code's promises go; each of the exceptions they name is reached in its run, but
for two: the panic over two connections of one id, which `cloud_relogin` has and
`cloud_room`, whose property names it, has not, and a collector stuck behind a stuck
processor, which takes five logs.

* `Cloud`: a stale cache entry needs a login across units, an orphaned connection
  a second one of the same id, a panic a late registration or a second
  connection, a broadcast that does not end a receiver whose `writePump` has
  returned (`HubStuck`).
* `Nstat`: a stop ends all goroutines but those that are stuck for good
  (`ReportStuck`, `ConsumerStuck`, `ProcessorStuck`, `CollectorStuck`): in a request
  that is never answered, in a report to a moderator that has taken another one, or
  in a send to a channel that is full and whose reader has returned or is stuck
  itself.  What a stop loses was not yet handled; what was handled is counted when
  the consumer has ended without a failed batch (`Drained`).  A log is counted
  again only by a retry of its batch: each attempt is one POST, and one whose
  answer is lost has been counted all the same.  Every log is counted unless there
  is a stop, a panic or a request that is never answered.  The nil that a tick
  reads from the closed `outbound` ends the process only during a stop.
* `PersistPms`: a stroke is repeated at most once per failure or deletion; a run
  of at most two pages skips nothing, however the peers go on drawing.
* `Scenes`: the current scene has ended only while an `INCR` is outstanding or has
  failed, or where two first clients raced; a scene is passed only when it has
  ended, unless a late start made it anew or two clients that ended an earlier
  scene both counted the id up; a late-comer gets the state that the
  history gives unless two updates of one module overlapped or a command
  failed; the unit falls back to an earlier scene only by a first client that
  found no scene and sets the first one late.
* `EndUnit`: the job's frame ends the scene whose time was up, or a later one if
  that one had been ended by another frame, started anew, or passed after a
  double end; a monitored unit is ended unless the
  job stops, a request fails or is never answered, or the frame is lost.
* `Chats`: the pages of a query are exact, of a running unit and of one that is
  stopped, unless the unit passed to another scene between two pages, or the peer
  began with an id beyond the list.
* `LocalSets`: the process ends when the first terminal is entered after a full
  report, and never otherwise.
* `Cleanup`: the lists of a unit that runs all the while are deleted only after a
  failure or with a token that has expired; the program ends if the keys fit one
  page of `SCAN`, there is a unit at all, and no unit's request hangs for good.

The eleven units of `MCUnits`: instructions to modules from two connections; three
connections that all end the unit; chat with a query that begins at the end and one
that begins at an id; the job alone with two connections it dials, and with a
teacher who ends the unit himself; a local control that reports and takes back, and
one whose full report has terminals in it; and the clean-up over three contents of
redis: two units that fit a page, a page too many, no unit.

Deadlock is not checked: all peers may fall silent for good, the process may have
crashed and the hub may be stuck.

### Disagreements between code and comments

Six runs expect a violation; each checks one sentence of the source.

* `doc_active` / `ClientsAreActive` – "Hub maintains the set of active clients"
  (`ndscloud/hub.go:17`).  The time-out tests `isRegistered`, the registration
  sets it, the time-out evicts, the registration's `register` request
  (`processor.go:55`) lists the client again, with a closed channel.
* `doc_forced_login` / `ForcedLogin` – "Force other terminals to disconnect"
  (`ndscloud/client.go:169`).  Two logins both see nobody and both register.
* `doc_one_writer` / `OneWriter` – "at most one writer to a connection"
  (`ndscloud/client.go:253`).  `notice`, `logout` and `forceLogin` write too.
* `doc_individuals` / `IndividualsAreServed` – individuals in `to`
  (`ndscloud/hub.go:185`, `message.go:197`).  Without a group, `hub.go:203`
  writes to a nil map.
* `doc_local` / `FullReportIsTaken` – "clear the local terminals there are and take
  those in the message as the new ones" (`ndscloud/processor.go:132`, in Chinese).
  `:133` replaces the sets by `new(LocalUserSet)` and `new(LocalDeviceSet)`, whose
  maps are nil: the first `Add` panics and ends the process.
* `doc_pms` / `PassedIsSaved` – "read the ink stream from redis and write it to the
  file", "page by page" (`cmd/persistent_pms.go:227`, `:251`, in Chinese).
  `:254` adds `(i-1)*length` to a `start` that has been advanced before: the pages
  begin at 0, 100, 300, 600, so from the third page on strokes are skipped, and
  the offset stored at the end passes them.

### Bounds

`MaxFrames` (frames per peer, 0 to 2), `Kinds`, `Tos` and `Events` limit what the
peers do; `Cap` (256 in the code) is 1 or 2.  One frame after another is enough
for a handler to meet the effects of an earlier one (logout and then a message,
register and then a logout); a channel is full with one or two messages as it
is with 256, and the hub looks only at "full".  Two connections with one id are
what forced login is about and the third gives the hub somebody to broadcast
for; the fourth makes that two receivers, one of whom may go between the first and
the second.  Time is not counted: a time-out, a lost peer or a ping may come at any
moment at which the code waits for it, in instances whose `Events` allow it.

In `Nstat`, channels of one item and batches of two (10 and 10 in the code) are
full, empty and partly drained within three logs, and two attempts (3) have a
first, a last and a repeat.  In `PersistPms` a page is two strokes (100):
`pms` reads one page, two pages and a short page, `doc_pms` the third, from which
on the code goes wrong.  In `Units`, `MaxScene` lets every frame that ends a scene
count up, `MaxFailures` and `MaxLapses` are one, because each property names what
one failure may break, and `PageSize` (100 keys) is three.  A query begins at the end
or at id 3 (`FirstIds`), which the list of four has at once, later or, with the scenes
behind it, never.

## 5. Fairness

`FairSpec` assumes of the implementation, never of a peer:

* a goroutine that can run does (weak fairness for the hub's delivery and for the
  end of a websocket write, which `SetWriteDeadline` bounds);
* a send to the hub that is possible again and again succeeds (strong fairness
  for `Serve`, `Countdown` and `ReadStep`): Go's `select` picks at random among
  ready channels and the senders on one channel queue up in order;
* `writePump` takes from `outbound` although its ticker may also be ready
  (strong fairness, the same `select`);
* timers fire, and a read from a websocket that the server closed fails.

Nothing is assumed about frames, drops and pings.

`Nstat` assumes weak fairness of every step its goroutines take alone, and strong
fairness where a `select` has `stopCh` among other ready channels.  Creating and
closing the Kafka client is taken to return.  A request to the service is taken to
have an outcome, and to be never answered is one: `http.Client{}`
(`consumer.go:151`) has no time-out, so the consumer may be `hung`, and the
properties say what follows.  Nothing is assumed of the database, of messages and of
the operator.

`PersistPms` assumes that "save" goes on with the step it is at and is started again
(it runs from a timer outside the repository); its failures are bounded.  Its
requests have no time-out either: here a run that hangs is taken to be killed,
because the next one is another process.

`Units` assumes weak fairness of the job's `monitor`, of the server for a connection
the job made, and of the clean-up's `main` and goroutines.  A redis command is
answered or fails.  A request to the platform (`cleanup_unit.go:142`,
`oauth2.go:55`, no time-out) is answered, fails, or hangs for good.  What happens
between the job's dialling and the server's `NewClient` is one outcome,
`FrameLost`.  Nothing is assumed of peers, keys, tokens and what the course platform
answers.

## 6. What is proved

The theorems hold for every value of the constants that the modules' named
assumptions allow: types, disjointness, finite sets, and capacities and limits
of at least one where the code has a constant above that.  `Spec` has no
fairness, so none of them depends on scheduling.  Three carry a hypothesis of their
own, given below.

### The server (`CloudProofs`, `BroadcastProofs`)

Any connections, units, finite set of ids, `Cap > 0`, frames and events.

* `TypeCorrect`: `Spec => []TypeOK`.  `TypeOK` is not inductive: delivery takes
  the head of `todo`, an inbound request the fields of `pending`, a forced
  unregister `old`.  `TypeInv` adds that these exist where they are used (`Busy`,
  `HasMessage`, `HasOld`).
* `ListedIsAlwaysReachable`, `CacheStaleOnlyAcrossUnits`,
  `EvictedStaysOutUnlessRegistered`, `OrphansHaveTwins`, `PanicsExplained`,
  `SendersHaveCaches`: the six properties of the runs, from one inductive
  invariant `SafeInv == TypeInv /\ Tables /\ Goroutines`.  `Tables` relates the
  table, the caches and the closed channels; `Goroutines` says what each
  goroutine may rely on at each place (it has logged in, whom it is about to
  force out, who is allowed to ask the hub for what).  The proof has one lemma
  per hub operation (`AddTables`, `UnlistTables`, `AcceptTables`,
  `DeliverTables`) and one per goroutine.
* `ServerImplementsBroadcast`: the step simulation.  Beyond `SafeInv` it needs
  that nobody is twice among the receivers still to be served
  (`ReceiversAreDistinct`, because the mapping takes `todo` for a set) and that a
  frame is handed to the hub before the next one is read (`PendingIsOnItsWay`,
  because the mapping takes the number of frames read for the number of the
  sender's next message).
* `OutboundIsInOrder`: proved of `Broadcast`'s actions and carried over by the
  refinement.  The invariant `OrderInv` adds that all numbers in channels are
  spent and that the message on its way is later than what its remaining
  receivers hold of its sender.

### The statistics pipeline (`NstatProofs`)

Any messages, rosters, number of logs, channel, batch and attempt limits.

* `TypeCorrect` and `NilPanicsOnlyInShutdown`: `TypeInv` adds to the types that
  collector and processor hold something exactly while they are to send it and
  that only a processor that has stopped has closed its channel (`Places`), that
  nothing but messages and what `handle` made of them is in the channels
  (`Flow`), and that the consumer's batch is empty between two batches
  (`AtRest`).  A closed `outbound` then implies a closed `stopCh`, which is the
  second theorem.
* `NoOvertaking`, `NothingIsLost`, `PrefixIsCommitted`, `RecountsAreAttempts`: one
  invariant, `FlowInv`.  A log is `Waiting` (from `inbound` to `outbound`, with
  the processor's hands between), `InBatch`, or `Counted` by the service;
  the waiting ones rise and are above all others; a batch is wholly above what
  is counted, or counted again as part of it.  That last disjunction is what a
  attempt without an answer leaves and what makes the invariant inductive:
  `CommitFactors` sends the batch in one POST, and where only the answer is lost
  the retry has the service count all of it again.
* `ServiceCountersAgree`: the totals the service keeps are sums over all requests
  it has applied, so the argument has two halves.  Of a single log,
  `FactorsAgree` says for each kind of message that the factors `handle` makes of
  it move the compared counters alike; `Handled`, a part of `TypeInv`, keeps that
  of all factors on their way, through however many repeats.  Of sums,
  `SumsAdd` says that a sum of sums is the sum of both, by induction over the
  set of indices (`FromSetToSet`), and `TotalsAgree` puts the two together.

### The ink files (`PersistPmsProofs`)

Any users, page length, number of pages, strokes, failures and deletions.

* `TypeCorrect`; `ShortRunsLoseNothing`, from `ShortInv`: after a run's first page
  the file holds everything from the offset read to the end of that page, after
  the second to the end of that one, unless `del` has unlinked the file the run
  has open.
* `ReplaysAreInOrder`, `RepeatsStayBounded` assume `ListsFit`: no list is as long as
  the last page of a run reaches.  The attempt to prove them without it found
  the reason: a last page that is full leaves `start` where it was, so the
  offset stored is the beginning of the page, and the next run appends it again
  without any failure.  In the code a run reads up to 1023 pages of 100, the
  last of which begins beyond 52 million strokes; lists of a lesson are far from
  it, and the constants of `pms` and `doc_pms` satisfy `ListsFit`.
  `ReplayInv` says that everything in the file is from before the place where the
  next append begins, `RepeatInv` counts the occurrences of a stroke still to
  be appended against failures and deletions.

### A unit and all that work on it (`UnitsProofs`, `ScenesProofs`, `CleanupProofs`)

Any connections and plans, modules, scenes, terminals, chat and limits, course
units, keys, page size of `SCAN`, tokens and failures.

* `TypeCorrect`: what a connection holds at each of its steps (`ConnInv`), that
  `monitor` is at a scene when it asks about one, that the clean-up's channel
  holds at most one answer per unit found (`AnswersInv`), which is its capacity.
* `ListingsAreFaithful` (`ListInv`): what a listing has collected so far against
  the terminals that were there all the while.
* `PagesAreExact` (`ChatInv`): the rows a peer has put together are the last ones
  up to the message it asked for, each under its own position (`Together`), and the
  next page ends right before them (`NextPage`); before the first page there is
  nothing (`Begins`).  Pages of a stopped unit are included, as long as they are of
  one scene.  It assumes `Limit # 0`: `ServeChats` accepts `limit=0` and answers with
  an empty page (`handler.go:420-496`), so that a peer who pages with it gets
  nothing and is at the end.
* `CurrentSceneStaysOpen` (`ReachedInv`): unless two first clients have raced, no
  scene after the current one has ended, no client is at one, and a client that
  is about to set the first id is alone.
* `PassedScenesHaveEnded` (`PassedInv`): whoever has set
  `end_time` left a scene that has ended or was started anew, and a scene that
  the unit, or a client, is beyond was counted up by a client that ended it, or
  by one too many of an earlier one.
  The proof needed the exception for scenes started anew: a start that comes
  after the end overwrites the record (`processor.go`, `UnitControlMsg`).
* `SceneFallsBackOnlyByLateFirst` (`SetBefore`): where a unit has a scene id, some
  client that found none has gone on from setting it; so whoever lowers it, by
  setting it to 1, comes after another.
* `JobEndsTheRightScene` (`KeyInv`): keys are set only for scenes that were the
  current one, and all the job goes by, from the scan over the Bus to its
  connection, are such keys.  Proving it for all plans showed three
  exceptions that the plans of `units` had not met (a scene started anew, a
  double end before it, the race of the first clients); the property now names
  them.
* `HistoryIsWhatLateComersGet` (`StatusInv`): a module's state that no two
  connections have updated at the same time is the replay of its history, or
  will be when the only connection between `RPUSH` and `HSET` has put its own
  instruction, the last of the history, to what it has read, and what it has
  read is still what is stored.  `ReplayAppend` gives what one more instruction
  does to the replay: the folds over a history and over the longer one agree on
  all that came before, by induction over its length.
* `OnlyExpiredScenesAreEnded` (`WatchInv`): what `monitor` knows of the scene it is
  at, between its `GET`, `TTL` and the dialling.
* `ListsOfStoppedUnitsGo` (`CleanInv`): what is on its way to the deletion (in a
  goroutine, in the channel, at `main`) is a unit that may go: it has been seen
  stopped, or something failed.  `TokenInv` carries the shared cache: as long as
  nothing goes wrong every cached token is one the platform accepts.  Every unit
  found has been heard of when `main` has received as many answers as units.

### Induction and folds

The library's induction theorems take a predicate as parameter, which the
provers cannot instantiate.  `FromNumberToNumber` and `FromSetToSet` of
`DataLemmas` take a set in the predicate's place, that of the numbers or the
subsets for which the claim is shown, and are proved from the least element of
a well-founded order.  A fold is a recursive function that the library defines
with CHOOSE: `FoldExists` shows that such a function exists, so that the chosen
one obeys its equations.  `SumType` and `ReplayTaken` are its uses.

### Only model-checked

* The liveness properties `BroadcastEnds`, `EvictedIsDisconnected`,
  `ReadPumpEnds`, `SilentIsEvicted`, `StopEndsAll`, `LogsAreCounted`,
  `OffsetCatchesUp`, `MonitoredIsEnded`, `ProgramEnds`: they rest on fairness, whose
  ENABLED is out of the prover's reach.
* The violations of section 4, which are counterexamples.
