# realtimehub in TLA+

realtimehub sends notifications to browsers. An administrator posts a notification for some users; the server writes
one row per recipient to PostgreSQL, gives it the next sequence number (seq) of that user, and publishes it on the
user's Redis channel; every node that holds a WebSocket of the user is subscribed to the channel and pushes the frame
to the sockets. Browsers acknowledge what they render; after a reconnect they tell the server the last seq they have
seen and the server replays what lies behind it.

This directory holds the specification of the parts where this can go wrong, the TLC configurations that check them on
small instances, and machine-checked proofs, for every size, of the safety properties of all of them.
Paths below are relative to the repository.

## 1. Inventory

| Component | State | Operations | Talks to |
|---|---|---|---|
| Notification store: `internal/adapter/postgres/notifications.go` | tables `notifications`, `user_offsets`, `delivery_offsets`; row locks; the pool | `Create` (a transaction), `RecordAck`, `MarkRead`, `SinceSeq`, `CurrentSeq`, `AckedSeq`, `ListByUser`, `UnreadCount` | called by the use cases and by the socket server |
| Connection: `internal/adapter/websocket/connection.go` | `closed`, channel `out`, mutex `mu`, the socket | `EnqueueRaw`/`SendFrame`, `startWriter`, `Close` | shared by broadcaster, handlers, reaper, `OnClose`, writer |
| Hub registry: `internal/adapter/websocket/hub.go` | shards of connections, `connCount` | `Register`, `Unregister`, `SendToUser`, `Broadcast`, `tick` (reaper) | asks the Subscriber on the first and the last connection of a user |
| Redis bridge: `internal/adapter/redis/pubsub.go` | refcount per user, one dedicated Redis connection | `Publisher.SendNotification`; `Subscribe`, `Unsubscribe`, `handleMessage` | Hub, Redis |
| Socket server: `internal/adapter/websocket/server.go` | nothing of its own | `handleUpgrade`, `handleMessage`, `handleAck`, `handleResume`, `OnClose` | store, Hub, connection, browser |
| Send use case: `internal/app/usecase/send_notification.go` | nothing | `Execute`: persist, then publish, recipient by recipient | store, publisher |
| Browser client: `web/src/hooks/useWebSocket.ts`, `web/src/store/notificationsSlice.ts`, `web/src/pages/Dashboard.tsx` | `items`, `unreadCount`, `lastSeenSeq`; socket, reconnect timer | `connect`, `onopen`, `onmessage`, `onclose`; `receive`, `setInitial`, `markRead`, `clearAll` | socket server, REST API |
| REST API: `internal/adapter/http`, `internal/app/usecase/list_notifications.go` | nothing | list, mark read, send, login, validate a token | use cases |
| Client session: `web/src/App.tsx`, `web/src/pages/Login.tsx`, `web/src/components/layout/Header.tsx`, `web/src/store/authSlice.ts`, `web/src/lib/api.ts` | `auth.user`, `auth.token`; the token in localStorage, shared by the tabs | login, restore at boot, logout, `api` | REST API, the stores of the client |
| Reaper and heartbeat: `hub.go` (`StartReaper`, `tick`), `connection.go` (`MarkPong`), `useWebSocket.ts` (backoff) | `lastPong` per connection; reconnect timer and attempts per tab | ping, evict, pong, reconnect | Hub, client |
| Migrations: `internal/adapter/postgres/migrate.go` | `schema_migrations` | `Migrate` at boot | PostgreSQL |
| Process: `cmd/server/main.go` | what is wired and listening | `run`: boot, serve, drain, exit | all of the above |
| Authentication: `internal/adapter/auth` | a fixed list of users | sign, verify, role check | REST API, socket server |
| Configuration, tracing, widgets, load test | none over time | | |

What is hard in each of them, and what makes it correct:

- **Store.** Transactions of one user overlap and any of them may fail or lose the answer of its COMMIT. Correct: seqs
  are gapless, unique and become visible in order, otherwise a client that pages by `seq > cursor` skips a row for
  ever; acks only move forward.
- **Connection.** Five kinds of goroutine share a channel that one of them closes. Correct: closed once, no send on a
  closed channel, frames leave in order, a closed connection is torn down completely.
- **Registry and subscriptions.** First and last are decided under one lock, the refcount under another, the Redis
  command under none. Correct: counts do not drift; who is connected is subscribed; who has left is not.
- **Delivery.** Commit, publish, Redis, live push, handshake, replay, acknowledgement, initial REST load and reconnect
  overlap. Correct: no window between the welcome frame and the live stream, nothing lost, nothing twice, cursors that
  never pass what was rendered.
- **Client.** The store is written by the socket and by REST answers. Correct: a late answer does not undo a newer one.
- **Sending.** One request writes and publishes recipient by recipient, without a transaction around them; any call may
  fail or lose its answer, the server may stop in between. Correct: what an answer says of the store is true, and who is
  not told live is known.
- **Heartbeat.** The cutoff is computed before the shards are walked; pings wait in a channel, may be refused, and their
  answers travel. Correct: who answers is kept, who is silent goes in bounded time, who has lost the connection returns.
- **Boot and shutdown.** Nodes of several releases migrate one database at once, any of them may die between two
  statements, and a drain serves clients while its dependencies close. Correct: schema and record agree, nobody serves
  an older schema, every boot ends.
- **Sessions and REST.** No request is cancelled at a logout, every request takes the token that is stored when it is
  sent, a list is answered from several statements. Correct: the store belongs to the session, what is shown as read is
  read, the badge agrees with the list.

## 2. Modules

| Module | Models | Kind |
|---|---|---|
| `NotificationLog` | what the store promises (`internal/app/port/notification.go`): an append-only log per user, a monotonic ack, a follower that skips nothing | abstract specification |
| `NotificationRepo` | `postgres/notifications.go` at the grain of SQL statements and row locks | detailed; refines `NotificationLog` |
| `NotificationRepoProofs` | theorems about `NotificationRepo` | proofs |
| `Connection` | `connection.go` at the grain of atomic operations, channel operations and the mutex | detailed |
| `ConnectionProofs` | theorems about `Connection` | proofs |
| `Subscriptions` | `Hub.Register`/`Unregister` with `Subscriber.Subscribe`/`Unsubscribe` and the Redis command queue | detailed |
| `SubscriptionsProofs` | theorems about `Subscriptions` | proofs |
| `Delivery` | one user's notifications from the commit to the browser tabs; composes store, publisher, hub, server and client at the grain of their messages | system |
| `DeliveryProofs` | theorems about `Delivery` | proofs |
| `Inbox` | one tab and the REST API: sessions, list, unread counter, mark read | system |
| `InboxProofs` | theorems about `Inbox` | proofs |
| `SendNotification` | `Execute` over several recipients, overlapping requests on several servers | system; uses `NotificationLog` |
| `SendNotificationProofs` | theorems about `SendNotification` | proofs |
| `Heartbeat` | reaper, pongs and the client's reconnect in discrete time, with expiring tokens | detailed |
| `HeartbeatProofs` | theorems about `Heartbeat` | proofs |
| `Boot` | `run` and `Migrate` of several nodes against one database, signals and shutdown | system |
| `BootProofs` | theorems about `Boot` | proofs |
| `MC*` | instances for TLC | |

`Delivery` uses the other components by what they guarantee: the visible seqs are `1 .. lastSeq` (Gapless, proved),
frames leave a connection in order and a full buffer refuses (WireIsPrefix, proved), the first connection waits for
the SUBSCRIBE. `SendNotification` has `NotificationLog` for its store, which `NotificationRepo` implements: the property
`UsesLog` says that its commits are steps of that specification.

Operators marked "Mutated" in a comment are deliberate mistakes of the kind a change could introduce (a dropped guard,
an off-by-one, a missing lock). No specification uses them. Put in the place of the operator they stand before, each
makes a property fail: that is how we know that the properties see the code. `PROJECT.json` pairs them with
properties.

### How state and actions correspond to the code

**NotificationRepo.** `lastSeq`, `notifications`, `read`, `acked` are the committed tables; what a transaction has
written and not committed is in `nextSeq` and `pc`, since READ COMMITTED hides it. `lockedBy` is the row lock of
`user_offsets`, taken by the upsert and freed by COMMIT or ROLLBACK. `Create` waits for a connection of
the pool (`waiting`), then is `BeginTx` or `BeginTxFails`, `UpsertOffset`, `InsertRow`, `Commit`; `Rollback` is any error return with its deferred `tx.Rollback`, a cancelled context or a crash.
`Commit` has two outcomes for the caller, because the answer can be lost after the database has committed. The unique
index on `(user_id, seq)` is a guard of `InsertRow`. `Follow` is a caller that pages through `SinceSeq` from the last
seq it was given, the way resume is meant to be used. `RecordAck` and `MarkRead` are single statements and so single
steps; a claim is any member of `Claims`, and like the code `RecordAck` compares it with nothing but zero and the
recorded one. Queries that only read (`CurrentSeq`, `AckedSeq`, `ListByUser`, `UnreadCount`) have no step of their own here.

**Connection.** `pc` places each goroutine inside the functions of `connection.go`: `LoadClosed`/`Enqueue`/`Refused`
are `EnqueueRaw` and its caller (`SendToUser` closes, the others ignore the answer); `CompareAndSwap`, `CloseOut`,
`LockToClose`, `CloseSocket` are `Close`; `ReceiveOut`, `LockToWrite`, `Write` are the writer's loop. `SocketClosed` is
the `OnClose` callback (unregister, then `Close`). `accepted` and `wire` are bookkeeping. A send on a closed channel
sets `panicked` and ends the behaviour: a recovered panic would end the call in the same way.

**Subscriptions.** One goroutine per connection: `RegisterInsert` (shard lock), `CountUp`, then for a first connection
`SubIncr` (refcount lock), `SubSend`, `SubReply` or `SubError`/`SubRollback`; `Unregister` (shard lock), then for a last
one `UnsubDecr`, `UnsubSend`, `UnsubReply` or `UnsubError`. `queue` is the dedicated Redis connection, which keeps the
order of the commands; `Execute` is Redis. A call that times out may or may not have been executed. `LoseDedicated` is
the end of that connection: every subscription is gone, the calls that wait on it fail, and so does every later one,
since nothing reads `hookErr`.

**Delivery.** `sub` is what Redis has of the user's channel, `ref` the refcount of the Subscriber and whether its first
caller still waits. Per tab: `conn` is the progress of `handleUpgrade`, `handler` that of `handleResume`, `up` and
`down` the two directions of the socket (`down` includes the bounded channel), `opened`, `items`, `lastSeen`, `fetch` the browser.
`Persist`/`Publish`/`PublishFails` are the send use case, `SendToUser` the pub-sub hook, `Register`, `SubscribeDone`
or `SubscribeFails`, `ReadCurrentSeq`, `SendWelcome` the handshake, `HandleAck`, `HandleResume`, `ReadMissed`, `Replay`
the inbound handlers, `Connect`, `OnOpen`, `OnWelcome`, `OnNotification` the hook, `FetchReads`, `SetInitial`, `FetchFails`,
`Remount`, `Reload` the page. `ReadCurrentSeqFails`, `RecordAckFails`, `ResumeUnconfirmed` and `ReadMissedFails` are the
statements of the handlers that fail or pass their deadline: the code goes on with 0, without the ack, with the client's
own cursor, or not at all. `SubscribeFails` is an error or the 5 s timeout: the reference is rolled back, Redis may apply
the command later or not, and the handshake goes on (`hub.go:129`). `LoseDedicated` is the end of the dedicated
connection, after which every SUBSCRIBE fails. The rest is bookkeeping for the properties and the bounds: `shown` is
every seq a tab has rendered, `past` what is older than an initial list that was cut at `ListLimit`; `whole` says that
the connection began without a gap, that no replay was cut, that no resume began behind something the tab did not have
(`AckCovers`), that none was served while the channel was not routed, and that the dedicated connection lasts; `early`
are the tabs whose handshake went on while the channel was not routed; `failed` and the four counters.

**Inbox.** `session` is the auth slice (user and token are set together), `stored` the token in localStorage, `table`
the `read_at` column by user and seq, `items`, `unreadCount`, `lastSeenSeq` the notifications slice with its four
reducers as operators. `reqs` are the requests of the tab, each with the token it was sent with: a list is served by
`ServeList` (`ListByUser`) and `ServeCount` (`UnreadCount`), a mark by `ServeMark`; the answers are the continuations
of the `api` calls in `Dashboard.tsx`, `NotificationList.tsx`, `Login.tsx` and `App.tsx`. `Fails` is a refusal or a lost
answer. `OtherTabStores` and `OtherMarks` are what other tabs and other clients do to the shared state.
`OnNotification` lets any committed row of the session's user arrive, in any order. `crossed` and `mixed` are
bookkeeping.

**SendNotification.** `call` is one activation of `Execute` per request: `Arrive` the middleware and the checks, then
`Create`/`CreateFails` and `Publish`/`PublishFails` per recipient, in the order of the list. A failed `Create` ends the
call with 500 and may have committed; a failed publish is logged, may have reached Redis, and the loop goes on. `Crash`
stops a server with all its calls. An administrator who tries again is another request. A row is known by the request
and the position it was written for; `channel` is what Redis has taken, subscribed or not.

**Heartbeat.** Instants are kept as ages. `Advance` lets one unit of time pass, unless something is due: the reaper may be
late by `MaxLate`, a pong by `RoundTrip`. `TickBegins` computes the cutoff and takes the snapshot, `Check` looks at one
connection of it and evicts or pings. `CutOff` breaks a link silently: only the reaper, or `Notice`, finds out.
`Reconnect` is `onclose` with `scheduleReconnect`, `Connect` the timer, `Handshake` a `handleUpgrade` that lets a
valid token in, `Refused` the 401 of an expired one (`Expire`) or a server out of reach, which the tab cannot tell apart.

**Boot.** `stage` is how far `run` is. `Migrate` is `CreateTable`, then per version `CheckVersion`, `ExecBody`,
`InsertVersion`, `Commit`; PostgreSQL lets a transaction wait that creates an object, or inserts a key, another one has
not committed yet (`blocked`, the guard of `InsertVersion`). `Loses` is the error that follows when the other one
commits; `Fail` is any other error, a kill, or a signal up to the last statement of `Migrate`,
whose statements take the context it cancels; all of them end the process, as `main` does. `StartSubscriber`,
`SetTracker`, `Listen` are the wiring in its order. `Accept` is `Register` for a client, which is routed, or stays
unrouted for a reason: `failed` when Redis has refused the SUBSCRIBE or dropped the dedicated connection (`Break`),
`deaf` otherwise. `Signal` may come at any point after the migrations: `run` does not look at the context before its last
lines (`Drain`, `Stop`), while the goroutine of `Subscriber.Start` gives the dedicated connection up at once (`Release`),
so a node signalled during its boot goes on to listen and serves unrouted clients until it drains.

## 3. Runs

Every module has one type invariant (`TypeOK`), which a passing run checks besides the properties named here; `delivery`
does it for `Delivery`.

| Run | Instance | What it shows |
|---|---|---|
| `repo` | 2 users, 3 creates, pool of 2, pages of 1 row, claims of 0, 1 and one beyond the log; `FairSpec` | SeqsAreSound (gapless, not shared), NothingSkipped, CreatedIsDurable; the store implements `NotificationLog`; every call returns |
| `subscriptions` | 2 users, 3 connections, 2 failures of a Redis call or of the dedicated connection; `FairSpec` | CountersAccount, NothingLeaks; the only way to lose a subscription while nothing fails is the race in which a first connection takes its reference while an UNSUBSCRIBE is decided and not sent (SubscribedUnlessRaced); calls return |
| `subscriptions_race` | 1 user, 2 connections | HeldIsSubscribed fails: that race leaves a connected user without a subscription |
| `connection` | a broadcaster, a handler, the reaper, `OnClose`, the writer; buffer 2, 3 frames; `FairSpec` | ClosedByOne, WireIsPrefix; closing completes; an accepted frame is written or the connection ends |
| `connection_panic` | buffer 1, 1 frame | NoPanic fails: `EnqueueRaw` loads `closed`, `Close` closes the channel, `EnqueueRaw` sends |
| `delivery` | 2 tabs, one of them opened on the dashboard, 2 notifications, buffers of 1, pages and initial lists of 1, 1 failing SUBSCRIBE, 1 overtaking publish; the tabs are interchangeable | HandshakeClosesWindow, NothingLostWhileConnected, AckedWasShown, ListAgrees |
| `delivery_live` | 1 tab, 2 notifications, buffer 1, pages of 2, 1 disconnect, 1 upset, 1 failing SUBSCRIBE; `FairSpec` | a connection that stays up and whole renders every published notification |
| `delivery_loss` | 1 tab, 2 notifications, 1 disconnect | NoLossAcrossDisconnects fails: a live frame ahead of the welcome frame suppresses the resume |
| `inbox` | 2 users, 2 notifications, 2 overlapping requests, pages of 1 row | ReadIsStored; CountCoversList, up to a list whose rows and count another client's mark has come between; StoreIsOwn, up to an answer or a session that crosses into another session |
| `send` | 2 requests, lists of up to 3 recipients with blanks and one named twice, 2 servers, 2 failing calls | AnswersAreTrue (a 201 is complete; the rows of a failed call are the first of its list), FramesAreRows, SilenceIsKnown; the store is used as the log it is |
| `heartbeat` | 1 tab, 2 connections, interval 2, timeout 6, lateness 1, round trip 1, 1 lost ping; `FairSpec` | LiveIsKept, SilentIsEvicted; a tab that has lost its connection comes back |
| `boot` | 2 nodes of one release, 1 of the next with one more migration, tables made by hand or not; one node is served, signalled and cut off from Redis; `FairSpec` | SchemaIsRecorded, ServesMigrated, ClientsAreRouted; every boot and every stop ends |

An upset is a reload, a return to the dashboard, the failure of a publish, of the initial load or of a statement of a
handler, or the loss of the dedicated connection.

### What the violations say

- `connection_panic`: "Safe to call from any goroutine" (`connection.go:111`) does not extend to a concurrent
  `EnqueueRaw`. In Go a send on a closed channel panics, also inside a `select` with a default.
- `subscriptions_race`: "Concurrency-safe" (`pubsub.go:115`) holds for the map, not for the order in which the commands
  of two callers reach Redis. The user stays without live notifications until the next first connection.
- `delivery_loss`: a live frame may arrive ahead of the welcome frame, since the connection is registered before
  `current_seq` is read and the welcome sent. The initial list of a tab is empty, and 1 is published while Redis does not route the
  channel; the connection breaks, once, before the tab has rendered anything. After the reconnect 2 arrives live ahead of
  the welcome frame and raises `lastSeenSeq` to 2; `current_seq` is not above that, so the tab sends no resume
  (`useWebSocket.ts:76`); in `onopen` it had none to send; and 1 is never fetched
  ("No-message-loss across disconnects", `README.md:107`).

### What the exceptions of `delivery` say

`whole` and `early` name the executions in which the two properties about lost notifications fail, and these are real.
A handshake is early in three ways. Only the first connection of a user waits for the SUBSCRIBE; a second one
(`hub.go:126`) reads `current_seq` while Redis does not route the channel yet. When the SUBSCRIBE fails or times out, the
error is logged, nobody tries again, and the handshake goes on (`hub.go:129`): unless Redis applies the command later,
the tab stays unrouted for as long as it is connected, and so do those that join it. And when the dedicated connection
is lost, all of them are (`pubsub.go:24`). What is published then is neither in the welcome nor live. "Sequence recovery
handles any in-flight notification missed during this window" (`pubsub.go:22`) is true of it only if the resume is
served while the channel is routed (`ReadMissed`). `delivery_offsets` has one row per user, so the ack of one tab moves
the resume cursor of the other past what that one has rendered, and the gap is not replayed (`AckCovers`). A
page that is full, or a frame the write buffer refuses (`handleResume` ignores what `SendFrame` answers, `server.go:292`), cuts the replay.
What is older than the 50 rows of an initial list is not counted as lost: the tab has left it to the store.

One more disagreement can be read off `Delivery` and has no run of its own: the answer of the initial GET replaces the
list and `lastSeenSeq`, also when a live frame has arrived since the snapshot was read.

### What the exceptions of `inbox` say

The two bookkeeping variables name exactly the executions in which the properties fail, and these are real. `crossed`:
after a logout the answer of a list still under way fills the store of the login page and of the next session, whose
socket then resumes from another user's `lastSeenSeq` and drops live frames with a seq that is already listed; the
validation of a cached token that is answered after a login replaces that session without clearing its store; a token
stored by another tab makes this tab list another user's rows. The next answered list of the session heals it.
`mixed`: the rows are read before the count, so a mark by another client in between leaves a row listed as unread that
the count does not include. This is also why `markRead` must not count below zero (TypeOK).

### What the other models show

In `Subscriptions` a SUBSCRIBE that times out after it was sent is executed by Redis while `SubRollback` drops the
reference, and since `Register` does not retry, the later `Unsubscribe` finds no reference and leaves the channel
routed. A SUBSCRIBE that fails, and the loss of the dedicated connection, which `pubsub.go:24` documents, leave users
connected and unrouted: the properties about subscriptions therefore hold only while nothing has failed, those about
counters and calls always.

In `NotificationRepo` an ack is what a device says. The store promises that the record moves forward and nothing more:
it may lie beyond `last_seq`, and the resumes of every device of that user then start there, so "survives client lying
about its seq" (`README.md:108`) is true of a client that claims too little. That the shipped client claims only what
a tab has rendered is AckedWasShown, in `Delivery`.

In `Boot` the loser of a race for a migration exits although nothing is wrong, and relies on being started again: it
then finds the version recorded. The signal that begins the drain also releases the dedicated connection, so clients
are served unrouted until the engine stops, and a signal during the boot is noticed by `run` only after it listens. A
failed SUBSCRIBE or a lost dedicated connection leaves clients unrouted too. ClientsAreRouted says that there is no
other reason.

`TimeoutAssumption` of `Heartbeat` is `PongTimeout >= (MaxLost + 1) * PingInterval + MaxLate + RoundTrip`. The instance
has the least timeout it allows, 6; with 5, TLC finds a client that answers and is evicted. The defaults of the code
(25 s, 60 s) meet it for one refused ping as long as the reaper's lateness and the round trip together stay within 10 s.
With two refused pings in a row a client that answers would be evicted.

### Bounds, and why they are enough

The constants in the `.cfg` files are small, and every unbounded quantity has a named bound in a guard: `MaxErrors`,
`MaxFrames`, `MaxSeq`, `Lists`, `MaxRows`, `MaxReqs`, `MaxDrops`, `MaxUpsets`, `MaxLapses`, `MaxOvertakes`,
`MaxFailures`, `MaxOutages`. `Creates`, `Sends` and, in `Subscriptions`, `Conns` are sets of calls and connections that
each happen once; `Claims` are the acks of `NotificationRepo` and `Served` the nodes of `Boot` that are served.

- Store: three calls give two that compete for one lock and one that commits in between; two users show that locks of
  different users do not interfere; a pool of two and pages of one row make both limits bite.
- Subscriptions: a leaving last connection, an arriving first one and one more that leaves again is the longest pattern
  in which the two locks can disagree; it needs three connections. Two failures are a call that fails and a dedicated
  connection that is lost after it.
- Connection: one goroutine of each kind is enough to have any two of them in `Close` or on the channel at once; a
  buffer of two with three frames fills, refuses and drains.
- Delivery: two tabs are one that is connected and one that comes after it, or two whose acks move one cursor; two
  notifications are one missed and one that overtakes it or is replayed; buffers and pages of one cut both. The
  defaults of the code (64 and 200) are never reached with two frames, so small values are what makes these
  limits visible; so are the list limits of the client (`ListLimit`, 50 rows; `KeepLimit`, 200 items). `Lists` says
  how many tabs open on the dashboard and load a list: one of two, the other opens on the admin page. Disconnects, page loads and failing
  statements together with two tabs are too many states for a short run: `delivery_live` has them with one tab, and the
  theorems have them all.
- Inbox: two users, since a session is confused with at most one other; two requests, so that one can be overtaken by
  another or by its own session's end; a page of one row with two rows, so that the count exceeds the list.
- SendNotification: two requests that write to the same users on two servers; the lists have a blank first, in the middle,
  and a user twice; two failures can hit one call twice or both calls.
- Heartbeat: the timeout is the least one the assumption allows, so that lateness, a lost ping and a slow pong
  all count; two connections, so that a silent one is open beside its successor. Ages end at `MaxAge`.
- Boot: three nodes are two that race and one that is behind them or of another release. `Served` are the nodes that
  clients come to, that are signalled after their migrations and whose dedicated connection breaks: one, since nodes
  affect each other only through the database. The theorems have any.

`repo`, `subscriptions`, `connection`, `delivery*` and `send` set `CHECK_DEADLOCK FALSE` because they end when their
calls, connections or notifications are used up; `inbox`, `heartbeat` and `boot` never end and check it.

### Fairness

Only steps of a goroutine, of the browser's event loop, of Redis or of the database are fair, never a failure, a new
call, a disconnect or a page load. `NotificationRepo`: the pool serves who waits, a transaction that has begun is driven on; a
failing one may end by `BeginTxFails` or `Rollback` instead. `Connection`: weak fairness of every goroutine that
has begun something, and strong fairness of taking the mutex, since `sync.Mutex` hands itself to a waiter that has
starved for a millisecond. `Subscriptions`: goroutines and Redis. `Delivery`: goroutines, Redis, and a client whose
finite backoff always ends in another `connect`; a publish is attempted or fails. `Heartbeat`: time, the reaper, pongs,
timers and handshakes; nobody has to log in, and outages are bounded. `Boot`: strong fairness of the steps of a boot,
since the lock queues of PostgreSQL let every waiter have its turn however often others come and go, and weak fairness
of `Drain` and `Stop`, which ends after ten seconds at the latest; nobody has to start a node again. `SendNotification` is checked
for safety only.

## 4. Proofs

`tlapm` checks every theorem from the named assumptions of the modules alone: finite sets of users and calls, positive
sizes, a marker outside the set it marks, and in `Heartbeat` a timeout that leaves room for what may be lost or late.

**NotificationRepoProofs.** The invariants the run checks are not inductive: that a commit extends the log at its end
depends on the committing call still holding the lock since its upsert. `IInv` adds `LockInv` (a call past its upsert
holds the row lock of its user, nobody else holds one, and `nextSeq` is `lastSeq + 1`), `RowInv` (a row belongs to the
call that wrote it, ids and seqs are unique, the table is finite), `FollowInv` (the follower holds exactly the visible
rows up to its cursor) and `ReadInv`. One lemma per action shows that it preserves `IInv`. From it follow, for any
number of users, calls, connections, any page size and any claims: `TypeOK`, `Gapless` and `NoSharedSeq`, together
`SeqsStaySound`, `NothingSkipped`, `CreatedIsDurable`, the action property `AppendOnly`, and
`RepoImplementsLog`: under the refinement mapping a commit is an append, the single-statement operations are themselves,
every other step is a stutter.

**ConnectionProofs.** `IInv` adds `LockInv` (whoever writes or closes the socket holds the mutex), `CloseInv` (between
the compare-and-swap and the close of the channel one goroutine is on its way and the channel is open) and `WireInv`
(while the writer lives, the accepted frames are those on the wire, the one in its hands, those in the channel). From
it follow, for any number of goroutines and any capacity: `TypeOK`, `ClosedByOne`, `SocketIsGuarded`, `WireIsPrefix`.

**SendNotificationProofs.** What a call has done is a matter of how far it is: `IInv` adds `LogInv` (a row belongs to
the recipient it was written for, at a position its call has passed or stands at, and in the second case the call has
come to the publish, or ended there), `SeqInv` (a call about to publish knows the seq of its row), `FrameInv`
(`FramesAreRows`, and the call has left the row of every frame behind: so the frame it sends next is a new one),
`PrefixInv` (everybody a call has passed is blank or has a row), `SilenceInv` and `PostedInv`. The loop is proved once,
for its start and for both ends of a publish; that `Following` skips blank recipients only rests on the least element
of a set of naturals. It follows, for any number of requests, servers, recipients and failures: `TypeOK`,
`FramesAreRows`, `SilenceIsKnown`, `RowsArePrefix`, and the refinement `UsesLog`: since no log holds a row at the
position a call stands at before its `Create`, every commit is an append of a notification that is new.

The answer needs an invariant of its own, `OutInv`: entry by entry, it names the recipients that a call has passed,
each with the seq of the row at its place. The list of a request is compared by the number of named recipients up to a
position, not by a filter of the sequence, which would be a recursive definition: this is how `CreatedIsComplete` is
stated. With `RowsArePrefix` it gives `AnswersAreTrue`.

**SubscriptionsProofs.** The two counters are about sets of goroutines between two locks, so most of the work is what a
step does to the cardinality of such a set. `IInv` adds `RegistryInv` (who is in the registry), `EnterInv` (of one user
at most one goroutine is on its way through `Subscribe` with a first connection), `RefInv` (the bound of a refcount that
remains when a failed SUBSCRIBE has dropped its reference), `ErrorInv`, `QueueInv` (who has sent a command waits for
the reply) and `RouteInv`: what Redis will have routed once it has executed its queue, `WillRoute`, follows the
refcount, unless the user lost the race. That the channel is routed *now* is not inductive: a SUBSCRIBE may be behind an
UNSUBSCRIBE in the queue. It follows, for any number of users, connections and failures: `TypeOK`, `CountersAccount`,
`SubscribedUnlessRaced`, `NothingLeaks`.

**DeliveryProofs.** The first part reduces `Next` to the few ways in which each variable can change. `IInv` adds `WireInv`
and `AckInv` (what is on the two directions of a socket), `SubInv` (how `sub` and `ref` go together, and that who is past
`Register` is routed or in `early`) and `WholeInv`, the heart of it: a whole connection has its resume in front of everything else it sends, or is having
it looked up, or has it answered and is routed, and in each stage what it has not rendered lies behind the cursor. The
property alone is not inductive, since it does not say that an ack cannot be ahead of the resume. It follows, for any
number of tabs and notifications, any buffer, page and list size, any number of disconnects, failed SUBSCRIBEs and other
failures: `TypeOK`, `HandshakeClosesWindow`, `NothingLostWhileConnected`, `AckedWasShown`, `ListAgrees`.

**HeartbeatProofs.** `IInv` bounds the age of a pong from the ticks that have passed: `EvictInv` for any connection that is
open (`tick` has looked at it in this interval, or in the one before if it still has to), `KeptInv` for one whose peer
answers (its pong is no older than the last ping the buffer accepted; while pings are on their way, it was recent when
the oldest of them was sent), with `SweepInv`, `ConnsUnique` and `ClosedInv` (nothing is under way on a closed connection). It follows, for any
tabs and connections and every setting of the clock that meets the assumptions: `TypeOK`, `SilentIsEvicted` and the
action property `LiveIsKept`, which is where `TimeoutAssumption` is used.

**InboxProofs.** The store of the tab is right because of what the requests under way will bring: `ReqInv` says of each
that its rows are its user's and are in the table as they were read (`Known`, which is kept since rows are only added
and marked), that the count of a list covers its rows unless it is mixed, and that the row of a served mark is read in
the table. `ItemsInv` says the same of the rows on the list. It follows, for any number of users, rows and overlapping
requests: `TypeOK`, `ReadIsStored`, `CountCoversList`, `StoreIsOwn`.

**BootProofs.** `IInv` adds `PassInv` (the versions a node has passed are recorded; one it is about to commit is not,
and nobody else is about to commit it), `MadeInv` (nobody creates, or waits for, objects that are older than the
server) and `WiringInv` (who listens has a tracker, and a dedicated connection or the reason why not: Redis or a
signal). It follows, for any number of nodes and any releases: `TypeOK`,
`SchemaIsRecorded`, `ServesMigrated`, `ClientsAreRouted`.

The property `AppendOnly` and the invariant `SocketIsGuarded` are proved and not checked by a run of their own;
`RowsArePrefix` is checked as a part of `AnswersAreTrue`.

So every invariant that a run checks is a theorem, the two refinements are, and `LiveIsKept`. Only model-checked are the
liveness properties (`CreateReturns`, `CallsReturn`, `CloseCompletes`, `AcceptedIsWritten`, `ConnectedTabCatchesUp`,
`Reconnects`, `BootEnds`): they rest on fairness, which the prover does not reach. The three properties that fail have
no theorem.

Every inductive invariant was checked with TLC as an invariant of a small instance before it was proved.

## 5. What is abstracted or left out

- `Delivery` merges the channel of a connection, its writer and the TCP stream into the bounded queue `down`; `Connection`
  has the detail. `OnClose` happens together with the break of the connection, and the handlers of one connection run
  one after the other, in the order of its frames and after `handleUpgrade`: that is how nbio (external) serialises the
  work of one connection.
- The race of UNSUBSCRIBE against SUBSCRIBE is in `Subscriptions` only; in `Delivery` a user without connections is
  unsubscribed at once. An old half-open connection beside a new one of the same tab is not modelled.
- `Delivery` has no clock: the reaper is one of the reasons for `Disconnect`. `Heartbeat` has the clock, and no
  notifications.
- The ref that mirrors `lastSeenSeq` in the hook is updated by the render that follows a dispatch; the model has no
  delay between the two. One fetch of the list is under way at a time.
- `Delivery` is about one node. An UNSUBSCRIBE that fails is in `Subscriptions` only.
- `ListByUser` orders by `created_at`, which `Execute` takes from its clock before the call of `Create`
  (`send_notification.go:75`): rows of overlapping requests, or of servers whose clocks differ, may be listed in another
  order than that of their seqs. `Delivery` and `Inbox` list by seq.
- `Hub.Broadcast` and `HubPublisher` have no caller in the server, and the browser never sends the `ping` that
  `handleMessage` would answer.
- `Heartbeat` merges the attempts beyond the last doubling, which have the same delay; jitter is a choice among the
  delays below the backoff.
- `Boot`: the transaction of a node that is killed is rolled back at once; PostgreSQL takes longer when the machine
  itself vanishes. Tables that exist before the first boot are complete, as somebody made them by hand from the same
  files.
- A full page of a replay is not followed by another request of the client (the comment at `server.go:267` counts on a
  client that keeps asking); the properties of `Delivery` are about tabs whose replay was not cut.
- `Inbox`: tokens do not expire there (they do in `Heartbeat`); requests of a page that was left have no effect on the
  next page (their effect on the table is that of `OtherMarks`); the unread filter and offsets of the list, which the
  client does not use.
- Not modelled, since they keep no state over time or only render: signatures and password hashes, environment variables,
  tracing, the admin form, widgets, the load test and the kernel settings beside it.

## 6. Plan

Done, in this order: `NotificationLog`, `NotificationRepo` and its refinement (everything else rests on it),
`Delivery`, `Subscriptions`, `Connection`, `Inbox`, `SendNotification`, `Heartbeat`, `Boot`, and the failures of
statements, of the SUBSCRIBE and of the dedicated connection in `Delivery`, `Subscriptions` and `Boot`; the proofs of
every module's invariants.

Next proofs: safety lemmas the liveness properties rest on, such as that a goroutine that waits has somebody to wait for.

Next models: `Delivery` on two nodes, and with publishes that fail after the last resume.
