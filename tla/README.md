# NavCaster: specifications, model checks and proofs

NavCaster is an NTRIP caster. Base stations (servers) push correction data to a
mount point, rovers (clients) fetch it, and relay tasks pull data from or push
data to other casters. Several nodes form a cluster and share all their state
through one Redis. This directory holds TLA+ models of its coordination logic,
TLC configurations that check them, and TLAPS proofs. `PROJECT.json` is the
index: components, runs, mutants, the source lines of each definition, findings,
hazards and theorems.

## 1. Inventory of the system

Paths are relative to `src/src/`.

| component | state | operations | what makes it correct |
|---|---|---|---|
| Master election (`core/src/caster_internal.cpp`) | Redis key `CASTER:MASTER` with an expiry; `_is_master`, `_current_master_id` per node | timer: `SET NX EX`, `GET`; then `SET IFEQ EX`; callbacks of `GET` and `IFEQ` | one master; the flag never outlives the key; a dead master is replaced |
| Relay distribution (same file; `http/http_handler.cpp`) | `PULL:RECORD`, `PULL:STAT` (push likewise); `_pull_record_map`, `_pull_status_map`, `_pull_record_distributed` | API: create, update, delete, start, stop; timer: upload and download of the statuses; master: compare, publish orders on `NODE:<id>`; node: create or destroy sessions | a task runs on one node, with the configuration of its record, until it is disabled or deleted |
| Connection lifecycle (`service/ntrip_listener`, `connect_bev`, `process_queue`, `ntrip_caster`, `session/`) | `_connect_map`, bufferevent callbacks, request queue, session objects | accept, request, verify, create, start, run, stop, destroy | each socket has one owner, sessions are freed after the last use, closed sockets are freed |
| Account limits (`auth/src/auth_verify_internal.cpp`) | `ACT:REC`, `_register_map` | verify, add and remove a login record, kick over `AUTH:BROADCAST`, renew | no more logins than allowed, the right one is kicked |
| Registration (`core/src/caster_internal.cpp`) | `MPT:REC`, `USR:REC`, register maps, `_kick_map` | register, withdraw, duplicates, forced offline over `CASTER:BROADCAST` | one base station per mount point, kicks are effective, no registration without a session |
| Relay sessions (`service/session/relay_pull`, `relay_push`) | `Idle` … `Running`, `WaitingRetry`, backoff | connect, handshake, register, retry, stop | at most one connection and one registration per task; stop is final |
| Subscriptions (`core/src/caster_internal.cpp`; `session/client_ntrip`, `client_near`) | `_base_sub_map`, `_base_near_sub_map`, `_active_mount_map`, alias rules; the channels at Redis | subscribe to a base, an alias, the nearest base; report a position; release a channel; resubscribe | a rover receives one base, the one it was told, and learns when it goes away |
| Access policy and alias rules (same file; `http/http_handler.cpp`) | `ACCESS:GROUP`, `ACCESS:ITEM:<group>`, `ALIAS:RULE`; three maps per node | API: edits and notifications; refill in two round trips; four checks | a denial lost in a refill returns with it, and a node comes to decide by the store |
| Connection history (same file) | `LOG:MPT:*`, `LOG:USR:*`; `_base_history_map`, `_rover_history_map` | write, renew, close, flush, clean up at start | no record of a session that is online is closed, those of dead nodes are, with the right end |
| Redis connections (same file; `auth/src/auth_verify_internal.cpp`) | contexts, `_is_pub_connected`, count of missing pings | connect, ping, reconnect, give up | a connection that answers is kept, a lost one is rebuilt or the process exits |
| HTTP start and event streams (`service/ntrip_caster.cpp`, `http/sse_manager.cpp`) | `_http_started`; streams, `cached_data` per channel | gate, open, poll, broadcast, close | the master serves; every stream comes to show what Redis has |
| Chunked streams (`session/`, `ntrip_msg.cpp`) | `_recv_evbuf`, `_chunked_size`, output buffers | frame, cut, take apart, give up a slow rover | what is published is what was sent |
| REST handlers, web interface, decoders, license check, tools, configuration, protobuf | – | – | pure I/O, formatting, start-up only or separate programs |

**Interaction.** A node is one libevent loop. It owns three kinds of Redis
connections: *pub* (`_pub_context`, commands and answers in order), *sub* (channels)
and the same pair again for AUTH. The HTTP API runs on one thread of its own, a second
libevent loop with a synchronous Redis client; the two meet only in Redis and in the role of master. Modules call each other through plain function
pointers with a `void *` to the session; sessions ask for their creation and
destruction through one queue of the loop (`process_queue`).

**What is hard.** Inside a loop there is no preemption, but everything of
interest spans several callbacks: a round of the election is three commands, a
login is five round trips over two connections, an order to a node travels on a
different connection than the statuses it is compared with. Between any two of
them another node, the HTTP thread, an expiry, the peer, a lost connection or a
crash may act. `PROJECT.json` lists these hazards with the line where each bites.

## 2. Modules

| module | models | proofs |
|---|---|---|
| `MasterElection`, `ClusterMaster` | the election, and the role it implements | `MasterElectionProofs` |
| `RelayDispatch` | distribution of tasks, on top of the role | `RelayDispatchProofs` |
| `RelaySession` | what an order to a node starts | `RelaySessionProofs` |
| `SessionLifecycle` | incoming connections | `SessionLifecycleProofs` |
| `Subscription` | what the rovers among them do once they are registered | `SubscriptionProofs` |
| `RedisConn` | the connection to Redis | `AccessPolicyProofs` |
| `AccessPolicy` | groups, items, aliases; extends `RedisConn` with what travels over the connection | `AccessPolicyProofs` |
| `ConnHistory` | the records of connections | `ConnHistoryProofs` |
| `HttpService` | the HTTP thread, an instance of `ClusterMaster` for the role it waits for | |
| `DataStream` | chunked streams between two sessions | `DataStreamProofs` |

Each `MC…` module gives the constants definitions (symmetry sets, the kinds and
nodes of connections); each `.cfg` is one run.

In the modules, definitions introduced by the word *Mistake* are plausible wrong
variants of the definition that follows (a dropped guard, a forgotten step). No
specification uses them. `PROJECT.json` names them under "mutants": each checked
property is violated when its definition is replaced by its mistake, so none of
them holds only by the shape of the model.

Every module states a type invariant (`TypeOK`, `ConnTypeOK`, `HistTypeOK` …). Those of the modules with
proofs are theorems (of `SessionLifecycle` without the bound of its clock, in `SessInv`); the others are there for the
reader and held in TLC, but no run lists them. The runs are kept for what could go wrong.

### 2.1 MasterElection

State: the key (`lock`, `ttl`), per node `up`, `is_master`, `current_master_id`,
the two directions of the pub pipeline (`cmds`, `replies`), and the timer. One
action per callback (`TimeoutCallback`, `Redis_SetMaster_Callback`,
`Redis_KeepMaster_Callback`), one per command Redis executes, and the faults
`Disconnect` (the waiting callbacks run with a null reply, as hiredis does:
the renewal counts as refused), `Crash`, `ConnReset`, `Restart`.

Time is discrete. `MaxLag` bounds how long a due event (an expired timer, the
head of a pipeline) stays unprocessed. The code assumes something like it tacitly
when it sets the expiry to a few periods of the timer; the assumption is written
down as

    Timely == /\ 5 * MaxLag < UpdateIntv
              /\ UpdateIntv + 5 * MaxLag + MaxLost * (UpdateIntv + MaxLag) < MasterTTL
              /\ MaxInFlight >= 2

A renewal is executed at the end of a round (five hops after the timer), so the
key must outlive one period, the hops, and one further period for each round lost
with the connection. The default configuration (period 5 s, expiry 15 s) satisfies
it for hops below a second and one lost round in a row (5 + 5·L + 5 + L < 15 for
L < 5/6 s).

| run | bounds | properties |
|---|---|---|
| `timely` | 2 nodes, 6 : 19, hops of up to 1 unit, 1 lost round, 1 crash | `MasterHoldsLock`, `MasterNamesItself`, `FailoverBound`, `ClusterMasterSpec` |
| `live` | 2 nodes, 1 : 4, hops of up to 1, 2 crashes (both nodes may be down): **not** `Timely`, a round may outlast the key | `EventuallyMaster`, `StaleMasterStepsDown` |

6 and 19 are the smallest values that satisfy `Timely` with hops and a lost
round of that size, so every slack is as tight as the assumption allows. In `live` a
round lost together with a key that expires under the next one can repeat for
ever (TLC shows it with `MaxLost = 1`): outside `Timely` the election is only live on a
connection that holds. `headless` is a history
variable that counts time without a master since the last fault and saturates
above `FailoverLimit`.

Fairness: libevent runs what is ready, Redis executes what it received, time
passes, the socket of a dead process is reset (weak fairness). Crashes, drops and
restarts are never forced.

### 2.2 RelayDispatch

State: `record` and `stat` in Redis, the holder of the master key (acquired when
free, lost only after its holder died: what 2.1 shows under `Timely`), the three maps
of each node, the running sessions with the configuration they were created
with, and the pipelines. The node channel is a connection of its own, so an order
may overtake or lag behind answers. `cleanup` is the second command of an
update or deletion by the HTTP thread, which other steps may precede. An order
is handled completely in one action: the map, the session and the `HDEL`.
An update deletes the status even if it changes nothing, as in the code.
`cut` is a history variable for `NoDoubleCreate`, and guards no step: of each node the tasks whose status has been removed,
by a request or because it expired, after the node uploaded it and before that round was over. The next
download then empties the entry of a session that runs, and the master has it started again; it really is created a second time (section 4).
A node that sends the commands of a round before its last one is over may miss any status. An order carried out
between rounds sets the entry right and takes the task off the list.
A push task runs through a copy of this code, and is not modelled again.

| run | bounds | properties |
|---|---|---|
| `single` | 1 node, 1 task with 2 configurations, all 5 API requests, 3 edits, 1 lost order, 1 crash | `RunsWhatWasDistributed`, `EnabledRunsOnSurvivor` |
| `takeover` | 2 nodes, create/start/stop, 2 edits, 1 lost order, 1 crash | `EnabledRunsOnSurvivor`, `DisabledStops` |
| `overlap` | 2 nodes, create/update/delete, 2 edits, rounds that overlap (up to 4 messages per node), 1 status expiring while in use, 1 lost order, 1 crash | `SingleRun`, `NoDoubleCreate` |

One task is enough: tasks are independent entries of the same maps, and the code
treats each separately. Two nodes are needed for stale statuses and takeover,
two configurations for a change, three edits for create, change, change back. In
the runs with `Overlap = FALSE` a timer only fires when the node's last round is
over, which the default period guarantees by orders of magnitude; `overlap` drops this.

Fairness: the timer is periodic (strong, because a report of a session may come
in between), callbacks and Redis are weakly fair, statuses and the key of a dead
node do expire. Requests, reports and faults are not forced. The statement about
a cluster that keeps more than one node after a crash (`EnabledRuns`) is false, see section 4;
`EnabledRunsOnSurvivor` therefore says what does hold: for clusters in which no node ever
fails, or only one is left.

### 2.3 SessionLifecycle

State: the sockets (`peer`, `bev`, `listening`), sessions, the maps that hold
pointers to them (`logins` for AUTH, `registered` for CASTER), the request queue and
its event, two pipelines per node, the two broadcast channels, the login and
registration records and a clock for timestamps. The actions are the callbacks of
the loop in the order a connection meets them: `Accept`, `BevEventCallback`,
`BevReadCallback`, `Redis_Verify_Callback`, `Request_Process_Cb`, `Redis_Add_Login_Callback`,
`Redis_Register_Callback`, the broadcasts, `EventCallback`. `Stop` is the body of
`stop()` that several of them call. `Undefined` holds when the next callback would
use a freed session or read `begin()` of an empty multimap: the process then ends
(`DieOfUndefined`) or does whatever the branch for it allows. All connections use
one account and one mount point, the case in which they meet. `interrupted` is a history variable: the sessions that a
kick found before they ran, with an answer still to come or a registration made and not confirmed. `stop()` withdraws
nothing of those, so `RegisteredAreOnline` and `CallbackObjectsLive`, which the code breaks for them (section 4), are stated
for all others; no other way to stop a session (its peer, an error, a refusal, the limit seen by its own node, an expired record) finds one in this state.

| run | bounds | properties |
|---|---|---|
| `lifecycle` | 2 base stations, high limit, 1 crash | `ClosedIsFreed` |
| `limit` | 3 logins of one account on 2 nodes, limit 1 with protection, different timestamps, 1 crash | `WithinLimit` |
| `faults` | 2 rovers, limit 1, equal timestamps, 2 kicks at any time, 1 peer that leaves, 1 lost broadcast, 1 expired record, 1 crash | `SocketOwned`, `LoginsAreOnline`, `RegisteredAreOnline`, `CallbackObjectsLive` |

Deadlock is not checked in these runs: a connection lives once, and the model ends when
all of them are closed. Peers leave of themselves in `lifecycle` and, one of them, in `faults` (`Leaving`); in every run
the end of a watched socket may be noticed at any time anyway. Two connections suffice for any pair of callbacks to meet;
three logins for one callback to find more than one login too many. Fairness: each kind of callback of the loop and
each connection to Redis is served; the end of a *watched* socket is noticed; a peer, a kick
and a fault are never forced.

### 2.4 RelaySession

State: `task`, the fields of the object together with the entries that `connect_bev`
and CASTER hold for it, and `pending`, the registrations Redis has not answered. The
methods (`start_connect`, `cleanup_connection`, `schedule_retry`, `running`, `stop`) are functions
from one record to the next, and each callback applies them in the order of the
code. Objects and connections are numbered, so that an entry tells which object
its pointer belongs to and under which key it was made. `leftover` says that bytes
are left in `_recv_evbuf`, which is not emptied between connections. `Undefined` holds when a
callback for a freed object is due, or data for a push task that runs without a connection.

`alias` says that the mount point of a push task is an alias: it then subscribes under the base the alias stands for, and
`Unsubscribed`, which looks under the name asked for, removes nothing. `EntriesLive` therefore speaks of every
registration, and of the subscriptions to plain mount points.

`prompt` chooses between two worlds: Redis answers before anything else happens, or
at any time. The code does not look at the state when an answer arrives, so most
properties need the first; `OneConnection` needs neither.

| run | bounds | properties |
|---|---|---|
| `relay` | pull and push, a plain mount point or an alias, both worlds, 2 orders, 2 failures (of connections, answers, subscriptions, or kicks), 1 refusal, 6 connections | `OneConnection`, `EntriesLive`, `StatusTruthful`, `PromptRecovers` |

Two orders give a replaced object whose answer is still due; two failures a failed
retry; connections beyond orders and failures come from answers refused because of
bytes left over.
Fairness: the far end accepts and answers, Redis answers, timers fire. The code has
no timeout for the first two, so a silent far end holds the task; that is an
assumption, not a result. Failures are bounded, so "recovers" means: once they stop.

### 2.5 Subscription

State: `node`, what the process keeps (`active` is `_active_mount_map`, `subs` is `_base_sub_map`, `near` the
channels of `_base_near_sub_map`, `cache` the positions last asked for, `session` the fields of
`client_ntrip` and `client_near`, `to_pub` and `to_sub` the output buffers); `replies`, what Redis has answered on the
pub connection; `listening`, the channels Redis sends over the sub connection; `online` and `geo`, the
lists in Redis. Callbacks into sessions are synchronous in the code: a refused subscription stops the
session, which unsubscribes, before the method returns. The methods (`sub_base_channel`, `sub_alias_channel`, `sub_near_channel`,
`stop`, `check_active_base_channel`, `Move`) are therefore functions from a record to the next, applied in the order of the code. A rover
starts where `SessionLifecycle` leaves it, with its registration about to be answered. Published data
reach every rover in the map of the channel at once; data still on the way after an unsubscription are
dropped by the code.

| run | bounds | properties |
|---|---|---|
| `subscribe` | 1 rover asking for a base or an alias, 1 nearest-base rover, 2 bases each nearest somewhere, an alias with both, 2 commands or answers on the pub connection, 1 base coming or going, 1 loss of either connection | `SubscribersRun`, `OneBase`, `ListensToMap`, `DataArrive`, `ToldOfEnd`, `NearestFound` |

Two rovers are needed to share a channel and to leave each other in it; two bases to be moved; two messages
for two queries of one rover, or a query with a refresh behind it. A base is online or not at the start, so
one change gives either. With two changes the run is three times as long and passes too.
A refresh is sent when the last one has been answered: the period of the timer is seconds, a round trip milliseconds.
The rules of aliases do not change, the access policy may refuse a mount point at any time, and the list of
subscribers that the node writes to Redis (`MPT:SUBSCRIBE`), which nothing reads back, is left out. So are the channels
of rovers (`sub_rover_channel`): no session subscribes to one.

Fairness: the timer and the callbacks run, Redis executes, a lost connection is made again (the code
exits otherwise), a base that is online publishes. Rovers and bases are not forced to do anything.
`NearestFound` is stated for a pub connection that holds, see section 4.

### 2.6 RedisConn and AccessPolicy

`RedisConn`: `link` is `_pub_context` with the contexts hiredis knows (connecting or open, given up or not,
pings unanswered), `fail` is `_pub_ping_fail_count`. `pubAttemptReconnect` and the disconnect callback are functions
on it, applied in the order of the code, and `running` becomes `"undefined"` when a null context would be
used. Redis may leave pings unanswered for as long as it likes. More than `PingLimit` of them, and the timer gives the context up
and takes another; the old one lives on, its answers go to the same callbacks, and when it has given the last it calls
back like one that failed. `late` is a history variable that says that this process has given a context up. From then on the
properties below fail (section 4), so they are stated for the time before. The sub connection has the same code, that of AUTH the same without pings.

`AccessPolicy` extends it with what travels over the connection: the pipelines of each context
(`cmds`, `answers`), pings included, the store (`groups`, `items`, `aliases`), the maps of a node, the HTTP thread that writes and then
notifies, and the notifications. An item command of a refill can still be under way when the next
refill clears the items. `check_mount` gives the set of possible answers, since `resolve_mount_group` takes the first of
an unordered map. Two more history variables: `loaded` says that the process has had groups once, `dirty` what was edited since the
node last asked.

| run | bounds | properties |
|---|---|---|
| `access` | 2 contexts, given up at the second ping, 2 connections lost, refused or given up, a store that is new or was in use, 3 groups of which requests are about 2, 1 mount point, 2 contents of alias rules, 1 edit, 2 commands or answers on the connection when the next is sent | `DenialsReturn`, `SettledIsExact`, `PolicyArrives`, `AnsweringIsKept` |

The one edit may come anywhere, between the two round trips of a refill too, and a store in use has an item that denies from the start. Two losses give
a refill that loses its second half and an answer that a new connection repeats, or a connection lost before another is given up.
`PingLimit` is 2 in the code and 0 in the run: one unanswered ping instead of three leads to the same branch with fewer states, and the
proofs are for any limit. After a context was given up the run goes on without further edits or losses (`MaxLateEdits`, `MaxLateBreaks`): what happens
then, a null context used and the process ended included, is explored, and counts for `PolicyArrives`. Fairness: the timer, callbacks, Redis, the API and a new process after an exit; notifications may
be lost, so it is the timer that makes `PolicyArrives` true.

### 2.7 ConnHistory

State: the session's record in the map of its node, the `HSET`s under way, the record in Redis, and, of each
node, the progress of `cleanup_stale_history`, whose `SCAN`, `HGETALL` and `HSET` other nodes may come between. Each node has a clock
of its own (`Ahead`). `left` remembers when the session really left.

    Timely == (MaxLost + 1) * (Beat + MaxDelay) + MaxSkew <= Expire

The bound is tight: with one unit less, TLC finds the record of a live session closed. With the default periods (5 s, expiry 10 s) it allows
clocks that differ by up to 5 s if no renewal is lost, and no difference at all if one is.

### 2.8 HttpService

State: the role (an instance of `ClusterMaster`), per node whether it serves, whether its synchronous connection gets answers,
the cached content of one channel, and what each stream was last sent. All of it happens on one loop, so each callback is one
action; `_running` and the locks are left out with the threads they guard against. `even` is a history variable that
says that the last snapshot did not differ from what the others have (see section 4).

### 2.9 DataStream

State: bytes under way, cut into segments anywhere, and the decoder of the receiver. Bytes are symbols: digits, line ends, data.
`publish_data_from_chunk` is the method of the code, which calls itself, as a recursive function on the decoder's record. A header is what
`evbuffer_readln` takes for a line, up to the first "lf" and less the "cr" before it. The sender is a rover session with its
limit of unsent data, the receiver `relay_pull`; `server_ntrip` has the same decoder and stops where `relay_pull` connects again.

| run | bounds | properties |
|---|---|---|
| `services` (`MCNodeServices`) | history: 2 nodes, clocks 1 apart, 1 session, 2 : 5, 1 loss, 10 units of time, any number of crashes; HTTP: 2 nodes, 3 streams of which 2 fit, 3 contents, 2 failures, 2 changes; stream: 3 messages of 1 or 2 bytes, limit 5, 1 lost connection | `LiveNotClosed`, `EndAccurate`, `FinalKept`, `CleanupComplete`; `MasterServes`, `ChangesArrive`; `PublishedIsSent`, `AllIsPublished` |

The three share no state, so one run checks all of them, one in each behaviour (`part`), which is the sum and not the
product of their states. Ten units of time are enough for a session to appear, be renewed with one renewal lost, and be
looked at after the expiry. Three streams fill the cap and leave one that has to wait; three messages exceed the limit.
Fairness: the gate, the poll and the reconnection of the HTTP thread, all timers or tried with each call.

## 3. Proofs

`MasterElectionProofs` proves for every set of nodes and every value of the bounds

| theorem | assumption | property |
|---|---|---|
| `TypeCorrect` | constants | `TypeOK` |
| `MasterHoldsLockAlways` | `Timely` | `MasterHoldsLock` |
| `SingleMasterAlways` | `Timely` | `SingleMaster` |
| `MasterNamesItselfAlways` | `Timely` | `MasterNamesItself` |
| `ImplementsClusterMaster` | `Timely` | `ClusterMasterSpec` |
| `FailoverBoundAlways` | `Timely` | `FailoverBound` |

None of these is inductive by itself: that `lock = n` says nothing about whether
the key lasts until n's next renewal. The inductive invariant `IInv` tracks the
slack. `RoundInv` describes the shape of a round: which of its six stages a node is
in (idle, `SET` and `GET` sent, `GET` sent, answered, `IFEQ` sent, answered), so that
at most one round is under way. `LeaseInv` gives a lower bound of `ttl` for each stage of a
node that is master or about to be told so: the time until its timer is due plus the hops
left plus the lost rounds still possible. `NameInv` carries the holder's name
through the round, `DownInv` says that a dead node has no flag or replies. Each
action lowers the required slack at least as fast as time lowers `ttl`; that is where
`Timely` is used. `SingleMaster` follows because the key has one value. The refinement
then shows that a flag is only set when the node holds the key, so nobody else has one,
and that each step acquires, loses or leaves the abstract role.

`FailoverBound` needs a second invariant, `FailoverInv`, with the worst case as a budget that time uses up. With the key free, each
live node is in time to set it and to get through the four hops of its round (`InTime`). With the key held, either there
is time for it to expire and for that round afterwards (`Expiring`), or the round of its holder will make it
master in time and before it expires (`Winning`). A process that died may still have a renewal at Redis, which
gives a key that nobody uses its full expiry again; `LastWord` says that this takes a hop at most. One expiry, one period
and seven hops are the sum: that hop, two until the next timer's command is executed (the timer may be late), and four for the rest of the
round.

`RelaySessionProofs` proves for every value of the bounds

| theorem | property |
|---|---|
| `TypeCorrect` | `TypeOK` |
| `OneConnectionAlways` | `OneConnection` |
| `EntriesLiveAlways` | `EntriesLive` |
| `StatusTruthfulAlways` | `StatusTruthful` |

The lemmas say what each method does to a record (`CleanupEffect`, `RetryEffect`,
`StartEffect`, `StopEffect` …). `Shape` relates `_connect_key`, the socket and the state in any
order of events: waiting for a retry means that there is no connection, which is why
`start_connect` never overwrites a key. `PromptShape` says for each state what CASTER has
been told; `Tidy` is what `cleanup_connection` can undo, and holds whenever no answer is due. `KeysOld` is about the
subscriptions that an alias leaves behind: they were made under keys handed out earlier, so that none is taken for the present one.
That is the weak point of the code: with an answer due, `_registered` does not tell of
the registration, and `Tidy` fails.

`AccessPolicyProofs` begins with the connection alone: `ConnTypeCorrect` and `AnsweringIsKeptAlways`, for any limit and without an assumption on
how Redis answers. `ConnInv` says of a process that has given nothing up (`First`) that the present context is
the only one (`OnlyOne`), and that each missing ping in the count is one that waits on it (`Covered`). The count outlives a
reconnection, so this needs that a connection which fails answers its pings, with null: then a count above the limit on a context means that
many pings of its own, and that context is the first to be given up.

`ConnHistoryProofs` proves for any number of nodes, sessions, losses and crashes, under `Timely`,

| theorem | property |
|---|---|
| `HistTypeCorrect` | `HistTypeOK` |
| `LiveNotClosedAlways` | `LiveNotClosed` |
| `EndAccurateAlways` | `EndAccurate` |
| `FinalKeptAlways` | `FinalKept` |
| `CleanupCompleteAlways` | `CleanupComplete` |

The inductive invariant `HistInv` says of each session how old its record may be: what the timer has counted since the last renewal,
and one period for each renewal lost so far (`LeaseInv`); that what is under way was sent in this unit of time, the closing
record last (`SentInv`); and that the end a record gives is near the true one (`LeftInv`). Of each
node that cleans up it says that what it has found stale has left for good, with the record unchanged since or closed by
another node in the same way (`FoundInv`), and that nothing it has finished with is stale (`DoneInv`). `Timely` is used
in one place, where a record read by a cleanup turns out to be stale.

The rest of `AccessPolicyProofs` extends these proofs. For any finite set of groups, any mount points, contents and bounds

| theorem | property |
|---|---|
| `PolicyTypeCorrect` | `TypeOK` |
| `ImplementsConn` | `ConnSpec` |
| `AnsweringIsKeptHeld` | `AnsweringIsKept` |
| `DenialsReturnAlways` | `DenialsReturn` |
| `SettledIsExactAlways` | `SettledIsExact` |

`ImplementsConn` is why `ConnInv` may be used here: every step of the refills is one of the connection or leaves it alone.
The rest of the invariant `AccInv` speaks of the store, the pipelines and the maps together: `StoreInv`, `MapsInv` and
`PipeInv` give the types of the store, the maps and what is under way. `OrderInv` says that only the present context carries anything and that its answers come
in the order of the store's contents: the group `default` cannot be deleted, so once an answer holds groups all later ones do, and
a node that has had groups never has none. `FreshInv` says of a connected node, for a topic that was not edited
since it last asked, that its map is the store's or will be: the command is under way, or its answer is, true like all
answers after it, or the groups are right and each group's items are right or to come. A command sent
while an older answer is under way makes this disjunction necessary. `DenialsReturn` follows where nothing about a group is to come: the
group and its items in the map are then those of the store. `OrderInv` and `FreshInv` speak of the time before a context is given up, as the properties do.

`SubscriptionProofs` proves for any finite set of bases, any aliases, rovers, distances and bounds

| theorem | property |
|---|---|
| `SubTypeCorrect` | `TypeOK` |
| `SubscribersRunAlways` | `SubscribersRun` |
| `OneBaseAlways` | `OneBase` |
| `ListensToMapAlways` | `ListensToMap` |

The lemmas say what each method makes of a record `node` (`StopEffect`, `SubBaseEffect`, `MoveEffect`, `ReleaseEffect` …). The
invariant has two parts. `Placed` is one equivalence for each rover and base: the rover is in the channel if and only if it runs and was
told this base; for a nearest-base rover, the node's own map names the same one. That is why the name
`stop` goes by (`Channel`) leads to the entry. Within a method it fails for the rover that moves, whose new base is noted before it is in
the channel: `Joining` is what remains. `Listens` says that the last command about a base, sent or executed, is a subscription
if and only if the base has an entry, and while the connection is lost still that no other base has one, so that
`init_sub_context` need only add.

`SessionLifecycleProofs` proves for any finite set of connections and any nodes, limits, policies and bounds

| theorem | property | assumption |
|---|---|---|
| `SessTypeCorrect` | `TypeOK` | none |
| `SessInvAlways` | the invariant `SessInv` | none |
| `SocketOwnedAlways` | `SocketOwned` | none |
| `LoginsAreOnlineAlways` | `LoginsAreOnline` | none |
| `RegInvAlways` | the invariant `RegInv` | none |
| `RegisteredAreOnlineAlways` | `RegisteredAreOnline` | none |
| `CallbackObjectsLiveAlways` | `CallbackObjectsLive` | none |
| `LimInvAlways` | the invariant `LimInv` | `Strict`: no two logins dated the same second, no broadcast lost, no record expires in use |
| `WithinLimitAlways` | `WithinLimit` | `Strict` |

The set of owners in `SocketOwned` says too little of a queue that holds a request twice, so `SessInv` counts (`Owned`): being listened
to, verifications asked for and answered, requests to create and the session add up to one if the socket is held and to none
otherwise, and the requests to destroy are one for a stopped session. `CountAppend` and `CountTail` carry these counts over what enters and leaves
a sequence. Half of the callbacks only do what `Moves` says: nothing, go online, or end a session; since `stop()` looks at
the state first, the request to destroy is the first one. That callbacks may be called for a session that has gone is part of the model
(`Undefined`), and the invariant does not rely on its absence: a process that uses one ends, and `Dead` says what is left.

`RegInv` shows when this cannot happen, for each session that is not in `interrupted`. It counts too: of listings asked for and answered it waits for one at most (`Waits`), first
of the login records, then of the registrations, and only while it starts; so whatever stops it from the inside is itself the answer it
waited for, or comes when it runs, and no answer finds a session that has gone. A kick is the one thing that comes from outside. It stops a
session that runs, or one that waits for nothing any more (its record expired or was closed), and both keep the invariant; or it
finds one that waits, which is then in `interrupted`. Everything else, the commands and answers of interrupted sessions included, concerns other counts.

`LimInv` is why the limit holds in the end, although nodes count independently and every listing is old when it arrives. A
login's record is added before the records are listed (`Sorted`), so it is listed with its own record, and the last of a crowd
to list them sees all the others. `Crowds` says this of any set of more logins than are allowed that have all had their listing: one
of them is about to be kicked (`Doomed`), or about to learn of all of them (`Knows`), and then kicks somebody of the set: the last of them where the
present are protected, the second where they are not. For this the times of login must tell logins apart wherever they are found (`Dated`), and a record may
only go with its session (`LineOf`). `Strict` is what a second's resolution, a lost kick and an expired record would break; kicks
and crashes may happen.

`TypeOK` bounds the clock by the number of connections, which is not inductive: `TypInv` bounds it by those that have got as far as a
session (`Met`), since a socket makes one at most.

`RelayDispatchProofs` proves for any nodes, any finite set of tasks, any configurations and bounds

| theorem | property | assumption |
|---|---|---|
| `TypeCorrect` | `TypeOK` | none |
| `LockInvAlways` | the invariant `LockInv` | none |
| `SingleRunAlways` | `SingleRun` | none |
| `NoDoubleCreateAlways` | `NoDoubleCreate` | none |
| `RunsWhatWasDistributedAlways` | `RunsWhatWasDistributed` | `Alone`: one node, no overlapping rounds |

`RunsWhatWasDistributed` speaks of a master's own
sessions, and with more nodes a master may learn of another node's status instead; `single` checks it under the same assumption. All of it rests on the key as modelled: a dead holder's key outlives
what it left in its pipeline (`ExpireLock`). `LockInv` is why no task runs twice: whatever makes a node act (a confirmed
renewal, a question or order in its pipeline, an order on its channel, a session) implies that the key is its own. `RoundOf`
says that the answer which carries on a round is the last one and that no order is under way meanwhile. A node for which it fails has mixed up
the commands of two rounds, and `cut` has all its tasks (`RoundInv`). `Kept` then
follows the status of a session that is not in `cut` through a round: it is in the map, in every answer on its way, and in Redis unless the upload is the next command. Who
removes it from Redis between the upload and the last answer, a request or the expiry, puts it into `cut`; before the upload and
after the round it does no harm. `OnlyInv` is about one node that may lose statuses: what Redis
knows, the node knows or is about to delete (`StatKnown`), so a session that does not run with what is remembered
(`Differs`), which can only come from a status lost and a task distributed again, has no status anywhere until an
order replaces it.

`DataStreamProofs` proves for any symbols, any lengths of the messages, any limit and any bounds

| theorem | property |
|---|---|
| `StreamTypeCorrect` | `StreamTypeOK` |
| `PublishedIsSentAlways` | `PublishedIsSent` |
| `AllIsPublishedAlways` | `AllIsPublished` |

The decoder is recursive, and nothing follows from such a definition until it is known that a function of this kind exists.
`DecodesExist` and `DecodesAgree` show it for buffers shorter than any `n`, by induction over `n`, which needs only that the function
calls itself with less in the buffer (`PublishedType`); `DecoderUnfolds` puts these functions together, and from
there on `DecoderStep` is the definition. The induction theorems of the library have a predicate for a parameter; `SetInduction`
is induction over a set of numbers, from the theorem that a non-empty set has a minimal element.

`Framed` is the smallest set of pairs of a stream and its data that has the empty one and with each the one with a chunk
in front; `FramedInduction` is what the word smallest means, and `FramedAdd` that a chunk may be added at the end, as the
sender does. Where the network cuts is the question of two ways to cut the same bytes (`Cut`): what has arrived and
what has not, and the first piece of the chunk and the others. `HeaderTakes` and `DataTakes` answer it for the header and for the data. Together they
give `AllRight`: of a stream in `Framed` of which any part has arrived, the decoder publishes a first part of the
data, and unless the part ends within a header, which is an error, what it keeps together with what is to come is `Pending`: whole
chunks, after the rest of the one begun. If nothing is to come, it has published everything and found no error. `StreamInv` says this of the states: whole chunks until the session runs,
`Pending` while it does. `PublishedIsSent` alone is not inductive, as it says nothing of the bytes still to be taken.

Only model-checked: liveness (`EventuallyMaster`, `StaleMasterStepsDown`,
`EnabledRunsOnSurvivor`, `DisabledStops`, `ClosedIsFreed`, `PromptRecovers`, `DataArrive`, `ToldOfEnd`, `NearestFound`, `PolicyArrives`,
`MasterServes`, `ChangesArrive`), since fairness
and `ENABLED` are beyond the prover, and the types of `HttpService`. Every safety property and every action
property of the runs is a theorem.

## 4. Findings

Statements of the repository that do not hold in the models. No run is kept for them; each is
reproduced by the change of constants given.

* A node that is not master keeps uploading a status it once downloaded (`caster_internal.cpp:1625`), so a task that is
  being restarted can be stopped in every round and never started, against the comment at `:1497` ("the next round makes it active
  again"): `EnabledRuns` of `RelayDispatch` with two nodes, the constants of `takeover`, two configurations and `"update"` among the
  requests.
* A nearest-base rover that has got a base and reports a position farther off than the
  threshold is not moved but refused, since the check that admits only the group's
  nearest-base mount point is given the base it is on (`caster_internal.cpp:2738`, `:502`), against
  `doc/data-flow-and-architecture.md:369` and the comment at `:2700`. The rover is stopped.
  The move itself (`Move`) is only reached by a second query sent before the first was answered. `ReportsKeepSession` of `Subscription`
  with the constants of `subscribe`.
* A session kicked while its registration is pending stays registered, and its records are renewed for ever
  (`client_ntrip.cpp:59`, against the comment at `caster_internal.cpp:2232`): `RegisteredAreOnline` of `SessionLifecycle` without
  `interrupted`, with one rover or base station and one kick. The answer to its login or registration, if it comes after the session was
  destroyed, is handed to the freed object (`Auth_Verify.h:65`): `CallbackObjectsLive` without `interrupted`. A kick by the limit of
  the account, from another node, does the same as one by an administrator.
* A running session is created a second time if its status is removed from Redis, by an update or deletion of the task
  (`http_handler.cpp:1542`, `:1554`) or because it expired, after its node has uploaded it and before the same round downloads it again, or if two rounds overlap:
  the status map loses the entry, the master takes the task for one that does not run (`caster_internal.cpp:1867`), and the order finds the old
  object in place. `NoDoubleCreate` without `cut`, with the constants of `single` or `overlap`.
* A push task on an alias is never unsubscribed: `sub_base_channel` enters the callback under the base the alias stands for
  (`caster_internal.cpp:690-693`, `:875`), `cleanup_connection` looks under the alias (`relay_push.cpp:166`) and finds nothing
  (`caster_internal.cpp:895-904`), although it notes the subscription as ended. After a retry the entry of the last connection is still called with
  each message, and the end of the base reaches the session once for each; after `stop()` the entry has a pointer to a
  freed session. `EntriesLive` of `RelaySession` without `alias`.
* A relay session whose registration is answered after the connection failed becomes `Running`
  without a connection, and its retry timer does nothing in that state (`relay_pull.cpp:302`, `:289`, against
  `doc/session/relay_pull.h:4`): `Recovers` of `RelaySession` with `Prompt <- Never`. If it was a push task, the
  entry it then makes under an empty key is never removed (`relay_push.cpp:157`).
* A nearest-base query that is lost with the pub connection is not repeated: the answer is null
  (`caster_internal.cpp:3768`), and the position is already noted, so the rover waits until it has moved by the
  threshold. `NearestFound` of `Subscription` without its premise.
* A rover on an alias is stopped when its base goes, although another source of the alias may be online
  (`check_active_base_channel`), where the comment at `caster_internal.h:341` says that the rule is searched again. The rover
  gets the other source if it connects again.

* Deleting a running task also deletes its status, so the master sees nothing to stop
  (`http_handler.cpp:1554`, against the comment at `:1652-1656`): `DisabledStops` of `RelayDispatch` with one node,
  one task and `"delete"` among the requests.
* A base station cannot be forced offline, only rovers are in `_kick_map` (`caster_internal.cpp:2455`,
  against `:3372`): `KickedGoesOffline` of `SessionLifecycle` with one base station and one kick.
* A refused registration (second record with `Keep_Early`, not `Enable_Mult`) is not answered at all,
  so a relay session stays `Registering`: `Recovers` with `MaxRefusals = 1`, answers prompt.

All of the following with `SessionLifecycle`, `Node = {n1}`, two or three base stations and no faults:

* `WithinLimit` with `SameSecond = TRUE`: `records.erase(key)` (`auth_verify_internal.cpp:716`) takes all logins of
  a second off the multimap and one of them is kicked, so more than the limit stay.
* Without protection (`Protected = {}`, limit 1), the older login is erased before `begin()` is
  read (`:722`), so of two logins the newcomer is kicked, where `Auth_Verify.yml.in:9` says the
  present one may be displaced.
* Without `Enable_Mult` and `Keep_Early`, two base stations stay running on one mount point: the
  ERR broadcast for the older (`caster_internal.cpp:2931`) leaves as `UNSPECIFIED` (`broadcast_msg.h:49-59`).
* `ClosedIsFreed` with `KeepEarly = {"server"}`: the refused newcomer waits for the same broadcast with reading
  disabled, so its socket stays even when the peer leaves.

Of the modules 2.6 to 2.9:

* `RedisConn`: when Redis stalls for longer than the node waits, the context given up (`caster_internal.cpp:1162-1168`)
  lives on until its last answer comes, and its disconnect callback then clears the pointer to its successor
  (`:2823`, where the comment says "avoid stale pointer"). The timer uses the null pointer next: `running` becomes `"undefined"` in `access`. The successor goes on unseen, and the count
  that it leaves is held against the next one: `AnsweringIsKept` without `late`, with three contexts and three losses.
* `AccessPolicy`: the answers of a context that was given up still replace the maps, after newer ones of its successor, until the timer asks again: `SettledIsExact` and
  `DenialsReturn` without `late`. Before the first refill is answered the maps are empty, and an empty policy grants everything but logins to the
  nearest base; `DenialsReturn` without `loaded`. While the items are refilled, an item that denies what its group grants is
  ignored (`caster_internal.cpp:3699`; `ItemDenialHolds`), and a mount point that is only an item of its group counts as outside. The items of a deleted group stay in Redis and come back with a group created under its name. Refills that
  overlap can leave items of a deleted group in the map, which no check reaches.
* `ConnHistory`: a node that crashes and is back within the expiry leaves its records open until another node starts, since its cleanup finds
  them fresh (comment at `caster_internal.cpp:152`). A graceful stop only queues the closing records, and the loop ends before
  they are written (`ntrip_caster.cpp:143-156`, `main.cpp:183-191`), against the comment at `caster_internal.cpp:170`: the step
  `Lose` of a node that is down.
* `HttpService`: the snapshot for a new stream overwrites the cached content by which changes are noticed, so streams opened earlier miss the change it
  contained; an empty snapshot is not cached, so its stream may miss the return to the cached content (against
  `sse_manager.h:22-25`). `ChangesArrive` without `even`. A node that loses the role goes on serving, so two nodes may. When the start
  fails after the routes are registered, each retry registers them again.
* `DataStream`: `_chunked_size` outlives the connection (`relay_pull.cpp:214`), so the first header of the next one is taken for
  data; data that arrive in the segment of the answer to the request are discarded (`:124-132`): `PublishedIsSent` without `clean`. A segment that
  ends inside a chunk's header ends the session with a decoding error (`:220`, `server_ntrip.cpp:157-160`): `AllIsPublished`
  without `out' = <<>>`. `relay_push` has no limit of unsent data.

## 5. What is done, and what is left

1. `MasterElection`, `ClusterMaster`, proofs of all safety properties — done.
2. `RelayDispatch`, proofs of all its safety properties — done.
3. `SessionLifecycle`, proofs of all its safety properties — done for base stations and rovers. The nearest-base client's phases before registration are those of a
   rover; the anonymous login is a twin of the login with an account.
4. `RelaySession`, proofs of all safety properties — done.
5. `Subscription`, proofs of all its safety properties — done, with fixed alias rules.
6. `RedisConn` and `AccessPolicy`, proofs of all their safety properties — done.
7. `ConnHistory`, proofs of all its properties — done.
8. `DataStream`, proofs of all its properties — done. `HttpService` — done; its two properties are liveness.

Not modelled, and why:

* the REST handlers that read or write one Redis key and format JSON, the source table, statistics: no state that two
  actors share beyond the key itself;
* the check of a nearest-base login (`check_nearest_mount_login`), a lookup in the maps that `check_mount` reads as well;
* HTTP login tokens (`http_handler.cpp:953-1050`), a map with an expiry used by one thread;
* configuration, logging, start of the process: read once before the loop starts. (`start_http_api` writes the configuration over `CONF:*`, so
  what was changed there through the API is lost with the next start.)
* the totals of a node (`record_node_history`), sums over local maps;
* NMEA and RTCM decoders, base64: bit-level functions without state of the caster;
* license check, simulators, converters, web interface, deployment: separate programs, or third-party cryptography;
* the generated protobuf code under `proto/src`: 72,000 of the repository's roughly 95,000 lines of C++. The modules map about
  4,900 of the other 23,000, of `caster_internal.cpp`, where the nodes coordinate, three fifths.
