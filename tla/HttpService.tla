------------------------------ MODULE HttpService ------------------------------
(***************************************************************************)
(* The HTTP thread of a node: when it starts to serve (ntrip_caster.cpp,   *)
(* Http_Gate_Callback and start_http_api) and the event streams it keeps   *)
(* (sse_manager.cpp).  The thread is one loop; what happens in between are *)
(* changes in Redis, the election of the master, and clients that come and *)
(* go.                                                                     *)
(*                                                                         *)
(* One channel of events stands for all: each is polled by itself.         *)
(***************************************************************************)
EXTENDS Naturals, FiniteSets

CONSTANTS
    Server,       \* the nodes, each with an HTTP thread
    NoNode,
    Client,       \* event streams
    MaxClients,   \* _max_clients
    Data,         \* contents of the channel's hash in Redis
    Empty,        \* the hash is empty; hgetall says the same when it fails
    MaxFails,     \* bound: failures: the port is taken, Redis is lost, a node dies
    MaxChanges,   \* bound: changes of the data
    MaxOpened     \* bound: streams opened

Absent == "absent"       \* no stream

ASSUME HttpAssumption ==
    /\ NoNode \notin Server /\ Empty \in Data
    /\ Absent \notin Data
    /\ {MaxClients, MaxFails, MaxChanges, MaxOpened} \subseteq Nat

VARIABLES
    master,     \* the role that MasterElection hands out
    up,         \* of each node: the process runs
    started,    \* of each node: _http_started
    data,       \* Redis: the hash of the channel
    reachable,  \* of each node: the synchronous connection gets answers
    cached_data,\* of each node
    view,       \* of each node and stream: the last event sent, Empty if none was
    fails, changes, opened,
    even        \* history, of each node: the last snapshot was what the other streams had
                \* and was noted, or a poll has found a change since

httpVars == <<master, up, started, data, reachable, cached_data, view, fails, changes, opened, even>>

Role == INSTANCE ClusterMaster WITH Node <- Server

_clients(n) == {c \in Client : view[n][c] # Absent}
NoClients == [c \in Client |-> Absent]
fetcher(n) == IF reachable[n] THEN data ELSE Empty

HttpInit ==
    /\ Role!Init /\ data \in Data
    /\ up = [n \in Server |-> TRUE] /\ started = [n \in Server |-> FALSE]
    /\ reachable = [n \in Server |-> TRUE] /\ cached_data = [n \in Server |-> Empty]
    /\ view = [n \in Server |-> NoClients]
    /\ even = [n \in Server |-> TRUE]
    /\ fails = 0 /\ changes = 0 /\ opened = 0

-----------------------------------------------------------------------------
(* The role, the processes and Redis.                                      *)

BecomeMaster(n) ==
    /\ up[n] /\ Role!Acquire(n)
    /\ UNCHANGED <<up, started, data, reachable, cached_data, view, fails, changes, opened, even>>

Fail == fails < MaxFails /\ fails' = fails + 1

LoseRole ==
    /\ Fail /\ Role!Lose
    /\ UNCHANGED <<up, started, data, reachable, cached_data, view, changes, opened, even>>

\* The process ends; its key expires before somebody else has the role.
Die(n) ==
    /\ Fail /\ up[n] /\ up' = [up EXCEPT ![n] = FALSE]
    /\ master' = IF master = n THEN NoNode ELSE master
    /\ started' = [started EXCEPT ![n] = FALSE]
    /\ reachable' = [reachable EXCEPT ![n] = TRUE]
    /\ cached_data' = [cached_data EXCEPT ![n] = Empty]
    /\ view' = [view EXCEPT ![n] = NoClients] /\ even' = [even EXCEPT ![n] = TRUE]
    /\ UNCHANGED <<data, changes, opened>>

ComeBack(n) ==
    /\ ~up[n] /\ up' = [up EXCEPT ![n] = TRUE]
    /\ UNCHANGED <<master, started, data, reachable, cached_data, view, fails, changes, opened, even>>

Change(d) ==
    /\ changes < MaxChanges /\ changes' = changes + 1 /\ d # data /\ data' = d
    /\ UNCHANGED <<master, up, started, reachable, cached_data, view, fails, opened, even>>

\* sync_redis: the calls of a while fail, until reconnect() succeeds.
LoseRedis(n) ==
    /\ Fail /\ started[n] /\ reachable[n] /\ reachable' = [reachable EXCEPT ![n] = FALSE]
    /\ UNCHANGED <<master, up, started, data, cached_data, view, changes, opened, even>>
reconnect(n) ==
    /\ ~reachable[n] /\ reachable' = [reachable EXCEPT ![n] = TRUE]
    /\ UNCHANGED <<master, up, started, data, cached_data, view, fails, changes, opened, even>>

-----------------------------------------------------------------------------
(* The gate.                                                               *)

\* start_http_api: with the port taken, nothing is started and the next tick of
\* the gate tries again.
PortTaken(n) ==
    /\ Fail /\ up[n] /\ ~started[n] /\ master = n
    /\ UNCHANGED <<master, up, started, data, reachable, cached_data, view, changes, opened, even>>

\* Mistake: the gate is not asked again after a failure.
GateOnce(n) ==
    /\ up[n] /\ ~started[n] /\ master = n /\ fails = 0
    /\ started' = [started EXCEPT ![n] = TRUE]
    /\ UNCHANGED <<master, up, data, reachable, cached_data, view, fails, changes, opened, even>>
\* A node that has become master serves from then on, also when it is no longer
\* master.
Http_Gate_Callback(n) ==
    /\ up[n] /\ ~started[n] /\ master = n
    /\ started' = [started EXCEPT ![n] = TRUE]
    /\ UNCHANGED <<master, up, data, reachable, cached_data, view, fails, changes, opened, even>>

-----------------------------------------------------------------------------
(* The event streams.                                                      *)

\* Anything more is answered with 429.
Room(n) == Cardinality(_clients(n)) < MaxClients

\* The new stream gets a snapshot, unless it is empty; what it gets is taken for
\* what all have got.
add_client(n, c) ==
    LET d == fetcher(n)
    IN /\ started[n] /\ view[n][c] = Absent /\ Room(n) /\ opened < MaxOpened
       /\ view' = [view EXCEPT ![n][c] = d]
       /\ cached_data' = [cached_data EXCEPT ![n] = IF d = Empty THEN @ ELSE d]
       /\ opened' = opened + 1
       /\ even' = [even EXCEPT ![n] =
                       /\ \A k \in _clients(n) : view[n][k] = d
                       /\ cached_data'[n] = d]
       /\ UNCHANGED <<master, up, started, data, reachable, fails, changes>>

\* Mistake: like the snapshot, an event is not sent when there is no data.
BroadcastData(n, d) ==
    [c \in Client |-> IF view[n][c] = Absent \/ d = Empty THEN view[n][c] ELSE d]
broadcast(n, d) == [c \in Client |-> IF view[n][c] = Absent THEN Absent ELSE d]

\* Without streams nothing is fetched.
poll_and_broadcast(n) ==
    /\ started[n] /\ _clients(n) # {} /\ fetcher(n) # cached_data[n]
    /\ cached_data' = [cached_data EXCEPT ![n] = fetcher(n)]
    /\ view' = [view EXCEPT ![n] = broadcast(n, fetcher(n))]
    /\ even' = [even EXCEPT ![n] = TRUE]
    /\ UNCHANGED <<master, up, started, data, reachable, fails, changes, opened>>

on_client_close(n, c) ==
    /\ view[n][c] # Absent /\ view' = [view EXCEPT ![n][c] = Absent]
    /\ UNCHANGED <<master, up, started, data, reachable, cached_data, fails, changes, opened, even>>

-----------------------------------------------------------------------------

HttpNext ==
    \/ LoseRole \/ \E d \in Data : Change(d)
    \/ \E n \in Server :
         \/ BecomeMaster(n) \/ Die(n) \/ ComeBack(n) \/ LoseRedis(n) \/ reconnect(n)
         \/ PortTaken(n) \/ Http_Gate_Callback(n) \/ poll_and_broadcast(n)
         \/ \E c \in Client : add_client(n, c) \/ on_client_close(n, c)

\* The gate and the poll are timers, reconnect() is tried with every call.
HttpFairness ==
    \A n \in Server : /\ WF_httpVars(Http_Gate_Callback(n))
                      /\ WF_httpVars(poll_and_broadcast(n)) /\ WF_httpVars(reconnect(n))

HttpSpec == HttpInit /\ [][HttpNext]_httpVars /\ HttpFairness

-----------------------------------------------------------------------------

HttpTypeOK ==
    /\ master \in Server \cup {NoNode}
    /\ {up, started, reachable, even} \subseteq [Server -> BOOLEAN]
    /\ data \in Data /\ cached_data \in [Server -> Data]
    /\ view \in [Server -> [Client -> Data \cup {Absent}]]
    /\ {fails, changes, opened} \subseteq Nat

\* A node that stays master serves in the end, also if its port was taken at first.
MasterServes == \A n \in Server : master = n ~> started[n] \/ master # n

\* A stream gets what Redis has come to, an empty hash and the time after a lost
\* connection included, unless one was opened that was ahead of it, or was given
\* an empty snapshot: then it has to wait for the next change (see the README).
ChangesArrive ==
    \A n \in Server, c \in Client :
        view[n][c] # Absent /\ even[n] ~> view[n][c] \in {Absent, fetcher(n)} \/ ~even[n]
=============================================================================
