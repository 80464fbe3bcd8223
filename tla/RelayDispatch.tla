---------------------------- MODULE RelayDispatch ----------------------------
(***************************************************************************)
(* Distribution of relay pull tasks (caster_internal.cpp, Carrier,         *)
(* http_handler.cpp); push tasks run through a twin of the same code.      *)
(*                                                                         *)
(* The HTTP API edits PULL:RECORD.  Every node uploads its status map to   *)
(* PULL:STAT and replaces it by what PULL:STAT holds, on every timer.  The *)
(* node that renews CASTER:MASTER compares records and statuses and        *)
(* publishes orders on its own channel NODE:<id>, where its relay callback *)
(* creates and destroys the sessions.  All commands of a node go through   *)
(* one pipeline and are answered in order; the channel is delivered on     *)
(* another connection, so it may overtake or lag behind the answers.       *)
(*                                                                         *)
(* Definitions under "Mistake:" are wrong variants of the one that follows *)
(* them, for the mutants of PROJECT.json.                                  *)
(***************************************************************************)
EXTENDS Naturals, Sequences, FiniteSets, SequencesExt

CONSTANTS
    Node,         \* the nodes of the cluster
    NoNode,       \* CASTER:MASTER is free
    Uid,          \* the relay tasks
    Cfg,          \* the configurations of a task (its record without "enabled")
    Absent,       \* no record, no session, nothing distributed
    AdminOps,     \* the requests the HTTP API receives
    UpdateTo,     \* values of "enabled" that update requests carry
    Overlap,      \* TRUE: a timer may fire before its last round is over
    MaxPipe,      \* bound: commands, answers and messages of a node
    MaxEdits,     \* bound: requests to the HTTP API
    MaxStall,     \* bound: statuses that expire although a node holds them
    MaxLost,      \* bound: NODE messages lost with the subscription
    MaxCrash      \* bound: crashes

ASSUME ConstantsOK ==
    /\ NoNode \notin Node /\ Absent \notin Cfg /\ IsFiniteSet(Uid)
    /\ AdminOps \subseteq {"create", "update", "delete", "start", "stop"}
    /\ UpdateTo \subseteq BOOLEAN /\ Overlap \in BOOLEAN
    /\ {MaxPipe, MaxEdits, MaxStall, MaxLost, MaxCrash} \subseteq Nat

VARIABLES
    record,      \* PULL:RECORD
    stat,        \* the fields of PULL:STAT
    lock,        \* CASTER:MASTER
    cleanup,     \* statuses the HTTP thread is about to delete
    up,
    local,       \* _pull_status_map
    records,     \* _pull_record_map
    dist,        \* _pull_record_distributed
    session,     \* Pulls: the configuration each running session was created with
    pipe,        \* commands sent, not executed
    answers,     \* answers whose callback has not run
    channel,     \* messages published on NODE:<n>, not delivered
    cut,         \* history: tasks whose status a node may miss although they run, see Missed
    edits, stalls, lost, crashes

redisVars == <<record, stat, lock>>
nodeVars == <<up, local, records, dist, session>>
wireVars == <<pipe, answers, channel>>
faultVars == <<stalls, lost, crashes>>
vars == <<redisVars, cleanup, nodeVars, wireVars, cut, edits, faultVars>>

Record == [cfg : Cfg, enabled : BOOLEAN]
Message == [op : {"ACTIVE", "INACTIVE"}, uid : Uid, cfg : Cfg \cup {Absent}]
Command == [cmd : {"STAT", "RECORD", "NODE", "RENEW"}]
           \cup [cmd : {"HSETEX"}, uids : SUBSET Uid]
           \cup [cmd : {"HDEL"}, uid : Uid]
           \cup [cmd : {"PUBLISH"}, msg : Message]
Answer == [cmd : {"STAT"}, val : SUBSET Uid]
          \cup [cmd : {"RECORD"}, val : [Uid -> Record \cup {Absent}]]
          \cup [cmd : {"RENEW"}, ok : BOOLEAN]
          \cup [cmd : {"NODE"}]

Enabled(r) == r # Absent /\ r.enabled

Init ==
    /\ record = [u \in Uid |-> Absent] /\ stat = {} /\ lock = NoNode
    /\ cleanup = {}
    /\ up = [n \in Node |-> TRUE]
    /\ local = [n \in Node |-> {}]
    /\ records = [n \in Node |-> [u \in Uid |-> Absent]]
    /\ dist = [n \in Node |-> [u \in Uid |-> Absent]]
    /\ session = [n \in Node |-> [u \in Uid |-> Absent]]
    /\ pipe = [n \in Node |-> <<>>]
    /\ answers = [n \in Node |-> <<>>]
    /\ channel = [n \in Node |-> <<>>]
    /\ cut = [n \in Node |-> {}]
    /\ edits = 0 /\ stalls = 0 /\ lost = 0 /\ crashes = 0

-----------------------------------------------------------------------------
(* What is under way at node n.                                            *)

Backlog(n) == Len(pipe[n]) + Len(answers[n]) + Len(channel[n])
Quiet(n) == Backlog(n) = 0

\* A round of n: commands that are waiting, or answers.
Rounds == {"STAT", "RENEW", "RECORD", "NODE"}
Has(q, C) == \E i \in DOMAIN q : q[i].cmd \in C
InRound(n) == answers[n] # <<>> \/ Has(pipe[n], Rounds)
Uploading(n, u) == pipe[n] # <<>> /\ Head(pipe[n]).cmd = "HSETEX" /\ u \in Head(pipe[n]).uids

\* Statuses us are removed: sessions of a node that has uploaded them in a round
\* that is not over may be missing in what it reads next.
Missed(us) == cut' = [n \in Node |->
    cut[n] \cup {u \in us : session[n][u] # Absent /\ InRound(n) /\ ~Uploading(n, u)}]
\* Commands are sent while others are under way: any task may be missed.
Overtaken(n) == cut' = IF Quiet(n) THEN cut ELSE [cut EXCEPT ![n] = Uid]
\* An order for u is carried out: what was missed of u is made good, between rounds.
Handled(n, u) == cut' = IF InRound(n) THEN cut ELSE [cut EXCEPT ![n] = @ \ {u}]

-----------------------------------------------------------------------------
(* The HTTP API of the master: one thread, one synchronous command at a    *)
(* time.                                                                   *)

Edit(op, u, r) ==
    /\ op \in AdminOps /\ edits < MaxEdits /\ cleanup = {}
    /\ edits' = edits + 1
    /\ record' = [record EXCEPT ![u] = r]
    /\ cleanup' = IF op \in {"update", "delete"} THEN {u} ELSE {}
    /\ UNCHANGED <<stat, lock, nodeVars, wireVars, cut, faultVars>>

CreatePull(u, c) ==
    record[u] = Absent /\ Edit("create", u, [cfg |-> c, enabled |-> TRUE])
UpdatePull(u, r) == r.enabled \in UpdateTo /\ Edit("update", u, r)
DeletePull(u) == record[u] # Absent /\ Edit("delete", u, Absent)
RelayStart(u) ==
    /\ record[u] # Absent /\ ~record[u].enabled
    /\ Edit("start", u, [record[u] EXCEPT !.enabled = TRUE])
RelayStop(u) == Enabled(record[u]) /\ Edit("stop", u, [record[u] EXCEPT !.enabled = FALSE])

\* The second command of update and delete: HDEL PULL:STAT.
CleanupStat ==
    /\ cleanup # {}
    /\ stat' = stat \ cleanup /\ cleanup' = {} /\ Missed(cleanup \cap stat)
    /\ UNCHANGED <<record, lock, nodeVars, wireVars, edits, faultVars>>

-----------------------------------------------------------------------------
(* The event loop of node n.                                               *)

Send(n, cs) == pipe' = [pipe EXCEPT ![n] = @ \o cs]

\* Mistake: only statuses that changed are uploaded, so none is renewed.
UploadNothing(n) == [cmd |-> "HSETEX", uids |-> {}]
\* upload_relay_status: the whole map, with an expiry on every field.
Upload(n) == [cmd |-> "HSETEX", uids |-> local[n]]

\* upload_relay_status, try_set_master_node and download_active_item; the GET
\* and IFEQ of the election are part of "RENEW".
TimeoutCallback(n) ==
    /\ up[n]
    /\ IF Overlap THEN Backlog(n) + 3 =< MaxPipe ELSE Quiet(n)
    /\ Send(n, <<Upload(n), [cmd |-> "STAT"], [cmd |-> "RENEW"]>>) /\ Overtaken(n)
    /\ UNCHANGED <<redisVars, cleanup, nodeVars, answers, channel, edits, faultVars>>

\* update_pull_base_info: a session reports its state.
ReportState(n, u) ==
    /\ up[n] /\ session[n][u] # Absent /\ u \in local[n]
    /\ IF Overlap THEN Backlog(n) + 1 =< MaxPipe ELSE Quiet(n)
    /\ Send(n, <<[cmd |-> "HSETEX", uids |-> {u}]>>) /\ Overtaken(n)
    /\ UNCHANGED <<redisVars, cleanup, nodeVars, answers, channel, edits, faultVars>>

Handles(n, c) ==
    /\ up[n] /\ answers[n] # <<>> /\ Head(answers[n]).cmd = c
    /\ answers' = [answers EXCEPT ![n] = Tail(@)]
    /\ UNCHANGED <<redisVars, cleanup, up, session, channel, cut, edits, faultVars>>

\* A renewed master goes on with sync_cluster_state.
Redis_KeepMaster_Callback(n) ==
    /\ Handles(n, "RENEW")
    /\ IF Head(answers[n]).ok
       THEN Send(n, <<[cmd |-> "RECORD"], [cmd |-> "STAT"], [cmd |-> "NODE"]>>)
       ELSE pipe' = pipe
    /\ UNCHANGED <<local, records, dist>>

Redis_SyncPullList_Callback(n) ==
    /\ Handles(n, "RECORD")
    /\ records' = [records EXCEPT ![n] = Head(answers[n]).val]
    /\ UNCHANGED <<local, dist, pipe>>

\* The status map becomes what PULL:STAT held, whoever runs the tasks.
Redis_SyncPullStat_Callback(n) ==
    /\ Handles(n, "STAT")
    /\ local' = [local EXCEPT ![n] = Head(answers[n]).val]
    /\ UNCHANGED <<records, dist, pipe>>

\* relay_pull_task_distribution: enabled tasks nobody has a status for are
\* started; those in service with another configuration than the one remembered
\* are stopped, to be started by a later round; so are the others in service.
\* Mistake: a task that was distributed once is not started again.
StartsNew(n) == {u \in Uid \ local[n] : Enabled(records[n][u]) /\ dist[n][u] = Absent}
Starts(n) == {u \in Uid \ local[n] : Enabled(records[n][u])}
\* Mistake: tasks that this master did not distribute are left alone.
RestartsOwn(n) == {u \in local[n] : /\ Enabled(records[n][u]) /\ dist[n][u] # Absent
                                    /\ dist[n][u] # records[n][u].cfg}
Restarts(n) == {u \in local[n] : Enabled(records[n][u]) /\ dist[n][u] # records[n][u].cfg}
\* Mistake: a disabled task is forgotten instead of stopped.
StopsDeleted(n) == {u \in local[n] : records[n][u] = Absent}
Stops(n) == {u \in local[n] : ~Enabled(records[n][u])}

Orders(n) ==
    {[op |-> "ACTIVE", uid |-> u, cfg |-> records[n][u].cfg] : u \in Starts(n)}
    \cup {[op |-> "INACTIVE", uid |-> u, cfg |-> Absent] : u \in Restarts(n) \cup Stops(n)}

\* Mistake: a changed record is remembered although only INACTIVE was sent.
RememberAll(n) ==
    [u \in Uid |-> IF Enabled(records[n][u]) THEN records[n][u].cfg ELSE Absent]
Remember(n) == [u \in Uid |-> IF u \in Starts(n) THEN records[n][u].cfg
                              ELSE IF u \in Restarts(n) \cup Stops(n) THEN Absent
                              ELSE dist[n][u]]

Redis_SyncClusterNode_Callback(n) ==
    /\ Handles(n, "NODE")
    /\ Send(n, SetToSeq({[cmd |-> "PUBLISH", msg |-> m] : m \in Orders(n)}))
    /\ dist' = [dist EXCEPT ![n] = Remember(n)]
    /\ UNCHANGED <<local, records>>

\* relay_task_response: known tasks are not started again, unknown ones not
\* stopped; process_relay and Carrier create (replace) or destroy the session.
Redis_NodeChannel_Callback(n) ==
    /\ up[n] /\ channel[n] # <<>>
    /\ channel' = [channel EXCEPT ![n] = Tail(@)]
    /\ LET m == Head(channel[n]) IN
       \/ /\ m.op = "ACTIVE" /\ m.uid \notin local[n]
          /\ local' = [local EXCEPT ![n] = @ \cup {m.uid}]
          /\ session' = [session EXCEPT ![n][m.uid] = m.cfg]
          /\ pipe' = pipe /\ Handled(n, m.uid)
       \/ /\ m.op = "INACTIVE" /\ m.uid \in local[n]
          /\ local' = [local EXCEPT ![n] = @ \ {m.uid}]
          /\ session' = [session EXCEPT ![n][m.uid] = Absent]
          /\ Send(n, <<[cmd |-> "HDEL", uid |-> m.uid]>>) /\ Handled(n, m.uid)
       \/ /\ (m.op = "ACTIVE") <=> (m.uid \in local[n])
          /\ UNCHANGED <<local, session, pipe, cut>>
    /\ UNCHANGED <<redisVars, cleanup, up, records, dist, answers, edits, faultVars>>

-----------------------------------------------------------------------------
(* Redis executes the head of a node's pipeline.                           *)

Executes(n, c) ==
    /\ pipe[n] # <<>> /\ Head(pipe[n]).cmd = c
    /\ pipe' = [pipe EXCEPT ![n] = Tail(@)]
    /\ UNCHANGED <<record, cleanup, nodeVars, cut, edits, faultVars>>

Answers(n, a) ==
    answers' = IF up[n] THEN [answers EXCEPT ![n] = Append(@, a)] ELSE answers

ExecHset(n) ==
    /\ Executes(n, "HSETEX")
    /\ stat' = stat \cup Head(pipe[n]).uids
    /\ UNCHANGED <<lock, answers, channel>>

ExecHdel(n) ==
    /\ Executes(n, "HDEL")
    /\ stat' = stat \ {Head(pipe[n]).uid}
    /\ UNCHANGED <<lock, answers, channel>>

ExecRead(n) ==
    /\ \/ Executes(n, "STAT") /\ Answers(n, [cmd |-> "STAT", val |-> stat])
       \/ Executes(n, "RECORD") /\ Answers(n, [cmd |-> "RECORD", val |-> record])
       \/ Executes(n, "NODE") /\ Answers(n, [cmd |-> "NODE"])
    /\ UNCHANGED <<stat, lock, channel>>

\* SET NX, then SET IFEQ, of the round.
ExecRenew(n) ==
    /\ Executes(n, "RENEW")
    /\ lock' = IF lock = NoNode THEN n ELSE lock
    /\ Answers(n, [cmd |-> "RENEW", ok |-> lock' = n])
    /\ UNCHANGED <<stat, channel>>

\* Mistake: every node subscribes to the same channel.
Everybody(n) == {m \in Node : up[m]}
\* Nobody listens on the channel of a node that is down.
Subscribers(n) == {m \in {n} : up[m]}

ExecPublish(n) ==
    /\ Executes(n, "PUBLISH")
    /\ channel' = [m \in Node |-> IF m \in Subscribers(n)
                                  THEN Append(channel[m], Head(pipe[n]).msg) ELSE channel[m]]
    /\ UNCHANGED <<stat, lock, answers>>

-----------------------------------------------------------------------------
(* Expiry and faults.                                                      *)

Renewing(u) ==
    \E n \in Node : \/ up[n] /\ u \in local[n]
                    \/ \E i \in 1 .. Len(pipe[n]) :
                         pipe[n][i].cmd = "HSETEX" /\ u \in pipe[n][i].uids

\* A status nobody uploads any more expires; a stalled cluster also loses one
\* that is still in use.
ExpireStat(u) ==
    /\ u \in stat
    /\ \/ ~Renewing(u) /\ stalls' = stalls
       \/ Renewing(u) /\ stalls < MaxStall /\ stalls' = stalls + 1
    /\ stat' = stat \ {u} /\ Missed({u})
    /\ UNCHANGED <<record, lock, cleanup, nodeVars, wireVars, edits, lost, crashes>>

\* CASTER:MASTER expires after its holder died.
ExpireLock ==
    /\ lock # NoNode /\ ~up[lock] /\ pipe[lock] = <<>>
    /\ lock' = NoNode
    /\ UNCHANGED <<record, stat, cleanup, nodeVars, wireVars, cut, edits, faultVars>>

\* The subscribing connection is reset: what was on its way is lost.
LoseMessage(n) ==
    /\ up[n] /\ channel[n] # <<>> /\ lost < MaxLost
    /\ lost' = lost + 1
    /\ channel' = [channel EXCEPT ![n] = <<>>]
    /\ UNCHANGED <<redisVars, cleanup, nodeVars, pipe, answers, cut, edits, stalls, crashes>>

Crash(n) ==
    /\ up[n] /\ crashes < MaxCrash
    /\ crashes' = crashes + 1
    /\ up' = [up EXCEPT ![n] = FALSE]
    /\ local' = [local EXCEPT ![n] = {}]
    /\ records' = [records EXCEPT ![n] = [u \in Uid |-> Absent]]
    /\ dist' = [dist EXCEPT ![n] = [u \in Uid |-> Absent]]
    /\ session' = [session EXCEPT ![n] = [u \in Uid |-> Absent]]
    /\ answers' = [answers EXCEPT ![n] = <<>>]
    /\ channel' = [channel EXCEPT ![n] = <<>>]
    /\ UNCHANGED <<redisVars, cleanup, pipe, cut, edits, stalls, lost>>

\* start(): init_pub_context reads the statuses before the first timer.
Restart(n) ==
    /\ ~up[n] /\ pipe[n] = <<>>
    /\ up' = [up EXCEPT ![n] = TRUE]
    /\ Send(n, <<[cmd |-> "STAT"]>>) /\ cut' = [cut EXCEPT ![n] = {}]
    /\ UNCHANGED <<redisVars, cleanup, local, records, dist, session, answers, channel,
                   edits, faultVars>>

-----------------------------------------------------------------------------
Admin == \/ \E u \in Uid : \/ \E c \in Cfg : CreatePull(u, c)
                           \/ \E r \in Record : UpdatePull(u, r)
                           \/ DeletePull(u) \/ RelayStart(u) \/ RelayStop(u)
         \/ CleanupStat
Callback(n) == \/ Redis_KeepMaster_Callback(n) \/ Redis_SyncPullList_Callback(n)
               \/ Redis_SyncPullStat_Callback(n) \/ Redis_SyncClusterNode_Callback(n)
Server(n) == \/ ExecHset(n) \/ ExecHdel(n) \/ ExecRead(n) \/ ExecRenew(n) \/ ExecPublish(n)
Fault(n) == LoseMessage(n) \/ Crash(n) \/ Restart(n)

Next ==
    \/ Admin
    \/ \E n \in Node : \/ TimeoutCallback(n) \/ Callback(n) \/ Redis_NodeChannel_Callback(n)
                       \/ \E u \in Uid : ReportState(n, u)
                       \/ Server(n) \/ Fault(n)
    \/ \E u \in Uid : ExpireStat(u)
    \/ ExpireLock

Spec == Init /\ [][Next]_vars

\* The timer is periodic: reports of a session in between do not keep it from
\* firing.  libevent and Redis serve what is ready, expiries happen, the HTTP
\* thread ends its request.  Nothing forces requests, reports or faults.
Fairness ==
    /\ \A n \in Node : /\ SF_vars(TimeoutCallback(n)) /\ WF_vars(Callback(n))
                       /\ WF_vars(Redis_NodeChannel_Callback(n)) /\ WF_vars(Server(n))
    /\ \A u \in Uid : WF_vars(ExpireStat(u) /\ stalls' = stalls)
    /\ WF_vars(ExpireLock) /\ WF_vars(CleanupStat)

FairSpec == Spec /\ Fairness

-----------------------------------------------------------------------------
(* Properties.                                                             *)

TypeOK ==
    /\ record \in [Uid -> Record \cup {Absent}]
    /\ stat \subseteq Uid /\ cleanup \subseteq Uid
    /\ lock \in Node \cup {NoNode}
    /\ up \in [Node -> BOOLEAN]
    /\ local \in [Node -> SUBSET Uid]
    /\ records \in [Node -> [Uid -> Record \cup {Absent}]]
    /\ dist \in [Node -> [Uid -> Cfg \cup {Absent}]]
    /\ session \in [Node -> [Uid -> Cfg \cup {Absent}]]
    /\ pipe \in [Node -> Seq(Command)]
    /\ answers \in [Node -> Seq(Answer)]
    /\ channel \in [Node -> Seq(Message)] /\ cut \in [Node -> SUBSET Uid]
    /\ edits \in 0 .. MaxEdits /\ stalls \in 0 .. MaxStall
    /\ lost \in 0 .. MaxLost /\ crashes \in 0 .. MaxCrash

\* A task never runs on two nodes, whatever messages are lost, statuses expire
\* and masters die and come back, as long as a dead master's key outlives it.
SingleRun == \A u \in Uid, m, n \in Node :
    session[m][u] # Absent /\ session[n][u] # Absent => m = n

\* createObject never has to stop a session of the same task: what runs is only
\* interrupted by an INACTIVE order, although the status map is replaced again and
\* again by what Redis holds.  Requests delete statuses of running tasks, they
\* expire, orders are lost and nodes crash; the exceptions are those in which
\* the code does create twice (cut): a status is removed, by the HDEL of a request
\* or by expiry, after a node's upload and before the last answer of the same
\* round, or the node sends more commands before its last round is over.
NoDoubleCreate == \A n \in Node : channel[n] # <<>> =>
    LET m == Head(channel[n]) IN
    m.op = "ACTIVE" /\ m.uid \notin local[n] \cup cut[n] => session[n][m.uid] = Absent

\* Between rounds, a task the master knows to be in service runs with the
\* configuration the master remembers to have distributed: a change of the
\* record is noticed by comparing with what is remembered, not with what runs.
RunsWhatWasDistributed == \A n \in Node : \A u \in local[n] :
    lock = n /\ Quiet(n) /\ session[n][u] # Absent /\ dist[n][u] # Absent
      => session[n][u] = dist[n][u]

\* A task whose record is enabled ends up running, with the record's
\* configuration, on some node, and stays so.
EnabledRuns == \A u \in Uid, c \in Cfg :
    (<>[](record[u] = [cfg |-> c, enabled |-> TRUE]))
      => <>[](\E n \in Node : session[n][u] = c)

\* The same for clusters in which every node stays up from the start, or in
\* the end only one is: the survivor takes the dead master's tasks over.
AllUpOrOneLeft ==
    \/ [](\A n \in Node : up[n])
    \/ <>[](\E n \in Node : up[n] /\ \A m \in Node \ {n} : ~up[m])
EnabledRunsOnSurvivor == AllUpOrOneLeft => EnabledRuns

\* A task whose record is gone or disabled ends up without a session.
DisabledStops == \A u \in Uid :
    (<>[](~Enabled(record[u]))) => <>[](\A n \in Node : session[n][u] = Absent)
=============================================================================
