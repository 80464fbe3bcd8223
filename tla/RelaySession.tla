----------------------------- MODULE RelaySession -----------------------------
(***************************************************************************)
(* One relay task on one node (relay_pull, relay_push, Carrier in          *)
(* ntrip_global.h, outgoing connections in connect_bev).                   *)
(*                                                                         *)
(* A session connects to the far end, sends its request, registers with    *)
(* CASTER when the answer is good, for a push task subscribes to the mount *)
(* point, and runs.  Whatever fails leads to schedule_retry: the           *)
(* connection is cleaned up and a timer connects again.  Registrations are *)
(* answered by Redis; the answer finds the object through a plain pointer  *)
(* and does not say which connection it is about.                          *)
(*                                                                         *)
(* task is what the loop keeps for the task: the fields of the object, and *)
(* the entries of connect_bev and CASTER.  The methods of the classes are  *)
(* functions from such a record to the next.  The delays of the backoff    *)
(* are not told apart.                                                     *)
(***************************************************************************)
EXTENDS Naturals, Sequences, FiniteSets

CONSTANTS
    Kinds,       \* kinds of tasks considered: "pull", "push"
    Aliases,     \* TRUE: the mount point of a push task is an alias; FALSE: it is plain
    Prompt,      \* TRUE: Redis answers before anything else happens; FALSE: any time
    MaxConns,    \* bound: connections opened
    MaxOrders,   \* bound: orders to create the session
    MaxFails,    \* bound: failures of connections, handshakes, subscriptions; kicks
    MaxRefusals  \* bound: registrations refused

ASSUME ConstantsOK ==
    /\ Kinds \subseteq {"pull", "push"} /\ Prompt \subseteq BOOLEAN /\ Aliases \subseteq BOOLEAN
    /\ {MaxConns, MaxOrders, MaxFails, MaxRefusals} \subseteq Nat

VARIABLES
    kind, prompt,
    alias,       \* _mount_point is an alias, always of the same base
    task,
    pending,     \* registrations sent to Redis, not answered
    conns, orders, fails, refusals

vars == <<kind, prompt, alias, task, pending, conns, orders, fails, refusals>>

States == {"Idle", "Connecting", "Handshaking", "Registering", "Subscribing",
           "Running", "WaitingRetry"}
Conns == 1 .. MaxConns
\* A callback CASTER keeps: connect_key (0: empty) and pointer to the session.
Entry == [conn : 0 .. MaxConns, obj : 1 .. MaxOrders]
Task == [id : 0 .. MaxOrders,      \* the object in m_obj_map, 0 if none
         state : States,
         key : 0 .. MaxConns,      \* _connect_key, 0 when empty
         open : BOOLEAN,           \* its connection is established
         registered : BOOLEAN, subscribed : BOOLEAN,
         timer : BOOLEAN,          \* _timeout_ev_flag
         leftover : BOOLEAN,       \* bytes in _recv_evbuf
         bevs : SUBSET Conns,      \* _connect_map
         registers : SUBSET Entry, \* _base_register_map, _rover_register_map, _kick_map
         subs : SUBSET Entry,      \* _base_sub_map
         reported : BOOLEAN]       \* state of the task in its status

NoTask == [id |-> 0, state |-> "Idle", key |-> 0, open |-> FALSE, registered |-> FALSE,
           subscribed |-> FALSE, timer |-> FALSE, leftover |-> FALSE,
           bevs |-> {}, registers |-> {}, subs |-> {}, reported |-> FALSE]

Init ==
    /\ kind \in Kinds /\ prompt \in Prompt
    /\ alias \in Aliases /\ (alias => kind = "push")
    /\ task = NoTask /\ pending = <<>>
    /\ conns = 0 /\ orders = 0 /\ fails = 0 /\ refusals = 0

-----------------------------------------------------------------------------
(* Methods of relay_pull and relay_push.                                   *)

\* The callback of the session in its present connection.
Own(t) == [conn |-> t.key, obj |-> t.id]
OthersThan(t, entries) == {e \in entries : e.conn # t.key}

\* Unsub_Raw_Data looks under _mount_point.  The callback of an alias is under
\* the base it stands for, and stays.
Unsubscribed(t) == IF t.subscribed /\ ~alias THEN OthersThan(t, t.subs) ELSE t.subs

\* Mistake: the registration is not withdrawn.
CleanupUnwithdrawn(t) ==
    IF t.key = 0 THEN t
    ELSE [t EXCEPT !.subs = Unsubscribed(t),
                   !.registered = FALSE, !.subscribed = FALSE,
                   !.bevs = @ \ {t.key}, !.key = 0, !.open = FALSE]
\* Withdraw_Record goes by the key of the connection.
cleanup_connection(t) ==
    IF t.key = 0 THEN t
    ELSE [t EXCEPT !.subs = Unsubscribed(t),
                   !.registers = IF t.registered THEN OthersThan(t, @) ELSE @,
                   !.registered = FALSE, !.subscribed = FALSE,
                   !.bevs = @ \ {t.key}, !.key = 0, !.open = FALSE]

\* Mistake: the old connection is not cleaned up.
RetryOnly(t) == [t EXCEPT !.state = "WaitingRetry", !.timer = TRUE, !.reported = FALSE]
\* It is, and the timer set; the status says that the task does not run.
schedule_retry(t) ==
    [cleanup_connection(t) EXCEPT !.state = "WaitingRetry", !.timer = TRUE, !.reported = FALSE]

\* new_bev returns the key c, or 0 when the connection cannot be created.
start_connect(t, c) ==
    LET s == [t EXCEPT !.timer = FALSE, !.state = "Connecting", !.key = c] IN
    IF c = 0 THEN schedule_retry(s) ELSE [s EXCEPT !.bevs = @ \cup {c}]

\* stop(), and the destructor: nobody else shares the object.
stop(t) == [cleanup_connection(t) EXCEPT !.timer = FALSE, !.state = "Idle", !.id = 0,
                                         !.leftover = FALSE]

running(t) == [t EXCEPT !.state = "Running", !.reported = TRUE]

\* sub_base_channel keeps the callback and answers OK at once; a key that is
\* there already keeps its callback.
Subscribed(t) ==
    running([t EXCEPT !.registered = TRUE, !.subscribed = TRUE,
                      !.subs = IF \E e \in @ : e.conn = t.key THEN @ ELSE @ \cup {Own(t)}])

-----------------------------------------------------------------------------
(* Orders from the master.                                                 *)

\* If the answers are prompt, nothing happens while one is due.
Undisturbed == prompt => pending = <<>>

\* A new connection, or a failure to create it.
Connects(t) ==
    \/ /\ conns < MaxConns /\ conns' = conns + 1
       /\ task' = start_connect(t, conns + 1) /\ UNCHANGED fails
    \/ /\ fails < MaxFails /\ fails' = fails + 1
       /\ task' = start_connect(t, 0) /\ UNCHANGED conns

\* Carrier::createObject stops the object it replaces, destroyObject the object
\* there is; the status is new, or removed.
createObject(t) == [stop(t) EXCEPT !.id = orders + 1, !.reported = FALSE]
destroyObject(t) == [stop(t) EXCEPT !.reported = FALSE]

\* process_relay with ACTIVE.
Create ==
    /\ Undisturbed /\ orders < MaxOrders
    /\ orders' = orders + 1
    /\ Connects(createObject(task))
    /\ UNCHANGED <<kind, prompt, alias, pending, refusals>>

\* process_relay with INACTIVE.
Destroy ==
    /\ Undisturbed /\ task.id # 0
    /\ task' = destroyObject(task)
    /\ UNCHANGED <<kind, prompt, alias, pending, conns, orders, fails, refusals>>

-----------------------------------------------------------------------------
(* Callbacks of the connection and the timer.                              *)

\* EventCallback with CONNECTED: handle_connected sends the request.
Connected ==
    /\ Undisturbed /\ task.key # 0 /\ ~task.open
    /\ task' = IF task.state = "Connecting"
               THEN [task EXCEPT !.open = TRUE, !.state = "Handshaking"]
               ELSE schedule_retry(task)
    /\ UNCHANGED <<kind, prompt, alias, pending, conns, orders, fails, refusals>>

\* The rest of EventCallback, and CasterSubscribeCallback or
\* CasterRegisterCallback with ERR.
Fail(t) ==
    /\ fails < MaxFails /\ fails' = fails + 1
    /\ task' = schedule_retry(t)

EventCallback ==
    /\ Undisturbed /\ task.key # 0
    /\ Fail(task)
    /\ UNCHANGED <<kind, prompt, alias, pending, conns, orders, refusals>>

\* Mistake: the bytes stay in the buffer when the answer is refused.
NotDrained(t) == t
\* evbuffer_remove of all that is there.
Drained(t) == [t EXCEPT !.leftover = FALSE]

\* verify_ntrip_response looks at all bytes in the buffer, those left by an
\* earlier connection first.
handle_handshake ==
    /\ Undisturbed /\ task.state = "Handshaking" /\ task.open
    /\ LET t == Drained(task) IN
       \/ /\ task.leftover
          /\ task' = schedule_retry(t) /\ UNCHANGED <<pending, fails>>
       \/ Fail(t) /\ UNCHANGED pending
       \/ /\ ~task.leftover
          /\ task' = [t EXCEPT !.state = "Registering", !.registers = @ \cup {Own(t)}]
          /\ pending' = Append(pending, Own(t))
          /\ UNCHANGED fails
    /\ UNCHANGED <<kind, prompt, alias, conns, orders, refusals>>

\* ReadCallback in the other states.  A running pull task publishes what it
\* can, keeps an incomplete chunk, and reconnects when a chunk has no complete
\* header line; a running push task does not read.
ReadCallback ==
    /\ task.open
    /\ \/ /\ task.state \in {"Registering", "Subscribing"}
          /\ task' = [task EXCEPT !.leftover = TRUE] /\ UNCHANGED fails
       \/ /\ task.state = "Running" /\ kind = "pull"
          /\ \/ \E b \in BOOLEAN : task' = [task EXCEPT !.leftover = b] /\ UNCHANGED fails
             \/ Undisturbed /\ Fail([task EXCEPT !.leftover = TRUE])
    /\ UNCHANGED <<kind, prompt, alias, pending, conns, orders, refusals>>

TimeoutCallback ==
    /\ Undisturbed /\ task.timer /\ task.state = "WaitingRetry"
    /\ Connects(task)
    /\ UNCHANGED <<kind, prompt, alias, pending, orders, refusals>>

-----------------------------------------------------------------------------
(* Callbacks of CASTER.                                                    *)

\* Mistake: a push task runs once it is registered.
RegisteredNotSubscribed(t) ==
    task' = running([t EXCEPT !.registered = TRUE]) /\ UNCHANGED fails
\* CasterRegisterCallback with OK.  For a push task Sub_Raw_Data calls back
\* before it returns, with ERR if the mount point is not active.
Registered(t) ==
    IF kind = "pull"
    THEN task' = running([t EXCEPT !.registered = TRUE]) /\ UNCHANGED fails
    ELSE \/ task' = Subscribed(t) /\ UNCHANGED fails
         \/ Fail([t EXCEPT !.registered = TRUE])

\* The answer to the oldest registration.  A refusal is not delivered (see
\* SessionLifecycle), and a call of a freed object that is not fatal (see
\* Undefined) does nothing.
Answered ==
    /\ pending # <<>> /\ pending' = Tail(pending)
    /\ \/ /\ Head(pending).obj = task.id
          /\ Registered(task) /\ UNCHANGED refusals
       \/ /\ Head(pending).obj # task.id
          /\ UNCHANGED <<task, fails, refusals>>
       \/ /\ refusals < MaxRefusals /\ refusals' = refusals + 1
          /\ UNCHANGED <<task, fails>>
    /\ UNCHANGED <<kind, prompt, alias, conns, orders>>

\* A rover of this key is kicked, or the base station of the mount point has
\* gone: ERR, for a push task only.
Ended ==
    /\ Undisturbed /\ kind = "push"
    /\ \E e \in task.registers \cup task.subs : e.obj = task.id
    /\ Fail(task)
    /\ UNCHANGED <<kind, prompt, alias, pending, conns, orders, refusals>>

\* A callback is due for a freed object, or data for a push task that runs
\* without a connection.
Undefined ==
    \/ pending # <<>> /\ Head(pending).obj # task.id
    \/ kind = "push" /\ \E e \in task.registers \cup task.subs : e.obj # task.id
    \/ kind = "push" /\ task.state = "Running" /\ task.key = 0 /\ task.subs # {}

\* The process ends, and another one starts.
DieOfUndefined ==
    /\ Undefined
    /\ task' = NoTask /\ pending' = <<>>
    /\ UNCHANGED <<kind, prompt, alias, conns, orders, fails, refusals>>

-----------------------------------------------------------------------------
Next ==
    \/ Create \/ Destroy
    \/ Connected \/ EventCallback \/ handle_handshake \/ ReadCallback \/ TimeoutCallback
    \/ Answered \/ Ended \/ DieOfUndefined

Spec == Init /\ [][Next]_vars

\* The far end accepts the connection and answers the request (there is no
\* timeout for either), Redis answers, timers fire.  Orders, failures and data
\* are not forced.
Fairness == /\ WF_vars(Connected) /\ WF_vars(handle_handshake)
            /\ WF_vars(TimeoutCallback) /\ WF_vars(Answered)

FairSpec == Spec /\ Fairness

-----------------------------------------------------------------------------
(* Properties.                                                             *)

\* The types of the variables.
TypeOK ==
    /\ kind \in Kinds /\ prompt \in Prompt /\ alias \in Aliases
    /\ task \in Task
    /\ pending \in Seq(Entry)
    /\ conns \in 0 .. MaxConns /\ orders \in 0 .. MaxOrders
    /\ fails \in 0 .. MaxFails /\ refusals \in 0 .. MaxRefusals

\* However late registrations are answered, the task has no connection but the
\* one its object would close: no retry, replacement or stop leaves one behind.
OneConnection == task.bevs = {task.key} \ {0}

\* With prompt answers and a plain mount point CASTER keeps no pointer but that
\* of the object in its present connection: cleanup_connection withdraws all
\* there is to withdraw.  Of an alias this is only so of registrations.  (A
\* refused registration stays behind.)
EntriesLive == prompt /\ refusals = 0 =>
    \A e \in task.registers \cup {pending[i] : i \in DOMAIN pending}
             \cup (IF alias THEN {} ELSE task.subs) :
        e = Own(task) /\ task.key # 0

Up == task.state = "Running" /\ task.open

\* With prompt answers, a task whose status says that it runs has a connection
\* that is registered, and subscribed if it is a push task.
StatusTruthful == prompt /\ task.reported =>
    Up /\ Own(task) \in task.registers /\ (kind = "push" => Own(task) \in task.subs)

\* A session runs in the end, unless it is destroyed.
Recovers == (task.id # 0) ~> (task.id = 0 \/ Up)

\* It does if registrations are answered promptly and none is refused.
PromptRecovers == prompt => <>(refusals > 0) \/ Recovers
=============================================================================
