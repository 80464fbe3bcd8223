-------------------------- MODULE RelaySessionProofs --------------------------
(***************************************************************************)
(* Proofs about RelaySession, for every value of the bounds.               *)
(*                                                                         *)
(* Shape ties the entry in connect_bev to _connect_key, in any order of    *)
(* events; it gives OneConnection.  PromptShape says what CASTER knows in  *)
(* each state when answers are prompt; it gives EntriesLive and            *)
(* StatusTruthful.  KeysOld keeps an alias apart: its entries stay behind, *)
(* and a connection must not find one under its own key.                   *)
(***************************************************************************)
EXTENDS RelaySession, TLAPS

\* A key belongs to an object and to the socket under it; waiting for a retry
\* means that there is none.
Shape(t) ==
    /\ t.bevs = {t.key} \ {0}
    /\ t.id = 0 => t.key = 0 /\ t.state = "Idle"
    /\ t.open => t.key # 0
    /\ t.state \in {"Idle", "WaitingRetry"} => t.key = 0

\* With prompt answers: one answer is due at most, in state Registering and for
\* the present connection; what is reported, registered and subscribed is what
\* the state says.
PromptShape(t, p, r) ==
    /\ t.state # "Subscribing"
    /\ t.registered <=> t.state = "Running"
    /\ t.reported <=> t.state = "Running"
    /\ t.subscribed <=> t.state = "Running" /\ kind = "push"
    /\ t.state \in {"Handshaking", "Registering", "Running"} => t.open
    /\ ~alias => t.subs = IF t.subscribed THEN {Own(t)} ELSE {}
    /\ t.subscribed => Own(t) \in t.subs
    /\ p = <<>> \/ (p = <<Own(t)>> /\ t.state = "Registering")
    /\ t.state = "Running" \/ p # <<>> => Own(t) \in t.registers
    /\ r = 0 => /\ t.state = "Running" \/ p # <<>> => t.registers = {Own(t)}
                /\ ~(t.state = "Running" \/ p # <<>>) => t.registers = {}
                /\ t.state = "Registering" => p # <<>>

\* What cleanup_connection can undo: entries of the present connection that the
\* flags tell of.
Tidy(t, r) ==
    /\ alias \/ t.subs = {} \/ (t.subs = {Own(t)} /\ t.subscribed /\ t.key # 0)
    /\ r = 0 => t.registers = {} \/ (t.registers = {Own(t)} /\ t.registered /\ t.key # 0)
    /\ t.key = 0 => ~t.registered /\ ~t.subscribed

\* With prompt answers: subscriptions were made under keys handed out so far,
\* and under the present one only by the present object.
KeysOld(t, c) ==
    /\ t.key =< c
    /\ \A e \in t.subs : e.conn \in 1 .. c /\ (e.conn = t.key => e = Own(t) /\ t.subscribed)

IInv == /\ TypeOK
        /\ Shape(task)
        /\ prompt => PromptShape(task, pending, refusals) /\ KeysOld(task, conns)

-----------------------------------------------------------------------------
(* The methods of the classes.                                             *)

\* cleanup_connection leaves no key and no socket, whatever its state.
LEMMA CleanupEffect ==
    ASSUME NEW t \in Task, Shape(t)
    PROVE  LET s == cleanup_connection(t) IN
           /\ s \in Task
           /\ s.key = 0 /\ s.bevs = {} /\ ~s.open
           /\ s.id = t.id /\ s.state = t.state
<1>1. CASE t.key = 0
  BY <1>1 DEF cleanup_connection, Shape, Task
<1>2. CASE t.key # 0
  <2> DEFINE S == Unsubscribed(t)
             R == IF t.registered THEN OthersThan(t, t.registers) ELSE t.registers
             s == [t EXCEPT !.subs = S, !.registers = R, !.registered = FALSE,
                            !.subscribed = FALSE, !.bevs = t.bevs \ {t.key}, !.key = 0,
                            !.open = FALSE]
  <2>1. cleanup_connection(t) = s
    BY <1>2 DEF cleanup_connection
  <2>2. S \in SUBSET Entry /\ R \in SUBSET Entry
    BY DEF Task, OthersThan, Unsubscribed
  <2> HIDE DEF S, R
  <2>3. t.bevs \ {t.key} = {}
    BY DEF Shape
  <2>4. s \in Task
    <3>1. 0 \in 0 .. MaxConns
      BY ConstantsOK
    <3>2. s = [t EXCEPT !.subs = S, !.registers = R, !.registered = FALSE,
                        !.subscribed = FALSE, !.bevs = {}, !.key = 0, !.open = FALSE]
      BY <2>3
    <3>3. QED
      BY <2>2, <3>1, <3>2 DEF Task
  <2>5. /\ s.key = 0 /\ s.bevs = {} /\ ~s.open
        /\ s.id = t.id /\ s.state = t.state
    BY <2>3 DEF Task
  <2>6. QED
    BY <2>1, <2>4, <2>5
<1>3. QED
  BY <1>1, <1>2

\* It takes back what CASTER keeps, if the flags tell of it.
LEMMA CleanupTidy ==
    ASSUME NEW t \in Task, NEW r \in Nat, Tidy(t, r)
    PROVE  LET s == cleanup_connection(t) IN
           /\ (alias \/ s.subs = {}) /\ (r = 0 => s.registers = {})
           /\ ~s.registered /\ ~s.subscribed
<1>1. CASE t.key = 0
  BY <1>1 DEF cleanup_connection, Tidy
<1>2. CASE t.key # 0
  BY <1>2 DEF cleanup_connection, Tidy, OthersThan, Unsubscribed, Own, Task
<1>3. QED
  BY <1>1, <1>2

\* schedule_retry keeps the type and the shape.
LEMMA RetryEffect ==
    ASSUME NEW t \in Task, Shape(t), t.id # 0
    PROVE  /\ schedule_retry(t) \in Task /\ Shape(schedule_retry(t))
           /\ schedule_retry(t).id = t.id
<1> DEFINE s == cleanup_connection(t)
<1>1. /\ s \in Task /\ s.key = 0 /\ s.bevs = {} /\ ~s.open /\ s.id = t.id
  BY CleanupEffect
<1>2. schedule_retry(t) = [s EXCEPT !.state = "WaitingRetry", !.timer = TRUE, !.reported = FALSE]
  BY DEF schedule_retry
<1> HIDE DEF s
<1>3. QED
  BY <1>1, <1>2 DEF Task, States, Shape

\* After it CASTER keeps nothing of the task.
LEMMA RetryPrompt ==
    ASSUME NEW t \in Task, NEW r \in Nat, Shape(t), t.id # 0, Tidy(t, r)
    PROVE  PromptShape(schedule_retry(t), <<>>, r)
<1> DEFINE s == cleanup_connection(t)
<1>1. /\ s \in Task
      /\ (alias \/ s.subs = {}) /\ (r = 0 => s.registers = {})
      /\ ~s.registered /\ ~s.subscribed
  BY CleanupEffect, CleanupTidy
<1>2. schedule_retry(t) = [s EXCEPT !.state = "WaitingRetry", !.timer = TRUE, !.reported = FALSE]
  BY DEF schedule_retry
<1> HIDE DEF s
<1>3. QED
  BY <1>1, <1>2 DEF Task, PromptShape

\* A session at rest has nothing that cleanup_connection could not undo.
LEMMA PromptTidy ==
    ASSUME NEW t \in Task, NEW r \in Nat, Shape(t), PromptShape(t, <<>>, r)
    PROVE  Tidy(t, r)
BY DEF Tidy, PromptShape, Shape, Task

\* stop leaves neither object nor socket, and what it could undo is undone.
LEMMA StopEffect ==
    ASSUME NEW t \in Task, Shape(t)
    PROVE  LET s == stop(t) IN
           /\ s \in Task /\ Shape(s)
           /\ s.id = 0 /\ s.key = 0 /\ s.bevs = {} /\ ~s.open /\ s.state = "Idle"
<1> DEFINE c == cleanup_connection(t)
<1>1. /\ c \in Task /\ c.key = 0 /\ c.bevs = {} /\ ~c.open
  BY CleanupEffect
<1>2. stop(t) = [c EXCEPT !.timer = FALSE, !.state = "Idle", !.id = 0, !.leftover = FALSE]
  BY DEF stop
<1>3. 0 \in 0 .. MaxOrders
  BY ConstantsOK
<1> HIDE DEF c
<1>4. QED
  BY <1>1, <1>2, <1>3 DEF Task, States, Shape

LEMMA StopTidy ==
    ASSUME NEW t \in Task, NEW r \in Nat, Shape(t), Tidy(t, r)
    PROVE  LET s == stop(t) IN
           /\ (alias \/ s.subs = {}) /\ (r = 0 => s.registers = {})
           /\ ~s.registered /\ ~s.subscribed
<1> DEFINE c == cleanup_connection(t)
<1>1. /\ c \in Task /\ (alias \/ c.subs = {}) /\ (r = 0 => c.registers = {})
      /\ ~c.registered /\ ~c.subscribed
  BY CleanupEffect, CleanupTidy
<1>2. stop(t) = [c EXCEPT !.timer = FALSE, !.state = "Idle", !.id = 0, !.leftover = FALSE]
  BY DEF stop
<1> HIDE DEF c
<1>3. QED
  BY <1>1, <1>2 DEF Task

\* start_connect is called without a connection; it opens one or waits again.
LEMMA StartEffect ==
    ASSUME NEW t \in Task, t.key = 0, t.bevs = {}, ~t.open, t.id # 0,
           NEW c \in 0 .. MaxConns
    PROVE  start_connect(t, c) \in Task /\ Shape(start_connect(t, c))
<1> DEFINE s == [t EXCEPT !.timer = FALSE, !.state = "Connecting", !.key = c]
<1>1. /\ s \in Task /\ s.key = c /\ s.bevs = {} /\ ~s.open /\ s.id # 0
      /\ s.state = "Connecting"
  BY DEF Task, States
<1>2. start_connect(t, c) = IF c = 0 THEN schedule_retry(s) ELSE [s EXCEPT !.bevs = @ \cup {c}]
  BY DEF start_connect
<1> HIDE DEF s
<1>3. CASE c = 0
  BY <1>1, <1>2, <1>3, RetryEffect DEF Shape
<1>4. CASE c # 0
  <2>1. c \in Conns
    BY <1>4, ConstantsOK DEF Conns
  <2>2. start_connect(t, c) = [s EXCEPT !.bevs = {c}]
    BY <1>1, <1>2, <1>4
  <2>3. QED
    BY <1>1, <1>4, <2>1, <2>2 DEF Task, Shape
<1>5. QED
  BY <1>3, <1>4

LEMMA StartPrompt ==
    ASSUME NEW t \in Task, t.key = 0, t.bevs = {}, ~t.open, t.id # 0,
           NEW c \in 0 .. MaxConns, NEW r \in Nat,
           alias \/ t.subs = {}, r = 0 => t.registers = {}, ~t.registered, ~t.subscribed, ~t.reported
    PROVE  PromptShape(start_connect(t, c), <<>>, r)
<1> DEFINE s == [t EXCEPT !.timer = FALSE, !.state = "Connecting", !.key = c]
<1>1. /\ s \in Task /\ s.key = c /\ s.bevs = {} /\ ~s.open /\ s.id # 0
      /\ s.state = "Connecting"
      /\ (alias \/ s.subs = {}) /\ (r = 0 => s.registers = {})
      /\ ~s.registered /\ ~s.subscribed /\ ~s.reported
  BY DEF Task, States
<1>2. start_connect(t, c) = IF c = 0 THEN schedule_retry(s) ELSE [s EXCEPT !.bevs = @ \cup {c}]
  BY DEF start_connect
<1> HIDE DEF s
<1>3. CASE c = 0
  <2>1. Shape(s) /\ Tidy(s, r)
    BY <1>1, <1>3 DEF Shape, Tidy
  <2>2. QED
    BY <1>1, <1>2, <1>3, <2>1, RetryPrompt
<1>4. CASE c # 0
  BY <1>1, <1>2, <1>4 DEF Task, PromptShape
<1>5. QED
  BY <1>3, <1>4

-----------------------------------------------------------------------------
(* Types and the shape, for any order of events.                           *)

\* The record of CASTER for a session that has a connection.
LEMMA OwnEntry ==
    ASSUME NEW t \in Task, Shape(t), t.key # 0
    PROVE  Own(t) \in Entry
BY ConstantsOK DEF Own, Entry, Task, Shape

\* Connects keeps types and shape.
LEMMA ConnectsEffect ==
    ASSUME TypeOK, NEW t \in Task, t.key = 0, t.bevs = {}, ~t.open, t.id # 0, Connects(t)
    PROVE  /\ task' \in Task /\ Shape(task')
           /\ conns' \in 0 .. MaxConns /\ fails' \in 0 .. MaxFails
           /\ \E c \in 0 .. MaxConns :
                 /\ task' = start_connect(t, c)
                 /\ (c = 0 /\ conns' = conns) \/ (c = conns + 1 /\ conns' = conns + 1)
<1>1. conns \in 0 .. MaxConns /\ fails \in 0 .. MaxFails
  BY DEF TypeOK
<1>2. CASE conns < MaxConns /\ conns' = conns + 1
           /\ task' = start_connect(t, conns + 1) /\ UNCHANGED fails
  <2>1. conns + 1 \in 0 .. MaxConns
    BY <1>1, <1>2, ConstantsOK
  <2>2. QED
    BY <1>1, <1>2, <2>1, StartEffect
<1>3. CASE fails < MaxFails /\ fails' = fails + 1
           /\ task' = start_connect(t, 0) /\ UNCHANGED conns
  <2>1. 0 \in 0 .. MaxConns /\ fails + 1 \in 0 .. MaxFails
    BY <1>1, <1>3, ConstantsOK
  <2>2. QED
    BY <1>1, <1>3, <2>1, StartEffect
<1>4. QED
  BY <1>2, <1>3 DEF Connects

\* Fail keeps types and shape.
LEMMA FailEffect ==
    ASSUME TypeOK, NEW t \in Task, Shape(t), t.id # 0, Fail(t)
    PROVE  task' \in Task /\ Shape(task') /\ fails' \in 0 .. MaxFails
           /\ task' = schedule_retry(t)
<1>1. fails + 1 \in 0 .. MaxFails
  BY ConstantsOK DEF TypeOK, Fail
<1>2. QED
  BY <1>1, RetryEffect DEF Fail

\* The object made for an order, before it starts.
LEMMA NewObject ==
    ASSUME NEW t \in Task, Shape(t), NEW i \in 1 .. MaxOrders
    PROVE  LET s == [stop(t) EXCEPT !.id = i, !.reported = FALSE] IN
           /\ s \in Task /\ s.key = 0 /\ s.bevs = {} /\ ~s.open /\ s.id # 0
           /\ ~s.reported
           /\ s.registers = stop(t).registers /\ s.subs = stop(t).subs
           /\ s.registered = stop(t).registered /\ s.subscribed = stop(t).subscribed
<1> DEFINE c == stop(t)
<1>1. c \in Task /\ c.key = 0 /\ c.bevs = {} /\ ~c.open
  BY StopEffect
<1>2. i \in 0 .. MaxOrders /\ i # 0
  OBVIOUS
<1> HIDE DEF c
<1>3. QED
  BY <1>1, <1>2 DEF Task, c

\* A push session that subscribes, and a session that runs.
LEMMA RunningEffect ==
    ASSUME NEW t \in Task, Shape(t), t.id # 0
    PROVE  LET s == [t EXCEPT !.registered = TRUE] IN
           /\ s \in Task /\ Shape(s)
           /\ running(s) \in Task /\ Shape(running(s))
BY DEF Task, Shape, running, States

LEMMA SubscribedEffect ==
    ASSUME NEW t \in Task, Shape(t), t.id # 0
    PROVE  Subscribed(t) \in Task /\ Shape(Subscribed(t))
<1> DEFINE S == IF \E e \in t.subs : e.conn = t.key THEN t.subs ELSE t.subs \cup {Own(t)}
<1>1. Own(t) \in Entry
  BY ConstantsOK DEF Own, Entry, Task
<1>2. S \in SUBSET Entry
  BY <1>1 DEF Task
<1>3. Subscribed(t) = [t EXCEPT !.registered = TRUE, !.subscribed = TRUE, !.subs = S,
                                !.state = "Running", !.reported = TRUE]
  BY DEF Subscribed, running
<1> HIDE DEF S
<1>4. QED
  BY <1>2, <1>3 DEF Task, Shape, States

\* No step gives up the types or the shape.
LEMMA StepShape ==
    ASSUME TypeOK, Shape(task), [Next]_vars
    PROVE  TypeOK' /\ Shape(task')
<1> USE DEF TypeOK
<1>1. CASE Create
  <2>1. orders + 1 \in 1 .. MaxOrders
    BY <1>1, ConstantsOK DEF Create
  <2>2. Connects([stop(task) EXCEPT !.id = orders + 1, !.reported = FALSE])
    BY <1>1 DEF Create, createObject
  <2>3. task' \in Task /\ Shape(task') /\ conns' \in 0 .. MaxConns /\ fails' \in 0 .. MaxFails
    BY <2>1, <2>2, NewObject, ConnectsEffect
  <2>4. orders' \in 0 .. MaxOrders
    BY <1>1, <2>1 DEF Create
  <2>5. QED
    BY <1>1, <2>3, <2>4 DEF Create
<1>2. CASE Destroy
  <2> DEFINE c == stop(task)
  <2>1. c \in Task /\ Shape(c)
    BY StopEffect
  <2>2. task' = [c EXCEPT !.reported = FALSE]
    BY <1>2 DEF Destroy, destroyObject
  <2> HIDE DEF c
  <2>3. task' \in Task /\ Shape(task')
    BY <2>1, <2>2 DEF Task, Shape
  <2>4. QED
    BY <1>2, <2>3 DEF Destroy
<1>3. CASE Connected
  <2>1. task' \in Task /\ Shape(task')
    <3>1. CASE task.state = "Connecting"
      <4>1. task' = [task EXCEPT !.open = TRUE, !.state = "Handshaking"]
        BY <1>3, <3>1 DEF Connected
      <4>2. QED
        BY <1>3, <4>1 DEF Connected, Task, Shape, States
    <3>2. CASE task.state # "Connecting"
      <4>1. task.id # 0
        BY <1>3 DEF Connected, Shape
      <4>2. QED
        BY <1>3, <3>2, <4>1, RetryEffect DEF Connected
    <3>3. QED
      BY <3>1, <3>2
  <2>2. QED
    BY <1>3, <2>1 DEF Connected
<1>4. CASE EventCallback
  <2>1. task.id # 0
    BY <1>4 DEF EventCallback, Shape
  <2>2. QED
    BY <1>4, <2>1, FailEffect DEF EventCallback
<1>5. CASE handle_handshake
  <2> DEFINE t == Drained(task)
  <2>1. t \in Task /\ Shape(t) /\ t.id # 0
    BY <1>5 DEF handle_handshake, Task, Shape, Drained
  <2>2. Own(t) \in Entry
    <3>1. t.key # 0
      BY <1>5 DEF handle_handshake, Drained, Task, Shape
    <3>2. QED
      BY <2>1, <3>1, OwnEntry
  <2>3. CASE task' = schedule_retry(t) /\ UNCHANGED <<pending, fails>>
    BY <1>5, <2>1, <2>3, RetryEffect DEF handle_handshake
  <2>4. CASE Fail(t) /\ UNCHANGED pending
    BY <1>5, <2>1, <2>4, FailEffect DEF handle_handshake
  <2>5. CASE /\ task' = [t EXCEPT !.state = "Registering", !.registers = @ \cup {Own(t)}]
             /\ pending' = Append(pending, Own(t))
             /\ UNCHANGED fails
    <3>1. pending' \in Seq(Entry)
      BY <2>2, <2>5
    <3> HIDE DEF t
    <3>2. task' \in Task /\ Shape(task')
      BY <2>1, <2>2, <2>5 DEF Task, Shape, States
    <3>3. QED
      BY <1>5, <2>5, <3>1, <3>2 DEF handle_handshake
  <2>6. QED
    BY <1>5, <2>3, <2>4, <2>5 DEF handle_handshake
<1>6. CASE ReadCallback
  <2>1. \A b \in BOOLEAN : LET t == [task EXCEPT !.leftover = b] IN t \in Task /\ Shape(t)
    BY DEF Task, Shape
  <2>2. \/ \E b \in BOOLEAN : task' = [task EXCEPT !.leftover = b] /\ UNCHANGED fails
        \/ Fail([task EXCEPT !.leftover = TRUE])
    BY <1>6 DEF ReadCallback
  <2>3. task' \in Task /\ Shape(task') /\ fails' \in 0 .. MaxFails
    <3>0. [task EXCEPT !.leftover = TRUE].id # 0
      BY <1>6 DEF ReadCallback, Task, Shape
    <3>1. CASE \E b \in BOOLEAN : task' = [task EXCEPT !.leftover = b] /\ UNCHANGED fails
      BY <2>1, <3>1
    <3>2. CASE Fail([task EXCEPT !.leftover = TRUE])
      BY <2>1, <3>0, <3>2, FailEffect
    <3>3. QED
      BY <2>2, <3>1, <3>2
  <2>4. QED
    BY <1>6, <2>3 DEF ReadCallback
<1>7. CASE TimeoutCallback
  <2>1. task.key = 0 /\ task.bevs = {} /\ ~task.open
    BY <1>7 DEF TimeoutCallback, Shape, Task
  <2>2. task.id # 0
    BY <1>7 DEF TimeoutCallback, Shape
  <2>3. Connects(task)
    BY <1>7 DEF TimeoutCallback
  <2>4. task' \in Task /\ Shape(task') /\ conns' \in 0 .. MaxConns /\ fails' \in 0 .. MaxFails
    BY <2>1, <2>2, <2>3, ConnectsEffect
  <2>5. QED
    BY <1>7, <2>4 DEF TimeoutCallback
<1>8. CASE Answered
  <2>1. Head(pending) \in Entry /\ pending' \in Seq(Entry)
    BY <1>8 DEF Answered
  <2>2. CASE Head(pending).obj = task.id /\ Registered(task) /\ UNCHANGED refusals
    <3>1. task.id # 0
      BY <2>1, <2>2 DEF Entry
    <3>2. [task EXCEPT !.registered = TRUE] \in Task /\ Shape([task EXCEPT !.registered = TRUE])
          /\ [task EXCEPT !.registered = TRUE].id # 0
      BY <3>1, RunningEffect DEF Task
    <3>3. CASE task' = running([task EXCEPT !.registered = TRUE]) /\ UNCHANGED fails
      BY <1>8, <2>1, <2>2, <3>1, <3>3, RunningEffect DEF Answered
    <3>4. CASE task' = Subscribed(task) /\ UNCHANGED fails
      BY <1>8, <2>1, <2>2, <3>1, <3>4, SubscribedEffect DEF Answered
    <3>5. CASE Fail([task EXCEPT !.registered = TRUE])
      <4>1. task' \in Task /\ Shape(task') /\ fails' \in 0 .. MaxFails
        BY <3>2, <3>5, FailEffect
      <4>2. QED
        BY <1>8, <2>1, <2>2, <4>1 DEF Answered
    <3>6. QED
      BY <2>2, <3>3, <3>4, <3>5 DEF Registered
  <2>3. CASE UNCHANGED <<task, fails>> /\ refusals' \in 0 .. MaxRefusals
    BY <1>8, <2>1, <2>3 DEF Answered
  <2>4. refusals < MaxRefusals /\ refusals' = refusals + 1 => refusals' \in 0 .. MaxRefusals
    BY ConstantsOK
  <2>5. QED
    BY <1>8, <2>2, <2>3, <2>4 DEF Answered
<1>9. CASE Ended
  <2>1. task.id # 0
    BY <1>9 DEF Ended, Task, Entry
  <2>2. QED
    BY <1>9, <2>1, FailEffect DEF Ended
<1>10. CASE DieOfUndefined
  <2>1. NoTask \in Task /\ Shape(NoTask)
    BY ConstantsOK DEF NoTask, Task, States, Shape
  <2>2. QED
    BY <1>10, <2>1 DEF DieOfUndefined
<1>11. CASE UNCHANGED vars
  BY <1>11 DEF vars
<1>12. QED
  BY <1>1, <1>2, <1>3, <1>4, <1>5, <1>6, <1>7, <1>8, <1>9, <1>10, <1>11 DEF Next

\* Every reachable state has the types of TypeOK, and the shape.
THEOREM TypesAndShape == Spec => [](TypeOK /\ Shape(task))
<1>1. Init => TypeOK /\ Shape(task)
  BY ConstantsOK DEF Init, TypeOK, Shape, NoTask, Task, States
<1>2. TypeOK /\ Shape(task) /\ [Next]_vars => (TypeOK /\ Shape(task))'
  BY StepShape DEF Shape
<1>3. QED
  BY <1>1, <1>2, PTL DEF Spec

\* Every reachable state has the types of TypeOK.
THEOREM TypeCorrect == Spec => []TypeOK
BY TypesAndShape, PTL

\* In any order of events the task has one connection at most, that of its
\* object (cleanup_connection, start_connect, Carrier).
THEOREM OneConnectionAlways == Spec => []OneConnection
<1>1. TypeOK /\ Shape(task) => OneConnection
  BY DEF Shape, OneConnection
<1>2. QED
  BY <1>1, TypesAndShape, PTL

-----------------------------------------------------------------------------
(* What CASTER knows, if answers are prompt.                               *)

\* No step gives up PromptShape.
LEMMA StepPrompt ==
    ASSUME TypeOK, Shape(task), prompt, PromptShape(task, pending, refusals),
           KeysOld(task, conns), Next
    PROVE  PromptShape(task', pending', refusals')
<1>0. task \in Task /\ refusals \in Nat /\ pending \in Seq(Entry)
  BY DEF TypeOK
<1>T. pending = <<>> => PromptShape(task, <<>>, refusals) /\ Tidy(task, refusals)
  BY <1>0, PromptTidy
<1>1. CASE Create
  <2> DEFINE t == [stop(task) EXCEPT !.id = orders + 1, !.reported = FALSE]
  <2>1. pending = <<>> /\ pending' = <<>> /\ refusals' = refusals
    BY <1>1 DEF Create, Undisturbed
  <2>2. orders + 1 \in 1 .. MaxOrders
    BY <1>1, ConstantsOK DEF Create, TypeOK
  <2>3. /\ t \in Task /\ t.key = 0 /\ t.bevs = {} /\ ~t.open /\ t.id # 0 /\ ~t.reported
        /\ t.registers = stop(task).registers /\ t.subs = stop(task).subs
        /\ t.registered = stop(task).registered /\ t.subscribed = stop(task).subscribed
    BY <1>0, <2>2, NewObject
  <2>4. /\ (alias \/ t.subs = {}) /\ (refusals = 0 => t.registers = {})
        /\ ~t.registered /\ ~t.subscribed
    BY <1>0, <1>T, <2>1, <2>3, StopTidy
  <2>5. Connects(t)
    BY <1>1 DEF Create, createObject
  <2> HIDE DEF t
  <2>6. PICK c \in 0 .. MaxConns : task' = start_connect(t, c)
    BY <2>3, <2>5, ConnectsEffect
  <2>7. QED
    BY <1>0, <2>1, <2>3, <2>4, <2>6, StartPrompt
<1>2. CASE Destroy
  <2> DEFINE c == stop(task)
  <2>1. pending = <<>> /\ pending' = <<>> /\ refusals' = refusals
    BY <1>2 DEF Destroy, Undisturbed
  <2>2. /\ c \in Task /\ c.state = "Idle"
        /\ (alias \/ c.subs = {}) /\ (refusals = 0 => c.registers = {})
        /\ ~c.registered /\ ~c.subscribed
    BY <1>0, <1>T, <2>1, StopEffect, StopTidy
  <2>3. task' = [c EXCEPT !.reported = FALSE]
    BY <1>2 DEF Destroy, destroyObject
  <2> HIDE DEF c
  <2>4. QED
    BY <2>1, <2>2, <2>3 DEF PromptShape, Task
<1>3. CASE Connected
  <2>1. pending = <<>> /\ pending' = <<>> /\ refusals' = refusals /\ task.id # 0
    BY <1>3 DEF Connected, Undisturbed, Shape
  <2>2. CASE task.state = "Connecting"
    <3>1. task' = [task EXCEPT !.open = TRUE, !.state = "Handshaking"]
      BY <1>3, <2>2 DEF Connected
    <3>2. QED
      BY <1>0, <2>1, <2>2, <3>1 DEF PromptShape, Task
  <2>3. CASE task.state # "Connecting"
    BY <1>0, <1>3, <1>T, <2>1, <2>3, RetryPrompt DEF Connected
  <2>4. QED
    BY <2>2, <2>3
<1>4. CASE EventCallback
  <2>1. pending = <<>> /\ pending' = <<>> /\ refusals' = refusals /\ task.id # 0
    BY <1>4 DEF EventCallback, Undisturbed, Shape
  <2>2. QED
    BY <1>0, <1>4, <1>T, <2>1, RetryPrompt DEF EventCallback, Fail
<1>5. CASE handle_handshake
  <2> DEFINE t == Drained(task)
  <2>1. pending = <<>> /\ refusals' = refusals /\ task.state = "Handshaking" /\ task.open
    BY <1>5 DEF handle_handshake, Undisturbed
  <2>2. t \in Task /\ Shape(t) /\ t.id # 0 /\ t.state = "Handshaking" /\ t.open
    BY <1>0, <2>1 DEF Task, Shape, Drained
  <2>3. PromptShape(t, <<>>, refusals)
    BY <1>0, <1>T, <2>1 DEF Task, PromptShape, Drained, Own
  <2>4. Tidy(t, refusals)
    BY <1>0, <2>2, <2>3, PromptTidy
  <2>5. \/ task' = schedule_retry(t) /\ pending' = pending
        \/ /\ task' = [t EXCEPT !.state = "Registering", !.registers = @ \cup {Own(t)}]
           /\ pending' = Append(pending, Own(t))
    BY <1>5 DEF handle_handshake, Fail
  <2>6. CASE task' = schedule_retry(t) /\ pending' = pending
    BY <1>0, <2>1, <2>2, <2>4, <2>6, RetryPrompt
  <2>7. CASE /\ task' = [t EXCEPT !.state = "Registering", !.registers = @ \cup {Own(t)}]
             /\ pending' = Append(pending, Own(t))
    <3> HIDE DEF t
    <3>1. pending' = <<Own(t)>>
      BY <2>1, <2>7
    <3>2. Own(task') = Own(t)
      BY <2>2, <2>7 DEF Own, Task
    <3>3. QED
      BY <2>1, <2>2, <2>3, <2>7, <3>1, <3>2 DEF PromptShape, Task
  <2>8. QED
    BY <2>5, <2>6, <2>7
<1>6. CASE ReadCallback
  <2>1. pending' = pending /\ refusals' = refusals /\ task.id # 0
    BY <1>6 DEF ReadCallback, Shape
  <2>2. CASE \E b \in BOOLEAN : task' = [task EXCEPT !.leftover = b]
    <3>1. PICK b \in BOOLEAN : task' = [task EXCEPT !.leftover = b]
      BY <2>2
    <3>2. Own(task') = Own(task)
      BY <1>0, <3>1 DEF Own, Task
    <3>3. QED
      BY <1>0, <2>1, <3>1, <3>2 DEF PromptShape, Task
  <2>3. CASE Undisturbed /\ Fail([task EXCEPT !.leftover = TRUE])
    <3> DEFINE t == [task EXCEPT !.leftover = TRUE]
    <3>1. pending = <<>>
      BY <2>3 DEF Undisturbed
    <3>2. t \in Task /\ Shape(t) /\ t.id # 0
      BY <1>0, <2>1 DEF Task, Shape
    <3>3. Tidy(t, refusals)
      BY <1>0, <1>T, <3>1 DEF Tidy, Task, Own
    <3>4. task' = schedule_retry(t)
      BY <2>3 DEF Fail
    <3>5. QED
      BY <1>0, <2>1, <3>1, <3>2, <3>3, <3>4, RetryPrompt
  <2>4. QED
    BY <1>6, <2>2, <2>3 DEF ReadCallback
<1>7. CASE TimeoutCallback
  <2>1. /\ pending = <<>> /\ pending' = <<>> /\ refusals' = refusals
        /\ task.state = "WaitingRetry"
    BY <1>7 DEF TimeoutCallback, Undisturbed
  <2>2. task.key = 0 /\ task.bevs = {} /\ ~task.open /\ task.id # 0
    BY <1>0, <2>1 DEF Shape, Task
  <2>3. /\ (alias \/ task.subs = {}) /\ (refusals = 0 => task.registers = {})
        /\ ~task.registered /\ ~task.subscribed /\ ~task.reported
    BY <1>0, <1>T, <2>1 DEF PromptShape, Task
  <2>4. Connects(task)
    BY <1>7 DEF TimeoutCallback
  <2>5. PICK c \in 0 .. MaxConns : task' = start_connect(task, c)
    BY <1>0, <2>2, <2>4, ConnectsEffect
  <2>6. QED
    BY <1>0, <2>1, <2>2, <2>3, <2>5, StartPrompt
<1>8. CASE Answered
  <2>1. /\ pending = <<Own(task)>> /\ pending' = <<>> /\ task.state = "Registering"
        /\ Head(pending).obj = task.id
    <3>1. pending = <<Own(task)>> /\ task.state = "Registering"
      BY <1>8 DEF Answered, PromptShape
    <3>2. Head(pending) = Own(task) /\ Tail(pending) = <<>>
      BY <3>1
    <3>3. Own(task).obj = task.id
      BY DEF Own
    <3>4. QED
      BY <1>8, <3>1, <3>2, <3>3 DEF Answered
  <2>2. /\ ~task.registered /\ ~task.reported /\ ~task.subscribed /\ task.open
        /\ (alias \/ task.subs = {}) /\ Own(task) \in task.registers
        /\ (refusals = 0 => task.registers = {Own(task)})
    BY <1>0, <2>1 DEF PromptShape, Task
  <2>3. task.key # 0 /\ task.id # 0
    BY <2>2 DEF Shape
  <2>4. CASE Registered(task) /\ UNCHANGED refusals
    <3>1. CASE kind = "pull" /\ task' = running([task EXCEPT !.registered = TRUE])
      <4>1. task' = [task EXCEPT !.registered = TRUE, !.state = "Running", !.reported = TRUE]
        BY <3>1 DEF running
      <4>2. Own(task') = Own(task)
        BY <1>0, <4>1 DEF Own, Task
      <4>3. QED
        BY <1>0, <2>1, <2>2, <2>4, <3>1, <4>1, <4>2 DEF PromptShape, Task
    <3>2. CASE kind # "pull" /\ task' = Subscribed(task)
      <4>1. task' = [task EXCEPT !.registered = TRUE, !.subscribed = TRUE,
                                 !.subs = task.subs \cup {Own(task)}, !.state = "Running",
                                 !.reported = TRUE]
        BY <2>2, <3>2 DEF Subscribed, running, KeysOld
      <4>2. Own(task') = Own(task)
        BY <1>0, <4>1 DEF Own, Task
      <4>3. kind = "push"
        BY <3>2, ConstantsOK DEF TypeOK
      <4>4. QED
        BY <1>0, <2>1, <2>2, <2>4, <4>1, <4>2, <4>3 DEF PromptShape, Task
    <3>3. CASE task' = schedule_retry([task EXCEPT !.registered = TRUE])
      <4> DEFINE t == [task EXCEPT !.registered = TRUE]
      <4>1. t \in Task /\ Shape(t) /\ t.id # 0
        BY <1>0, <2>3 DEF Task, Shape
      <4>2. Tidy(t, refusals)
        BY <1>0, <2>2, <2>3 DEF Tidy, Task, Own
      <4>3. QED
        BY <1>0, <2>1, <2>4, <3>3, <4>1, <4>2, RetryPrompt
    <3>4. QED
      BY <2>4, <3>1, <3>2, <3>3 DEF Registered, Fail
  <2>5. CASE refusals' = refusals + 1 /\ task' = task
    BY <1>0, <2>1, <2>2, <2>5 DEF PromptShape
  <2>6. QED
    BY <1>8, <2>1, <2>4, <2>5 DEF Answered
<1>9. CASE Ended
  <2>1. pending = <<>> /\ pending' = <<>> /\ refusals' = refusals /\ task.id # 0
    BY <1>0, <1>9 DEF Ended, Undisturbed, Task, Entry
  <2>2. QED
    BY <1>0, <1>9, <1>T, <2>1, RetryPrompt DEF Ended, Fail
<1>10. CASE DieOfUndefined
  BY <1>10 DEF DieOfUndefined, NoTask, PromptShape
<1>11. QED
  BY <1>1, <1>2, <1>3, <1>4, <1>5, <1>6, <1>7, <1>8, <1>9, <1>10 DEF Next

\* Callbacks made under earlier keys stay earlier: start_connect takes a new one,
\* whatever cleanup_connection left.
LEMMA CleanupKeys ==
    ASSUME NEW t \in Task, NEW c \in Nat, KeysOld(t, c)
    PROVE  KeysOld(cleanup_connection(t), c)
<1>1. CASE t.key = 0
  BY <1>1 DEF cleanup_connection
<1>2. CASE t.key # 0
  <2>1. cleanup_connection(t).key = 0 /\ cleanup_connection(t).subs \subseteq t.subs
    BY <1>2 DEF cleanup_connection, Unsubscribed, OthersThan, Task
  <2>2. QED
    BY <2>1 DEF KeysOld
<1>3. QED
  BY <1>1, <1>2

LEMMA RetryKeys ==
    ASSUME NEW t \in Task, NEW c \in Nat, Shape(t), KeysOld(t, c)
    PROVE  KeysOld(schedule_retry(t), c)
<1> DEFINE s == cleanup_connection(t)
<1>1. s \in Task /\ s.key = 0 /\ KeysOld(s, c)
  BY CleanupEffect, CleanupKeys
<1>2. schedule_retry(t) = [s EXCEPT !.state = "WaitingRetry", !.timer = TRUE, !.reported = FALSE]
  BY DEF schedule_retry
<1> HIDE DEF s
<1>3. QED
  BY <1>1, <1>2 DEF KeysOld, Task

LEMMA StopKeys ==
    ASSUME NEW t \in Task, NEW c \in Nat, Shape(t), KeysOld(t, c)
    PROVE  KeysOld(stop(t), c)
<1> DEFINE s == cleanup_connection(t)
<1>1. s \in Task /\ s.key = 0 /\ KeysOld(s, c)
  BY CleanupEffect, CleanupKeys
<1>2. stop(t) = [s EXCEPT !.timer = FALSE, !.state = "Idle", !.id = 0, !.leftover = FALSE]
  BY DEF stop
<1> HIDE DEF s
<1>3. QED
  BY <1>1, <1>2 DEF KeysOld, Task

LEMMA StartKeys ==
    ASSUME NEW t \in Task, t.key = 0, t.bevs = {}, ~t.open, t.id # 0,
           NEW c \in Nat, KeysOld(t, c), NEW k \in 0 .. MaxConns, NEW d \in Nat,
           (k = 0 /\ d = c) \/ (k = c + 1 /\ d = c + 1)
    PROVE  KeysOld(start_connect(t, k), d)
<1> DEFINE s == [t EXCEPT !.timer = FALSE, !.state = "Connecting", !.key = k]
<1>1. /\ s \in Task /\ s.key = k /\ s.bevs = {} /\ ~s.open /\ s.subs = t.subs
      /\ s.id # 0 /\ s.state = "Connecting"
  BY DEF Task, States
<1>2. start_connect(t, k) = IF k = 0 THEN schedule_retry(s) ELSE [s EXCEPT !.bevs = @ \cup {k}]
  BY DEF start_connect
<1>3. KeysOld(s, d)
  <2>1. \A e \in s.subs : e.conn \in 1 .. c
    BY <1>1 DEF KeysOld
  <2>2. \A e \in s.subs : e.conn \in 1 .. d /\ e.conn # k
    BY <2>1
  <2>3. k =< d
    OBVIOUS
  <2>4. QED
    BY <1>1, <2>2, <2>3 DEF KeysOld
<1> HIDE DEF s
<1>4. CASE k = 0
  BY <1>1, <1>2, <1>3, <1>4, RetryKeys DEF Shape
<1>5. CASE k # 0
  BY <1>1, <1>2, <1>3, <1>5 DEF KeysOld, Task, Own
<1>6. QED
  BY <1>4, <1>5

LEMMA SameKeys ==
    ASSUME NEW t \in Task, NEW s \in Task, NEW c \in Nat, KeysOld(t, c),
           s.key = t.key, s.subs = t.subs, s.subscribed = t.subscribed,
           s.id = t.id \/ t.key = 0
    PROVE  KeysOld(s, c)
BY DEF KeysOld, Own

\* No step gives up KeysOld.
LEMMA StepKeys ==
    ASSUME TypeOK, Shape(task), prompt, PromptShape(task, pending, refusals),
           KeysOld(task, conns), Next, task' \in Task
    PROVE  KeysOld(task', conns')
<1>0. task \in Task /\ conns \in Nat /\ refusals \in Nat /\ pending \in Seq(Entry)
  BY ConstantsOK DEF TypeOK
<1>1. CASE Create
  <2> DEFINE s == stop(task)
             t == [s EXCEPT !.id = orders + 1, !.reported = FALSE]
  <2>1. orders + 1 \in 1 .. MaxOrders
    BY <1>1, ConstantsOK DEF Create, TypeOK
  <2>2. /\ t \in Task /\ t.key = 0 /\ t.bevs = {} /\ ~t.open /\ t.id # 0
        /\ t.subs = s.subs /\ t.subscribed = s.subscribed
    BY <1>0, <2>1, NewObject
  <2>3. s \in Task /\ s.key = 0 /\ KeysOld(s, conns)
    BY <1>0, StopEffect, StopKeys
  <2>4. Connects(t)
    BY <1>1 DEF Create, createObject
  <2> HIDE DEF s, t
  <2>5. KeysOld(t, conns)
    BY <1>0, <2>2, <2>3, SameKeys
  <2>6. PICK c \in 0 .. MaxConns :
          /\ task' = start_connect(t, c)
          /\ (c = 0 /\ conns' = conns) \/ (c = conns + 1 /\ conns' = conns + 1)
    BY <2>2, <2>4, ConnectsEffect
  <2>7. conns' \in Nat
    BY <1>0, <2>6
  <2>8. QED
    BY <1>0, <2>2, <2>5, <2>6, <2>7, StartKeys
<1>2. CASE Destroy
  <2> DEFINE s == stop(task)
  <2>1. s \in Task /\ KeysOld(s, conns)
    BY <1>0, StopEffect, StopKeys
  <2>2. task' = [s EXCEPT !.reported = FALSE] /\ conns' = conns
    BY <1>2 DEF Destroy, destroyObject
  <2> HIDE DEF s
  <2>3. QED
    BY <2>1, <2>2 DEF Task, KeysOld, Own
<1>3. CASE Connected
  <2>1. \/ task' = [task EXCEPT !.open = TRUE, !.state = "Handshaking"]
        \/ task' = schedule_retry(task)
    BY <1>3 DEF Connected
  <2>2. conns' = conns
    BY <1>3 DEF Connected
  <2>3. QED
    BY <1>0, <2>1, <2>2, RetryKeys DEF Task, KeysOld, Own
<1>4. CASE EventCallback
  BY <1>0, <1>4, RetryKeys DEF EventCallback, Fail
<1>5. CASE handle_handshake
  <2> DEFINE t == Drained(task)
  <2>1. t \in Task /\ Shape(t) /\ KeysOld(t, conns)
    BY <1>0 DEF Task, Shape, Drained, KeysOld, Own
  <2>2. \/ task' = schedule_retry(t)
        \/ task' = [t EXCEPT !.state = "Registering", !.registers = @ \cup {Own(t)}]
    BY <1>5 DEF handle_handshake, Fail
  <2>3. conns' = conns
    BY <1>5 DEF handle_handshake
  <2> HIDE DEF t
  <2>4. CASE task' = schedule_retry(t)
    BY <1>0, <2>1, <2>3, <2>4, RetryKeys
  <2>5. CASE task' = [t EXCEPT !.state = "Registering", !.registers = @ \cup {Own(t)}]
    BY <2>1, <2>3, <2>5 DEF Task, KeysOld, Own
  <2>6. QED
    BY <2>2, <2>4, <2>5
<1>6. CASE ReadCallback
  <2>1. \E b \in BOOLEAN : LET t == [task EXCEPT !.leftover = b] IN
                           task' = t \/ task' = schedule_retry(t)
    BY <1>6 DEF ReadCallback, Fail
  <2>2. PICK b \in BOOLEAN : LET t == [task EXCEPT !.leftover = b] IN
                            task' = t \/ task' = schedule_retry(t)
    BY <2>1
  <2> DEFINE t == [task EXCEPT !.leftover = b]
  <2>3. t \in Task /\ Shape(t) /\ KeysOld(t, conns)
    BY <1>0 DEF Task, Shape, KeysOld, Own
  <2>4. conns' = conns
    BY <1>6 DEF ReadCallback
  <2>5. task' = t \/ task' = schedule_retry(t)
    BY <2>2
  <2> HIDE DEF t
  <2>6. QED
    BY <1>0, <2>3, <2>4, <2>5, RetryKeys
<1>7. CASE TimeoutCallback
  <2>1. task.key = 0 /\ task.bevs = {} /\ ~task.open /\ task.id # 0
    BY <1>0, <1>7 DEF TimeoutCallback, Shape, Task
  <2>2. Connects(task)
    BY <1>7 DEF TimeoutCallback
  <2>3. PICK c \in 0 .. MaxConns :
          /\ task' = start_connect(task, c)
          /\ (c = 0 /\ conns' = conns) \/ (c = conns + 1 /\ conns' = conns + 1)
    BY <1>0, <2>1, <2>2, ConnectsEffect
  <2>4. conns' \in Nat
    BY <1>0, <2>3
  <2>5. QED
    BY <1>0, <2>1, <2>3, <2>4, StartKeys
<1>8. CASE Answered
  <2>1. conns' = conns
    BY <1>8 DEF Answered, Registered, Fail
  <2>2. CASE task' = task
    BY <2>1, <2>2
  <2>3. CASE task' = running([task EXCEPT !.registered = TRUE])
    BY <1>0, <2>1, <2>3 DEF running, Task, KeysOld, Own
  <2>4. CASE task' = schedule_retry([task EXCEPT !.registered = TRUE])
    <3> DEFINE t == [task EXCEPT !.registered = TRUE]
    <3>1. t \in Task /\ Shape(t) /\ KeysOld(t, conns)
      BY <1>0 DEF Task, Shape, KeysOld, Own
    <3> HIDE DEF t
    <3>2. QED
      BY <1>0, <2>1, <2>4, <3>1, RetryKeys DEF t
  <2>5. CASE task' = Subscribed(task) /\ task.state = "Registering"
    <3>1. ~task.subscribed /\ task.key # 0
      BY <1>0, <2>5, <1>8 DEF PromptShape, Shape, Answered, Task
    <3>2. \A e \in task.subs : e.conn # task.key
      BY <3>1 DEF KeysOld
    <3>3. task' = [task EXCEPT !.registered = TRUE, !.subscribed = TRUE,
                               !.subs = task.subs \cup {Own(task)}, !.state = "Running",
                               !.reported = TRUE]
      BY <2>5, <3>2 DEF Subscribed, running
    <3>4. task.key \in 1 .. conns /\ Own(task).conn = task.key
      BY <1>0, <3>1, ConstantsOK DEF KeysOld, Task, Own
    <3>5. /\ task'.key = task.key /\ task'.id = task.id /\ task'.subscribed
          /\ task'.subs = task.subs \cup {Own(task)}
      BY <1>0, <3>3 DEF Task
    <3>6. Own(task') = Own(task)
      BY <3>5 DEF Own
    <3>7. \A e \in task'.subs : e.conn \in 1 .. conns
      BY <3>4, <3>5 DEF KeysOld
    <3>8. \A e \in task'.subs : e.conn = task.key => e = Own(task)
      BY <3>2, <3>5
    <3>9. QED
      BY <2>1, <3>4, <3>5, <3>6, <3>7, <3>8 DEF KeysOld
  <2>6. task' = Subscribed(task) => task.state = "Registering" \/ task' = task
    BY <1>8 DEF Answered, PromptShape
  <2>7. QED
    BY <1>8, <2>2, <2>3, <2>4, <2>5, <2>6 DEF Answered, Registered, Fail
<1>9. CASE Ended
  BY <1>0, <1>9, RetryKeys DEF Ended, Fail
<1>10. CASE DieOfUndefined
  BY <1>0, <1>10 DEF DieOfUndefined, NoTask, KeysOld
<1>11. QED
  BY <1>1, <1>2, <1>3, <1>4, <1>5, <1>6, <1>7, <1>8, <1>9, <1>10 DEF Next

\* The inductive invariant holds in every reachable state.
LEMMA InvariantHolds == Spec => []IInv
<1>1. Init => IInv
  BY ConstantsOK DEF Init, IInv, TypeOK, Shape, PromptShape, KeysOld, NoTask, Task, States
<1>2. IInv /\ [Next]_vars => IInv'
  <2> SUFFICES ASSUME IInv, [Next]_vars PROVE IInv'
    OBVIOUS
  <2>1. TypeOK' /\ Shape(task')
    BY StepShape DEF IInv
  <2>2. prompt' = prompt /\ kind' = kind /\ alias' = alias
    BY DEF Next, vars, Create, Destroy, Connected, EventCallback, handle_handshake,
           ReadCallback, TimeoutCallback, Answered, Ended, DieOfUndefined
  <2>3. prompt => PromptShape(task', pending', refusals') /\ KeysOld(task', conns')
    <3>1. CASE Next
      BY <2>1, <3>1, StepPrompt, StepKeys DEF IInv, TypeOK
    <3>2. CASE UNCHANGED vars
      BY <3>2 DEF vars, IInv, PromptShape, KeysOld
    <3>3. QED
      BY <3>1, <3>2
  <2>4. QED
    BY <2>1, <2>2, <2>3 DEF IInv, Shape, PromptShape, KeysOld
<1>3. QED
  BY <1>1, <1>2, PTL DEF Spec

\* With prompt answers and a plain mount point CASTER keeps no pointer but that
\* of the object in its present connection, with an alias no registration
\* (cleanup_connection, CasterRegisterCallback).
THEOREM EntriesLiveAlways == Spec => []EntriesLive
<1>1. IInv => EntriesLive
  <2> SUFFICES ASSUME IInv, prompt, refusals = 0,
                      NEW e \in task.registers \cup {pending[i] : i \in DOMAIN pending}
                                \cup (IF alias THEN {} ELSE task.subs)
               PROVE  e = Own(task) /\ task.key # 0
    BY DEF EntriesLive
  <2>1. TypeOK /\ Shape(task) /\ PromptShape(task, pending, refusals)
    BY DEF IInv
  <2>2. task.state = "Running" \/ pending # <<>> => task.key # 0
    BY <2>1 DEF PromptShape, Shape
  <2>3. CASE e \in task.registers
    BY <2>1, <2>2, <2>3 DEF PromptShape
  <2>4. CASE ~alias /\ e \in task.subs
    BY <2>1, <2>2, <2>4 DEF PromptShape
  <2>5. CASE e \in {pending[i] : i \in DOMAIN pending}
    BY <2>1, <2>2, <2>5 DEF PromptShape
  <2>6. QED
    BY <2>3, <2>4, <2>5
<1>2. QED
  BY <1>1, InvariantHolds, PTL

\* With prompt answers the status tells the truth about the session
\* (running, schedule_retry).
THEOREM StatusTruthfulAlways == Spec => []StatusTruthful
<1>1. IInv => StatusTruthful
  BY DEF IInv, PromptShape, StatusTruthful, Up
<1>2. QED
  BY <1>1, InvariantHolds, PTL
=============================================================================
