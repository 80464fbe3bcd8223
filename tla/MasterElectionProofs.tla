------------------------ MODULE MasterElectionProofs ------------------------
(***************************************************************************)
(* Theorems about MasterElection, for any set of nodes and any periods,    *)
(* expiries, lags and fault bounds that satisfy ConstantsOK; those about   *)
(* the master also assume Timely.                                          *)
(*                                                                         *)
(* The flags alone are not inductive: that a master still holds the key    *)
(* depends on how much of a round is left before its next renewal.  IInv   *)
(* says, for every stage of a round, that the key outlives the rest of it. *)
(* FailoverInv says, for every stage of a failover, that what is left of   *)
(* FailoverLimit covers the rest of it.                                    *)
(***************************************************************************)
EXTENDS MasterElection, SequenceTheorems, TLAPS

USE DEF Round, NameMaster, Believe, SetNx, Holds

\* Time the rounds that may still be lost can add, once k have been lost.
Budget(k) == (MaxLost - k) * (UpdateIntv + MaxLag)

\* The stages of a round: what is on the wire.
Idle(n) == cmds[n] = <<>> /\ replies[n] = <<>>
Sent(n) == /\ Len(cmds[n]) = 2 /\ cmds[n][1] = "SETNX" /\ cmds[n][2] = "GET"
           /\ replies[n] = <<>>
Tried(n) == Len(cmds[n]) = 1 /\ cmds[n][1] = "GET" /\ replies[n] = <<>>
Told(n) == cmds[n] = <<>> /\ Len(replies[n]) = 1 /\ replies[n][1].cmd = "GET"
Renewing(n) == Len(cmds[n]) = 1 /\ cmds[n][1] = "IFEQ" /\ replies[n] = <<>>
Renewed(n) == cmds[n] = <<>> /\ Len(replies[n]) = 1 /\ replies[n][1].cmd = "IFEQ"

\* One round at a time: it started hops-1 hops of at most MaxLag ago.
Began(n, hops) == up[n] => timer[n] >= UpdateIntv - (hops - 1) * MaxLag - lag[n]

RoundInv(n) ==
    \/ Idle(n)
    \/ Sent(n) /\ Began(n, 1)
    \/ Tried(n) /\ Began(n, 2)
    \/ Told(n) /\ Began(n, 3)
    \/ Renewing(n) /\ Began(n, 4)
    \/ Renewed(n) /\ Began(n, 5)

\* n holds the key and will for at least the given time, and even if the round
\* under way is lost for as long as it takes the following ones.
Covered(n, due) ==
    /\ lock = n
    /\ ttl > due
    /\ lost[n] < MaxLost =>
         ttl > timer[n] + 5 * MaxLag + Budget(lost[n] + 1)

LeaseInv(n) ==
    /\ Idle(n) /\ is_master[n] =>
         lock = n /\ ttl > timer[n] + 5 * MaxLag + Budget(lost[n])
    /\ Sent(n) /\ is_master[n] => Covered(n, 4 * MaxLag - lag[n])
    /\ Tried(n) /\ is_master[n] => Covered(n, 3 * MaxLag - lag[n])
    /\ Told(n) /\ is_master[n] => Covered(n, 2 * MaxLag - lag[n])
    /\ Renewing(n) /\ is_master[n] => Covered(n, MaxLag - lag[n])
    /\ Renewed(n) /\ (is_master[n] \/ replies[n][1].ok) =>
         /\ lock = n
         /\ ttl > timer[n] + 5 * MaxLag + Budget(lost[n])
         /\ replies[n][1].ok

\* The GET reply and the name it sets agree with a renewal that succeeds.
NameInv(n) ==
    /\ is_master[n] => current_master_id[n] = n
    /\ Told(n) /\ lock = n => replies[n][1].val = n
    /\ Renewing(n) /\ lock = n => current_master_id[n] = n
    /\ Renewed(n) /\ replies[n][1].ok => current_master_id[n] = n

DownInv(n) == ~up[n] => replies[n] = <<>> /\ ~is_master[n]

NodeInv(n) == /\ DownInv(n)
              /\ RoundInv(n)
              /\ up[n] => LeaseInv(n) /\ NameInv(n)

IInv == TypeOK /\ \A n \in Node : NodeInv(n)

-----------------------------------------------------------------------------
\* The pipelines and the reply queues of try_set_master_node stay well formed
\* and every counter stays within its bound.
LEMMA TypeInit == Init => TypeOK
  BY ConstantsOK DEF Init, TypeOK, FailoverLimit

LEMMA TypeStep == TypeOK /\ [Next]_vars => TypeOK'
<1> SUFFICES ASSUME TypeOK, [Next]_vars PROVE TypeOK'
  OBVIOUS
<1> USE ConstantsOK DEF TypeOK, redisVars, nodeVars
<1>1. ASSUME NEW n \in Node, TimeoutCallback(n) PROVE TypeOK'
  <2>1. <<"SETNX", "GET">> \in Seq(Command)
    BY DEF Command
  <2>2. cmds[n] \o <<"SETNX", "GET">> \in Seq(Command)
    BY <2>1
  <2>3. cmds' \in [Node -> Seq(Command)]
    BY <1>1, <2>2 DEF TimeoutCallback
  <2>6. timer' = [timer EXCEPT ![n] = UpdateIntv] /\ lag' = [lag EXCEPT ![n] = 0]
    BY <1>1 DEF TimeoutCallback
  <2>4. timer' \in [Node -> -MaxLag .. UpdateIntv] /\ lag' \in [Node -> 0 .. MaxLag]
    BY <2>6
  <2>5. UNCHANGED <<redisVars, nodeVars, replies, lost, crashes, headless>>
    BY <1>1 DEF TimeoutCallback
  <2> QED BY <2>3, <2>4, <2>5
<1>2. ASSUME NEW n \in Node, Redis_SetMaster_Callback(n) PROVE TypeOK'
  <2>1. replies[n] \in Seq(Reply) /\ replies[n] # <<>> /\ Head(replies[n]) \in Reply
    BY <1>2 DEF Redis_SetMaster_Callback
  <2>2. Head(replies[n]).val \in Node \cup {NoNode}
    BY <1>2, <2>1 DEF Redis_SetMaster_Callback, Reply, GetReply, IfeqReply
  <2>3. current_master_id' \in [Node -> Node \cup {NoNode}]
    BY <1>2, <2>2 DEF Redis_SetMaster_Callback
  <2>4. cmds' \in [Node -> Seq(Command)]
    BY <1>2 DEF Redis_SetMaster_Callback, Command
  <2>5. replies' \in [Node -> Seq(Reply)]
    BY <1>2, <2>1 DEF Redis_SetMaster_Callback
  <2>6. lag' \in [Node -> 0 .. MaxLag]
    BY <1>2 DEF Redis_SetMaster_Callback
  <2>7. UNCHANGED <<redisVars, up, is_master, timer, lost, crashes, headless>>
    BY <1>2 DEF Redis_SetMaster_Callback
  <2> QED BY <2>3, <2>4, <2>5, <2>6, <2>7
<1>3. ASSUME NEW n \in Node, Redis_KeepMaster_Callback(n) PROVE TypeOK'
  <2>1. replies[n] \in Seq(Reply) /\ replies[n] # <<>> /\ Head(replies[n]) \in Reply
    BY <1>3 DEF Redis_KeepMaster_Callback
  <2>2. Head(replies[n]).ok \in BOOLEAN
    BY <1>3, <2>1 DEF Redis_KeepMaster_Callback, Reply, GetReply, IfeqReply
  <2>3. replies' \in [Node -> Seq(Reply)]
    BY <1>3, <2>1 DEF Redis_KeepMaster_Callback
  <2>4. is_master' \in [Node -> BOOLEAN] /\ lag' \in [Node -> 0 .. MaxLag]
    BY <1>3, <2>2 DEF Redis_KeepMaster_Callback
  <2>5. headless' \in 0 .. FailoverLimit + 1
    BY <1>3 DEF Redis_KeepMaster_Callback, FailoverLimit
  <2>6. UNCHANGED <<redisVars, up, current_master_id, cmds, timer, lost, crashes>>
    BY <1>3 DEF Redis_KeepMaster_Callback
  <2> QED BY <2>3, <2>4, <2>5, <2>6
<1>4. ASSUME NEW n \in Node, NEW c \in Command, Executes(n, c) PROVE
          /\ cmds' \in [Node -> Seq(Command)]
          /\ lag' \in [Node -> 0 .. MaxLag]
  BY <1>4 DEF Executes
<1>5. ASSUME NEW n \in Node, ExecSetNx(n) PROVE TypeOK'
  <2>1. /\ lock' \in Node \cup {NoNode} /\ ttl' \in 0 .. MasterTTL
        /\ lock' = NoNode <=> ttl' = 0
    <3>1. CASE lock = NoNode
      BY <1>5, <3>1 DEF ExecSetNx
    <3>2. CASE lock # NoNode
      BY <1>5, <3>2 DEF ExecSetNx
    <3> QED BY <3>1, <3>2
  <2> QED BY <1>4, <1>5, <2>1 DEF ExecSetNx, Executes, Command
<1>6. ASSUME NEW n \in Node, ExecGet(n) PROVE TypeOK'
  <2>1. [cmd |-> "GET", val |-> lock] \in Reply
    BY DEF Reply, GetReply
  <2>2. replies' \in [Node -> Seq(Reply)]
    BY <1>6, <2>1 DEF ExecGet, Answer
  <2> QED BY <1>4, <1>6, <2>2 DEF ExecGet, Executes, Command
<1>7. ASSUME NEW n \in Node, ExecIfeq(n) PROVE TypeOK'
  <2>1. [cmd |-> "IFEQ", ok |-> lock = n] \in Reply
    BY DEF Reply, IfeqReply
  <2>2. replies' \in [Node -> Seq(Reply)]
    BY <1>7, <2>1 DEF ExecIfeq, Answer
  <2>3. lock' = lock /\ ttl' \in 0 .. MasterTTL /\ (lock' = NoNode <=> ttl' = 0)
    <3>1. CASE lock = n
      BY <1>7, <3>1 DEF ExecIfeq
    <3>2. CASE lock # n
      BY <1>7, <3>2 DEF ExecIfeq
    <3> QED BY <3>1, <3>2
  <2>4. lost' \in [Node -> 0 .. MaxLost]
    BY <1>7 DEF ExecIfeq
  <2> QED BY <1>4, <1>7, <2>2, <2>3, <2>4 DEF ExecIfeq, Executes, Command
<1>8. ASSUME Tick PROVE TypeOK'
  <2>1. lock' \in Node \cup {NoNode} /\ ttl' \in 0 .. MasterTTL
    BY <1>8 DEF Tick
  <2>2. lock' = NoNode <=> ttl' = 0
    <3>1. CASE ttl > 1
      BY <1>8, <3>1 DEF Tick
    <3>2. CASE ~(ttl > 1)
      BY <1>8, <3>2 DEF Tick
    <3> QED BY <3>1, <3>2
  <2>3. timer' \in [Node -> -MaxLag .. UpdateIntv]
    BY <1>8 DEF Tick, OnTime
  <2>4. lag' \in [Node -> 0 .. MaxLag]
    BY <1>8 DEF Tick, OnTime
  <2>5. headless' \in 0 .. FailoverLimit + 1
    BY <1>8 DEF Tick, FailoverLimit
  <2>6. UNCHANGED <<nodeVars, cmds, replies, lost, crashes>>
    BY <1>8 DEF Tick
  <2> QED BY <2>1, <2>2, <2>3, <2>4, <2>5, <2>6
<1>9. ASSUME NEW n \in Node, Disconnect(n) PROVE TypeOK'
  <2>0. is_master' \in {is_master, [is_master EXCEPT ![n] = FALSE]}
    BY <1>9, Zenon DEF Disconnect
  <2>1. is_master' \in [Node -> BOOLEAN]
    BY <2>0
  <2>8. lost[n] < MaxLost /\ lost' = [lost EXCEPT ![n] = @ + 1]
    BY <1>9, Zenon DEF Disconnect
  <2>9. lost[n] + 1 \in 0 .. MaxLost
    <3>1. \A i, j \in Int : i >= 0 /\ i < j => i + 1 \in 0 .. j
      OBVIOUS
    <3>2. lost[n] \in Int /\ lost[n] >= 0 /\ MaxLost \in Int
      OBVIOUS
    <3> QED BY <2>8, <3>1, <3>2
  <2>4. lost' \in [Node -> 0 .. MaxLost]
    BY <2>8, <2>9
  <2>2. cmds' = [cmds EXCEPT ![n] = <<>>] /\ replies' = [replies EXCEPT ![n] = <<>>]
    BY <1>9, Zenon DEF Disconnect
  <2>3. cmds' \in [Node -> Seq(Command)] /\ replies' \in [Node -> Seq(Reply)]
    BY <2>2
  <2>5. lag' = [lag EXCEPT ![n] = 0] /\ headless' = 0
    BY <1>9, Zenon DEF Disconnect
  <2>6. lag' \in [Node -> 0 .. MaxLag] /\ headless' \in 0 .. FailoverLimit + 1
    BY <2>5 DEF FailoverLimit
  <2>7. UNCHANGED <<redisVars, up, current_master_id, timer, crashes>>
    BY <1>9, Zenon DEF Disconnect
  <2> QED BY <2>1, <2>3, <2>4, <2>6, <2>7
<1>10. ASSUME NEW n \in Node, Crash(n) PROVE TypeOK'
  <2>1. /\ up' = [up EXCEPT ![n] = FALSE] /\ is_master' = [is_master EXCEPT ![n] = FALSE]
        /\ current_master_id' = [current_master_id EXCEPT ![n] = NoNode]
        /\ replies' = [replies EXCEPT ![n] = <<>>] /\ timer' = [timer EXCEPT ![n] = 0]
        /\ crashes < MaxCrash /\ crashes' = crashes + 1 /\ headless' = 0
        /\ UNCHANGED <<redisVars, cmds, lag, lost>>
    BY <1>10 DEF Crash
  <2>2. up' \in [Node -> BOOLEAN] /\ is_master' \in [Node -> BOOLEAN]
    BY <2>1
  <2>3. current_master_id' \in [Node -> Node \cup {NoNode}] /\ replies' \in [Node -> Seq(Reply)]
    BY <2>1
  <2>4. timer' \in [Node -> -MaxLag .. UpdateIntv]
    BY <2>1
  <2>5. crashes' \in 0 .. MaxCrash /\ headless' \in 0 .. FailoverLimit + 1
    BY <2>1 DEF FailoverLimit
  <2> QED BY <2>1, <2>2, <2>3, <2>4, <2>5
<1>11. ASSUME NEW n \in Node, ConnReset(n) PROVE TypeOK'
  <2>1. cmds' = [cmds EXCEPT ![n] = <<>>] /\ lag' = [lag EXCEPT ![n] = 0]
    BY <1>11 DEF ConnReset
  <2>2. cmds' \in [Node -> Seq(Command)] /\ lag' \in [Node -> 0 .. MaxLag]
    BY <2>1
  <2>3. UNCHANGED <<redisVars, nodeVars, replies, timer, lost, crashes, headless>>
    BY <1>11 DEF ConnReset
  <2> QED BY <2>2, <2>3
<1>12. ASSUME NEW n \in Node, Restart(n) PROVE TypeOK'
  <2>1. /\ up' = [up EXCEPT ![n] = TRUE] /\ timer' = [timer EXCEPT ![n] = UpdateIntv]
        /\ lag' = [lag EXCEPT ![n] = 0] /\ lost' = [lost EXCEPT ![n] = 0] /\ headless' = 0
    BY <1>12 DEF Restart
  <2>2. up' \in [Node -> BOOLEAN] /\ timer' \in [Node -> -MaxLag .. UpdateIntv]
    BY <2>1
  <2>3. lag' \in [Node -> 0 .. MaxLag] /\ lost' \in [Node -> 0 .. MaxLost]
    BY <2>1
  <2>4. headless' \in 0 .. FailoverLimit + 1
    BY <2>1 DEF FailoverLimit
  <2>5. UNCHANGED <<redisVars, is_master, current_master_id, cmds, replies, crashes>>
    BY <1>12 DEF Restart
  <2> QED BY <2>2, <2>3, <2>4, <2>5
<1>13. CASE UNCHANGED vars
  BY <1>13 DEF vars
<1> QED
  BY <1>1, <1>2, <1>3, <1>5, <1>6, <1>7, <1>8, <1>9, <1>10, <1>11, <1>12, <1>13
  DEF Next, Loop, Server, Fault

THEOREM TypeCorrect == Spec => []TypeOK
  BY TypeInit, TypeStep, PTL DEF Spec
-----------------------------------------------------------------------------
\* Every further lost round costs one late period.
LEMMA BudgetFacts ==
    ASSUME NEW k \in 0 .. MaxLost
    PROVE  /\ Budget(k) \in Nat
           /\ k < MaxLost => Budget(k) = Budget(k + 1) + UpdateIntv + MaxLag
           /\ Budget(k) =< MaxLost * (UpdateIntv + MaxLag)
           /\ Budget(k) =< Budget(0)
           /\ Timely => UpdateIntv + 5 * MaxLag + Budget(k) < MasterTTL
<1> DEFINE c == UpdateIntv + MaxLag
           j == MaxLost - k
<1>1. c \in Nat /\ j \in Nat /\ MaxLost \in Nat /\ k \in Nat /\ MaxLost = j + k
  BY ConstantsOK
<1>2. Budget(k) = j * c /\ Budget(0) = MaxLost * c /\ Budget(k + 1) = (j - 1) * c
  BY <1>1 DEF Budget
<1> HIDE DEF c, j
<1>3. j * c \in Nat /\ k * c \in Nat
  BY <1>1
<1>4. MaxLost * c = j * c + k * c
  BY <1>1
<1>5. j * c = (j - 1) * c + c
  BY <1>1
<1>6. Budget(k) =< MaxLost * c
  BY <1>2, <1>3, <1>4
<1> QED
  BY <1>1, <1>2, <1>3, <1>5, <1>6, ConstantsOK DEF c, Timely

\* A step that leaves a node alone and does not take the key from it keeps
\* what is known of the node.
LEMMA Frame ==
    ASSUME NEW n \in Node, NodeInv(n),
           up'[n] = up[n], is_master'[n] = is_master[n],
           current_master_id'[n] = current_master_id[n],
           cmds'[n] = cmds[n], replies'[n] = replies[n],
           timer'[n] = timer[n], lag'[n] = lag[n], lost'[n] = lost[n],
           \/ lock' = lock /\ ttl' = ttl
           \/ lock # n /\ lock' # n
    PROVE  NodeInv(n)'
  BY DEF NodeInv, DownInv, RoundInv, LeaseInv, NameInv, Covered, Began,
         Idle, Sent, Tried, Told, Renewing, Renewed

-----------------------------------------------------------------------------
\* What Head, Tail and Append do to the short sequences of a round.
LEMMA ShortSeq ==
    ASSUME NEW S, NEW s \in Seq(S)
    PROVE  /\ Len(s) = 1 => Head(s) = s[1] /\ Tail(s) = <<>>
           /\ Len(s) = 2 => Head(s) = s[1] /\ Len(Tail(s)) = 1 /\ Tail(s)[1] = s[2]
<1>1. s # <<>> => /\ Tail(s) \in Seq(S) /\ Len(Tail(s)) = Len(s) - 1
                  /\ \A i \in 1 .. Len(Tail(s)) : Tail(s)[i] = s[i + 1]
  BY HeadTailProperties
<1>2. s # <<>> => Tail(s) = <<>> \/ Len(Tail(s)) \in Nat \ {0}
  BY <1>1, EmptySeq
<1>3. Len(<<>>) = 0
  BY EmptySeq
<1>4. ASSUME Len(s) = 1 PROVE Head(s) = s[1] /\ Tail(s) = <<>>
  BY <1>1, <1>2, <1>3, <1>4
<1>5. ASSUME Len(s) = 2 PROVE Head(s) = s[1] /\ Len(Tail(s)) = 1 /\ Tail(s)[1] = s[2]
  BY <1>1, <1>3, <1>5
<1> QED BY <1>4, <1>5

\* A node is in one stage of a round.
LEMMA OneStage ==
    ASSUME NEW n \in Node
    PROVE  /\ Idle(n) => ~(Sent(n) \/ Tried(n) \/ Told(n) \/ Renewing(n) \/ Renewed(n))
           /\ Sent(n) => ~(Tried(n) \/ Told(n) \/ Renewing(n) \/ Renewed(n))
           /\ Tried(n) => ~(Told(n) \/ Renewing(n) \/ Renewed(n))
           /\ Told(n) => ~(Renewing(n) \/ Renewed(n))
           /\ Renewing(n) => ~Renewed(n)
  BY EmptySeq DEF Idle, Sent, Tried, Told, Renewing, Renewed

\* Same in the state after a step.
LEMMA OneStageNext ==
    ASSUME NEW n \in Node
    PROVE  (/\ Idle(n) => ~(Sent(n) \/ Tried(n) \/ Told(n) \/ Renewing(n) \/ Renewed(n))
            /\ Sent(n) => ~(Tried(n) \/ Told(n) \/ Renewing(n) \/ Renewed(n))
            /\ Tried(n) => ~(Told(n) \/ Renewing(n) \/ Renewed(n))
            /\ Told(n) => ~(Renewing(n) \/ Renewed(n))
            /\ Renewing(n) => ~Renewed(n))'
  BY EmptySeq DEF Idle, Sent, Tried, Told, Renewing, Renewed

\* The type invariant, read at one node, in both states of a step.
LEMMA NodeTypes ==
    ASSUME TypeOK, NEW n \in Node
    PROVE  /\ cmds[n] \in Seq(Command) /\ replies[n] \in Seq(Reply)
           /\ timer[n] \in Int /\ timer[n] >= -MaxLag /\ timer[n] =< UpdateIntv
           /\ lag[n] \in Nat /\ lag[n] =< MaxLag
           /\ lost[n] \in 0 .. MaxLost /\ ttl \in Nat
           /\ MaxLag \in Nat /\ UpdateIntv \in Nat /\ MasterTTL \in Nat /\ MaxLost \in Nat
  BY ConstantsOK DEF TypeOK

\* The time a round may take, from Timely.
LEMMA RoundFits ==
    ASSUME Timely, TypeOK, NEW n \in Node, up[n], timer[n] =< 0, NodeInv(n)
    PROVE  Idle(n)
<1>1. /\ timer[n] \in Int /\ lag[n] \in Nat /\ lag[n] =< MaxLag
      /\ MaxLag \in Nat /\ UpdateIntv \in Nat /\ 5 * MaxLag < UpdateIntv
  BY NodeTypes DEF Timely
<1>2. ~Began(n, 1) /\ ~Began(n, 2) /\ ~Began(n, 3) /\ ~Began(n, 4) /\ ~Began(n, 5)
  BY <1>1 DEF Began
<1> QED BY <1>2 DEF NodeInv, RoundInv

\* One lemma per action, for the node that takes the step.

LEMMA OwnTimeout ==
    ASSUME Timely, NEW n \in Node, TypeOK, NodeInv(n), TimeoutCallback(n)
    PROVE  NodeInv(n)'
<1>1. /\ up[n] /\ timer[n] =< 0 /\ timer'[n] = UpdateIntv /\ lag'[n] = 0
      /\ lock' = lock /\ ttl' = ttl /\ replies' = replies /\ lost' = lost
      /\ up' = up /\ is_master' = is_master /\ current_master_id' = current_master_id
  BY DEF TimeoutCallback, redisVars, nodeVars, TypeOK
<1>2. cmds'[n] = cmds[n] \o <<"SETNX", "GET">>
  BY DEF TimeoutCallback, TypeOK
<1>3. Idle(n)
  BY <1>1, RoundFits
<1>4. Sent(n)'
  BY <1>1, <1>2, <1>3 DEF Idle, Sent
<1>5. /\ timer[n] \in Int /\ timer[n] >= -MaxLag /\ lost[n] \in 0 .. MaxLost
      /\ ttl \in Nat /\ MaxLag \in Nat /\ UpdateIntv \in Nat /\ MaxLost \in Nat
  BY NodeTypes
<1>6. RoundInv(n)'
  BY <1>1, <1>4, <1>5 DEF RoundInv, Began
<1>7. DownInv(n)' /\ NameInv(n)'
  BY <1>1, <1>4, OneStageNext DEF NodeInv, DownInv, NameInv
<1>8. LeaseInv(n)'
  <2>1. SUFFICES ASSUME is_master[n] PROVE Covered(n, 4 * MaxLag - lag[n])'
    BY <1>1, <1>4, OneStageNext DEF LeaseInv
  <2>2. lock = n /\ ttl > timer[n] + 5 * MaxLag + Budget(lost[n])
    BY <1>1, <1>3, <2>1 DEF NodeInv, LeaseInv
  <2>3. /\ Budget(lost[n]) \in Nat
        /\ lost[n] < MaxLost => Budget(lost[n]) = Budget(lost[n] + 1) + UpdateIntv + MaxLag
    BY <1>5, BudgetFacts
  <2>4. ASSUME lost[n] < MaxLost PROVE Budget(lost[n] + 1) \in Nat
    <3>1. lost[n] + 1 \in 0 .. MaxLost
      BY <1>5, <2>4
    <3> QED BY <3>1, BudgetFacts
  <2>5. ttl > 4 * MaxLag
    BY <1>5, <2>2, <2>3
  <2>6. lost[n] < MaxLost => ttl > UpdateIntv + 5 * MaxLag + Budget(lost[n] + 1)
    BY <1>5, <2>2, <2>3, <2>4
  <2> QED BY <1>1, <1>5, <2>2, <2>5, <2>6 DEF Covered
<1> QED BY <1>6, <1>7, <1>8 DEF NodeInv

LEMMA OwnSetMaster ==
    ASSUME NEW n \in Node, TypeOK, NodeInv(n), Redis_SetMaster_Callback(n)
    PROVE  NodeInv(n)'
<1>1. /\ up[n] /\ replies[n] # <<>> /\ Head(replies[n]).cmd = "GET"
      /\ lock' = lock /\ ttl' = ttl /\ timer' = timer /\ lost' = lost
      /\ up' = up /\ is_master' = is_master /\ lag'[n] = 0
  BY DEF Redis_SetMaster_Callback, redisVars, TypeOK
<1>2. replies'[n] = Tail(replies[n]) /\ cmds'[n] = Append(cmds[n], "IFEQ")
  BY DEF Redis_SetMaster_Callback, TypeOK
<1>3. Head(replies[n]).val # NoNode => current_master_id'[n] = Head(replies[n]).val
  BY DEF Redis_SetMaster_Callback, TypeOK
<1>4. /\ timer[n] \in Int /\ lag[n] \in Nat /\ lag[n] =< MaxLag /\ lost[n] \in 0 .. MaxLost
      /\ ttl \in Nat /\ MaxLag \in Nat /\ UpdateIntv \in Nat
      /\ replies[n] \in Seq(Reply) /\ cmds[n] \in Seq(Command) /\ NoNode # n
  BY NodeTypes, ConstantsOK
<1>5. Len(replies[n]) = 1 => Head(replies[n]) = replies[n][1] /\ Tail(replies[n]) = <<>>
  BY <1>4, ShortSeq
<1>6. Told(n)
  BY <1>1, <1>5 DEF NodeInv, RoundInv, Idle, Sent, Tried, Renewing, Renewed
<1>7. Renewing(n)' /\ Head(replies[n]) = replies[n][1]
  BY <1>2, <1>5, <1>6 DEF Told, Renewing
<1>8. Began(n, 3)
  BY <1>6, OneStage DEF NodeInv, RoundInv
<1>9. RoundInv(n)' /\ DownInv(n)'
  <2>1. Began(n, 4)'
    BY <1>1, <1>4, <1>8 DEF Began
  <2>2. RoundInv(n)'
    BY <1>7, <2>1 DEF RoundInv
  <2> QED BY <1>1, <2>2 DEF DownInv
<1>10. is_master[n] => Covered(n, 2 * MaxLag - lag[n])
  BY <1>1, <1>6 DEF NodeInv, LeaseInv
<1>11. is_master[n] => Covered(n, MaxLag - lag[n])'
  BY <1>1, <1>4, <1>10 DEF Covered
<1>12. LeaseInv(n)'
  BY <1>1, <1>7, <1>11, OneStageNext DEF LeaseInv
<1>13. lock = n => current_master_id'[n] = n
  BY <1>1, <1>3, <1>4, <1>6, <1>7 DEF NodeInv, NameInv
<1>14. NameInv(n)'
  BY <1>1, <1>7, <1>10, <1>13, OneStageNext DEF NameInv, Covered
<1> QED BY <1>9, <1>12, <1>14 DEF NodeInv

LEMMA OwnKeepMaster ==
    ASSUME NEW n \in Node, TypeOK, NodeInv(n), Redis_KeepMaster_Callback(n)
    PROVE  NodeInv(n)'
<1>1. /\ up[n] /\ replies[n] # <<>> /\ Head(replies[n]).cmd = "IFEQ"
      /\ lock' = lock /\ ttl' = ttl /\ timer' = timer /\ lost' = lost
      /\ up' = up /\ cmds' = cmds /\ current_master_id' = current_master_id
      /\ is_master'[n] = Head(replies[n]).ok
  BY DEF Redis_KeepMaster_Callback, redisVars, TypeOK
<1>2. replies'[n] = Tail(replies[n])
  BY DEF Redis_KeepMaster_Callback, TypeOK
<1>3. Len(replies[n]) = 1 => Head(replies[n]) = replies[n][1] /\ Tail(replies[n]) = <<>>
  BY NodeTypes, ShortSeq
<1>4. Renewed(n)
  BY <1>1, <1>3 DEF NodeInv, RoundInv, Idle, Sent, Tried, Told, Renewing
<1>5. Idle(n)' /\ is_master'[n] = replies[n][1].ok
  BY <1>1, <1>2, <1>3, <1>4 DEF Renewed, Idle
<1>6. DownInv(n)' /\ RoundInv(n)'
  BY <1>1, <1>5 DEF DownInv, RoundInv
<1>7. LeaseInv(n)'
  BY <1>1, <1>4, <1>5, OneStageNext DEF NodeInv, LeaseInv
<1>8. NameInv(n)'
  BY <1>1, <1>4, <1>5, OneStageNext DEF NodeInv, NameInv
<1> QED BY <1>6, <1>7, <1>8 DEF NodeInv

\* What every execution by Redis does to the node whose command it was.
LEMMA ExecutesFacts ==
    ASSUME NEW n \in Node, NEW c, TypeOK, Executes(n, c)
    PROVE  /\ cmds[n] # <<>> /\ Head(cmds[n]) = c /\ cmds'[n] = Tail(cmds[n])
           /\ lag'[n] = 0 /\ timer' = timer /\ up' = up
           /\ is_master' = is_master /\ current_master_id' = current_master_id
           /\ Len(cmds[n]) = 1 => Head(cmds[n]) = cmds[n][1] /\ Tail(cmds[n]) = <<>>
           /\ Len(cmds[n]) = 2 => /\ Head(cmds[n]) = cmds[n][1] /\ Len(Tail(cmds[n])) = 1
                                  /\ Tail(cmds[n])[1] = cmds[n][2]
<1>1. cmds[n] \in Seq(Command)
  BY NodeTypes
<1>2. /\ cmds[n] # <<>> /\ Head(cmds[n]) = c
      /\ cmds' = [cmds EXCEPT ![n] = Tail(@)] /\ lag' = [lag EXCEPT ![n] = 0]
      /\ timer' = timer /\ up' = up
      /\ is_master' = is_master /\ current_master_id' = current_master_id
  BY DEF Executes, nodeVars
<1>3. cmds'[n] = Tail(cmds[n]) /\ lag'[n] = 0
  BY <1>2 DEF TypeOK
<1> QED BY <1>1, <1>2, <1>3, ShortSeq

LEMMA OwnSetNx ==
    ASSUME NEW n \in Node, TypeOK, NodeInv(n), ExecSetNx(n)
    PROVE  NodeInv(n)'
<1>1. /\ Executes(n, "SETNX") /\ replies' = replies /\ lost' = lost
      /\ lock # NoNode => lock' = lock /\ ttl' = ttl
  BY DEF ExecSetNx, redisVars
<1>2. /\ cmds[n] # <<>> /\ Head(cmds[n]) = "SETNX" /\ cmds'[n] = Tail(cmds[n])
      /\ lag'[n] = 0 /\ timer' = timer /\ up' = up
      /\ is_master' = is_master /\ current_master_id' = current_master_id
      /\ Len(cmds[n]) = 1 => Head(cmds[n]) = cmds[n][1]
      /\ Len(cmds[n]) = 2 => Len(Tail(cmds[n])) = 1 /\ Tail(cmds[n])[1] = cmds[n][2]
  BY <1>1, ExecutesFacts
<1>3. /\ timer[n] \in Int /\ lag[n] \in Nat /\ lag[n] =< MaxLag /\ lost[n] \in 0 .. MaxLost
      /\ ttl \in Nat /\ MaxLag \in Nat /\ UpdateIntv \in Nat /\ NoNode # n
  BY NodeTypes, ConstantsOK
<1>4. Sent(n)
  BY <1>2 DEF NodeInv, RoundInv, Idle, Tried, Told, Renewing, Renewed
<1>5. Tried(n)'
  BY <1>1, <1>2, <1>4 DEF Sent, Tried
<1>6. Began(n, 1)
  BY <1>4, OneStage DEF NodeInv, RoundInv
<1>7. RoundInv(n)'
  BY <1>2, <1>3, <1>5, <1>6 DEF RoundInv, Began
<1>8. DownInv(n)'
  BY <1>1, <1>2 DEF NodeInv, DownInv
<1>9. up[n] /\ is_master[n] => Covered(n, 3 * MaxLag - lag[n])'
  <2>1. up[n] /\ is_master[n] => Covered(n, 4 * MaxLag - lag[n])
    BY <1>4 DEF NodeInv, LeaseInv
  <2> QED BY <1>1, <1>2, <1>3, <2>1 DEF Covered
<1>10. up[n] => LeaseInv(n)'
  BY <1>2, <1>5, <1>9, OneStageNext DEF LeaseInv
<1>11. up[n] => NameInv(n)'
  BY <1>2, <1>5, OneStageNext DEF NodeInv, NameInv
<1> QED BY <1>2, <1>7, <1>8, <1>10, <1>11 DEF NodeInv

LEMMA OwnGet ==
    ASSUME NEW n \in Node, TypeOK, NodeInv(n), ExecGet(n)
    PROVE  NodeInv(n)'
<1> DEFINE r == [cmd |-> "GET", val |-> lock]
<1>1. Executes(n, "GET") /\ lost' = lost /\ lock' = lock /\ ttl' = ttl
  BY DEF ExecGet, redisVars
<1>2. replies'[n] = IF up[n] THEN Append(replies[n], r) ELSE replies[n]
  BY DEF ExecGet, Answer, TypeOK
<1>3. /\ cmds[n] # <<>> /\ Head(cmds[n]) = "GET" /\ cmds'[n] = Tail(cmds[n])
      /\ lag'[n] = 0 /\ timer' = timer /\ up' = up
      /\ is_master' = is_master /\ current_master_id' = current_master_id
      /\ Len(cmds[n]) = 1 => Head(cmds[n]) = cmds[n][1] /\ Tail(cmds[n]) = <<>>
      /\ Len(cmds[n]) = 2 => Head(cmds[n]) = cmds[n][1]
  BY <1>1, ExecutesFacts
<1>4. /\ timer[n] \in Int /\ lag[n] \in Nat /\ lag[n] =< MaxLag /\ lost[n] \in 0 .. MaxLost
      /\ ttl \in Nat /\ MaxLag \in Nat /\ UpdateIntv \in Nat
  BY NodeTypes
<1>5. Tried(n)
  BY <1>3 DEF NodeInv, RoundInv, Idle, Sent, Told, Renewing, Renewed
<1>6. cmds'[n] = <<>> /\ replies[n] = <<>>
  BY <1>3, <1>5 DEF Tried
<1>7. Began(n, 2)
  BY <1>5, OneStage DEF NodeInv, RoundInv
<1>8. CASE ~up[n]
  <2>1. Idle(n)' /\ DownInv(n)'
    BY <1>2, <1>3, <1>6, <1>8 DEF NodeInv, DownInv, Idle
  <2> QED BY <1>3, <1>8, <2>1 DEF NodeInv, RoundInv
<1>9. CASE up[n]
  <2>1. Len(replies'[n]) = 1 /\ replies'[n][1] = r
    BY <1>2, <1>6, <1>9
  <2>2. Told(n)' /\ replies'[n][1].val = lock
    BY <1>6, <2>1 DEF Told
  <2>3. RoundInv(n)' /\ DownInv(n)'
    BY <1>3, <1>4, <1>7, <1>9, <2>2 DEF RoundInv, DownInv, Began
  <2>4. is_master[n] => Covered(n, 2 * MaxLag - lag[n])'
    <3>1. is_master[n] => Covered(n, 3 * MaxLag - lag[n])
      BY <1>5, <1>9 DEF NodeInv, LeaseInv
    <3> QED BY <1>1, <1>3, <1>4, <3>1 DEF Covered
  <2>5. LeaseInv(n)'
    BY <1>3, <2>2, <2>4, OneStageNext DEF LeaseInv
  <2>6. NameInv(n)'
    BY <1>1, <1>3, <1>9, <2>2, OneStageNext DEF NodeInv, NameInv
  <2> QED BY <2>3, <2>5, <2>6 DEF NodeInv
<1> QED BY <1>8, <1>9

LEMMA OwnIfeq ==
    ASSUME Timely, NEW n \in Node, TypeOK, NodeInv(n), ExecIfeq(n)
    PROVE  NodeInv(n)'
<1> DEFINE r == [cmd |-> "IFEQ", ok |-> lock = n]
<1>1. /\ Executes(n, "IFEQ") /\ lost'[n] = 0 /\ lock' = lock
      /\ lock = n => ttl' = MasterTTL
  BY DEF ExecIfeq, TypeOK
<1>2. replies'[n] = IF up[n] THEN Append(replies[n], r) ELSE replies[n]
  BY DEF ExecIfeq, Answer, TypeOK
<1>3. /\ cmds[n] # <<>> /\ Head(cmds[n]) = "IFEQ" /\ cmds'[n] = Tail(cmds[n])
      /\ lag'[n] = 0 /\ timer' = timer /\ up' = up
      /\ is_master' = is_master /\ current_master_id' = current_master_id
      /\ Len(cmds[n]) = 1 => Head(cmds[n]) = cmds[n][1] /\ Tail(cmds[n]) = <<>>
      /\ Len(cmds[n]) = 2 => Head(cmds[n]) = cmds[n][1]
  BY <1>1, ExecutesFacts
<1>4. /\ timer[n] \in Int /\ timer[n] =< UpdateIntv /\ lag[n] \in Nat /\ lag[n] =< MaxLag
      /\ MaxLag \in Nat /\ UpdateIntv \in Nat /\ MasterTTL \in Nat /\ MaxLost \in Nat
  BY NodeTypes
<1>5. Renewing(n)
  BY <1>3 DEF NodeInv, RoundInv, Idle, Sent, Tried, Told, Renewed
<1>6. cmds'[n] = <<>> /\ replies[n] = <<>>
  BY <1>3, <1>5 DEF Renewing
<1>7. Began(n, 4)
  BY <1>5, OneStage DEF NodeInv, RoundInv
<1>8. CASE ~up[n]
  <2>1. Idle(n)' /\ DownInv(n)'
    BY <1>2, <1>3, <1>6, <1>8 DEF NodeInv, DownInv, Idle
  <2> QED BY <1>3, <1>8, <2>1 DEF NodeInv, RoundInv
<1>9. CASE up[n]
  <2>1. Len(replies'[n]) = 1 /\ replies'[n][1] = r
    BY <1>2, <1>6, <1>9
  <2>2. Renewed(n)' /\ replies'[n][1].ok = (lock = n)
    BY <1>6, <2>1 DEF Renewed
  <2>3. RoundInv(n)' /\ DownInv(n)'
    BY <1>3, <1>4, <1>7, <1>9, <2>2 DEF RoundInv, DownInv, Began
  <2>4. is_master[n] => lock = n
    BY <1>5, <1>9 DEF NodeInv, LeaseInv, Covered
  <2>5. UpdateIntv + 5 * MaxLag + Budget(0) < MasterTTL /\ Budget(0) \in Nat
    BY <1>4, BudgetFacts
  <2>6. lock = n => ttl' > timer'[n] + 5 * MaxLag + Budget(lost'[n])
    BY <1>1, <1>3, <1>4, <2>5
  <2>7. LeaseInv(n)'
    BY <1>1, <1>3, <2>2, <2>4, <2>6, OneStageNext DEF LeaseInv
  <2>8. NameInv(n)'
    BY <1>1, <1>3, <1>5, <1>9, <2>2, <2>4, OneStageNext DEF NodeInv, NameInv
  <2> QED BY <2>3, <2>7, <2>8 DEF NodeInv
<1> QED BY <1>8, <1>9

\* Time passes for every node; a held key never runs out in this step, because
\* what is due is handled first.
LEMMA OwnTick ==
    ASSUME NEW n \in Node, TypeOK, NodeInv(n), Tick
    PROVE  NodeInv(n)'
<1>1. /\ OnTime(n) /\ cmds' = cmds /\ replies' = replies /\ lost' = lost
      /\ up' = up /\ is_master' = is_master /\ current_master_id' = current_master_id
      /\ lock' = IF ttl > 1 THEN lock ELSE NoNode
      /\ ttl' = IF ttl > 1 THEN ttl - 1 ELSE 0
      /\ up[n] => timer'[n] = timer[n] - 1
      /\ Pending(n) => lag'[n] = lag[n] + 1
  BY DEF Tick, nodeVars, TypeOK
<1>2. /\ timer[n] \in Int /\ lag[n] \in Nat /\ lag[n] =< MaxLag /\ lost[n] \in 0 .. MaxLost
      /\ ttl \in Nat /\ MaxLag \in Nat /\ UpdateIntv \in Nat /\ MaxLost \in Nat
      /\ NoNode # n /\ Budget(lost[n]) \in Nat
  BY NodeTypes, BudgetFacts, ConstantsOK
<1>3. /\ (Idle(n)' <=> Idle(n)) /\ (Sent(n)' <=> Sent(n)) /\ (Tried(n)' <=> Tried(n))
      /\ (Told(n)' <=> Told(n)) /\ (Renewing(n)' <=> Renewing(n)) /\ (Renewed(n)' <=> Renewed(n))
  BY <1>1 DEF Idle, Sent, Tried, Told, Renewing, Renewed
<1>4. Sent(n) \/ Tried(n) \/ Told(n) \/ Renewing(n) \/ Renewed(n) => Pending(n)
  BY EmptySeq DEF Sent, Tried, Told, Renewing, Renewed, Pending
<1>5. /\ up[n] => timer[n] > -MaxLag
      /\ Pending(n) => lag[n] < MaxLag
  BY <1>1 DEF OnTime
<1>6. DownInv(n)'
  BY <1>1 DEF NodeInv, DownInv
<1>7. RoundInv(n)'
  <2>1. ASSUME NEW h \in 1 .. 5, Pending(n), Began(n, h) PROVE Began(n, h)'
    <3>1. (h - 1) * MaxLag \in Int
      BY <1>2
    <3>2. Began(n, h)' = (up'[n] => timer'[n] >= UpdateIntv - (h - 1) * MaxLag - lag'[n])
      BY DEF Began
    <3> QED BY <1>1, <1>2, <2>1, <3>1, <3>2 DEF Began
  <2>2. Pending(n) =>
          /\ Began(n, 1) => Began(n, 1)'
          /\ Began(n, 2) => Began(n, 2)'
          /\ Began(n, 3) => Began(n, 3)'
          /\ Began(n, 4) => Began(n, 4)'
          /\ Began(n, 5) => Began(n, 5)'
    BY <2>1
  <2>3. RoundInv(n)
    BY DEF NodeInv
  <2> QED BY <1>3, <1>4, <2>2, <2>3 DEF RoundInv
<1>8. ASSUME up[n], Idle(n) \/ Renewed(n),
             lock = n, ttl > timer[n] + 5 * MaxLag + Budget(lost[n])
      PROVE  lock' = n /\ ttl' > timer'[n] + 5 * MaxLag + Budget(lost'[n])
  BY <1>1, <1>2, <1>5, <1>8
<1>9. ASSUME up[n], Pending(n), NEW d \in Nat, d >= MaxLag, Covered(n, d - lag[n])
      PROVE  Covered(n, d - lag[n])'
  <2>2. /\ lock = n /\ ttl > d - lag[n]
        /\ lost[n] < MaxLost => ttl > timer[n] + 5 * MaxLag + Budget(lost[n] + 1)
    BY <1>9 DEF Covered
  <2>3. lost[n] < MaxLost => Budget(lost[n] + 1) \in Nat
    <3>1. ASSUME lost[n] < MaxLost PROVE lost[n] + 1 \in 0 .. MaxLost
      BY <1>2, <3>1
    <3> QED BY <3>1, BudgetFacts
  <2>4. ttl > 1 /\ lag'[n] = lag[n] + 1 /\ timer'[n] = timer[n] - 1
    BY <1>1, <1>2, <1>5, <1>9, <2>2
  <2>5. lock' = n /\ ttl' = ttl - 1 /\ ttl' > d - lag'[n]
    BY <1>1, <1>2, <1>9, <2>2, <2>4
  <2>6. lost[n] < MaxLost => ttl' > timer'[n] + 5 * MaxLag + Budget(lost[n] + 1)
    BY <1>1, <1>2, <2>2, <2>3, <2>4, <2>5
  <2> QED BY <1>1, <2>5, <2>6 DEF Covered
<1>10. ASSUME up[n] PROVE LeaseInv(n)'
  <2>1. LeaseInv(n)
    BY <1>10 DEF NodeInv
  <2>2. /\ 4 * MaxLag \in Nat /\ 3 * MaxLag \in Nat /\ 2 * MaxLag \in Nat /\ MaxLag \in Nat
        /\ 4 * MaxLag >= MaxLag /\ 3 * MaxLag >= MaxLag /\ 2 * MaxLag >= MaxLag
        /\ MaxLag >= MaxLag
    BY <1>2
  <2>3. Idle(n) /\ is_master[n] =>
          lock' = n /\ ttl' > timer'[n] + 5 * MaxLag + Budget(lost'[n])
    BY <1>8, <1>10, <2>1 DEF LeaseInv
  <2>4. Renewed(n) /\ (is_master[n] \/ replies[n][1].ok) =>
          /\ lock' = n /\ ttl' > timer'[n] + 5 * MaxLag + Budget(lost'[n])
          /\ replies[n][1].ok
    BY <1>8, <1>10, <2>1 DEF LeaseInv
  <2>6. Pending(n) =>
          /\ Covered(n, 4 * MaxLag - lag[n]) => Covered(n, 4 * MaxLag - lag[n])'
          /\ Covered(n, 3 * MaxLag - lag[n]) => Covered(n, 3 * MaxLag - lag[n])'
          /\ Covered(n, 2 * MaxLag - lag[n]) => Covered(n, 2 * MaxLag - lag[n])'
          /\ Covered(n, MaxLag - lag[n]) => Covered(n, MaxLag - lag[n])'
    BY <1>9, <1>10, <2>2
  <2>5. /\ Sent(n) /\ is_master[n] => Covered(n, 4 * MaxLag - lag[n])'
        /\ Tried(n) /\ is_master[n] => Covered(n, 3 * MaxLag - lag[n])'
        /\ Told(n) /\ is_master[n] => Covered(n, 2 * MaxLag - lag[n])'
        /\ Renewing(n) /\ is_master[n] => Covered(n, MaxLag - lag[n])'
    BY <1>4, <2>1, <2>6 DEF LeaseInv
  <2> QED BY <1>1, <1>3, <2>3, <2>4, <2>5 DEF LeaseInv
<1>11. ASSUME up[n] PROVE NameInv(n)'
  <2>1. lock' = n => lock = n
    BY <1>1, <1>2
  <2> QED BY <1>1, <1>3, <1>11, <2>1 DEF NodeInv, NameInv
<1> QED BY <1>1, <1>6, <1>7, <1>10, <1>11 DEF NodeInv

\* A lost round leaves the master what Covered set aside for it.
LEMMA OwnDisconnect ==
    ASSUME NEW n \in Node, TypeOK, NodeInv(n), Disconnect(n)
    PROVE  NodeInv(n)'
<1> DEFINE renewing == \/ \E i \in 1 .. Len(cmds[n]) : cmds[n][i] = "IFEQ"
                       \/ \E i \in 1 .. Len(replies[n]) : replies[n][i].cmd = "IFEQ"
<1>1. /\ up[n] /\ Pending(n) /\ lost[n] < MaxLost /\ lost'[n] = lost[n] + 1
      /\ cmds'[n] = <<>> /\ replies'[n] = <<>> /\ timer' = timer /\ up' = up
      /\ lock' = lock /\ ttl' = ttl /\ current_master_id' = current_master_id
  BY DEF Disconnect, redisVars, TypeOK
<1>2. is_master' = IF renewing THEN [is_master EXCEPT ![n] = FALSE] ELSE is_master
  BY Zenon DEF Disconnect
<1>3. renewing => ~is_master'[n]
  BY <1>2 DEF TypeOK
<1>4. ~renewing => is_master' = is_master
  BY <1>2
<1>5. Renewing(n) \/ Renewed(n) => renewing
  BY DEF Renewing, Renewed
<1> HIDE DEF renewing
<1>6. Idle(n)' /\ RoundInv(n)' /\ DownInv(n)'
  BY <1>1 DEF Idle, RoundInv, DownInv
<1>7. ~Idle(n)
  BY <1>1 DEF Idle, Pending
<1>8. is_master'[n] => is_master[n] /\ (Sent(n) \/ Tried(n) \/ Told(n))
  BY <1>3, <1>4, <1>5, <1>7 DEF NodeInv, RoundInv
<1>9. is_master'[n] => lock = n /\ ttl > timer[n] + 5 * MaxLag + Budget(lost[n] + 1)
  BY <1>1, <1>8 DEF NodeInv, LeaseInv, Covered
<1>10. LeaseInv(n)'
  BY <1>1, <1>6, <1>9, OneStageNext DEF LeaseInv
<1>11. NameInv(n)'
  BY <1>1, <1>6, <1>8, OneStageNext DEF NodeInv, NameInv
<1> QED BY <1>6, <1>10, <1>11 DEF NodeInv

LEMMA OwnCrash ==
    ASSUME NEW n \in Node, TypeOK, NodeInv(n), Crash(n)
    PROVE  NodeInv(n)'
<1>1. ~up'[n] /\ ~is_master'[n] /\ replies'[n] = <<>> /\ cmds' = cmds
  BY DEF Crash, TypeOK
<1>2. Idle(n)' \/ Sent(n)' \/ Tried(n)' \/ Renewing(n)'
  BY <1>1 DEF NodeInv, RoundInv, Idle, Sent, Tried, Told, Renewing, Renewed
<1>3. RoundInv(n)'
  BY <1>1, <1>2 DEF RoundInv, Began
<1> QED BY <1>1, <1>3 DEF NodeInv, DownInv

LEMMA OwnConnReset ==
    ASSUME NEW n \in Node, TypeOK, NodeInv(n), ConnReset(n)
    PROVE  NodeInv(n)'
<1>1. /\ ~up[n] /\ up' = up /\ is_master' = is_master
      /\ replies' = replies /\ cmds'[n] = <<>>
  BY DEF ConnReset, nodeVars, TypeOK
<1> QED BY <1>1 DEF NodeInv, DownInv, RoundInv, Idle

LEMMA OwnRestart ==
    ASSUME NEW n \in Node, TypeOK, NodeInv(n), Restart(n)
    PROVE  NodeInv(n)'
<1>1. /\ ~up[n] /\ cmds[n] = <<>> /\ is_master' = is_master
      /\ replies' = replies /\ cmds' = cmds
  BY DEF Restart, TypeOK
<1>2. Idle(n)' /\ ~is_master'[n] /\ RoundInv(n)' /\ DownInv(n)'
  BY <1>1 DEF NodeInv, DownInv, RoundInv, Idle
<1> QED BY <1>2, OneStageNext DEF NodeInv, LeaseInv, NameInv

-----------------------------------------------------------------------------
\* A step of m leaves every other node its key: SET NX only takes a key nobody
\* holds, SET IFEQ only touches the caller's.
LEMMA Others ==
    ASSUME TypeOK, NEW m \in Node, NEW n \in Node, n # m, NodeInv(n),
           Loop(m) \/ Server(m) \/ Fault(m)
    PROVE  NodeInv(n)'
<1>1. /\ up'[n] = up[n] /\ is_master'[n] = is_master[n]
      /\ current_master_id'[n] = current_master_id[n]
      /\ cmds'[n] = cmds[n] /\ replies'[n] = replies[n]
      /\ timer'[n] = timer[n] /\ lag'[n] = lag[n] /\ lost'[n] = lost[n]
      /\ (lock' = lock /\ ttl' = ttl) \/ (lock # n /\ lock' # n)
  <2>1. CASE Loop(m)
    BY <2>1 DEF Loop, TimeoutCallback, Redis_SetMaster_Callback, Redis_KeepMaster_Callback,
           redisVars, nodeVars, TypeOK
  <2>2. CASE ExecSetNx(m)
    BY <2>2, ConstantsOK DEF ExecSetNx, Executes, redisVars, nodeVars, TypeOK
  <2>3. CASE ExecGet(m)
    BY <2>3 DEF ExecGet, Executes, Answer, redisVars, nodeVars, TypeOK
  <2>4. CASE ExecIfeq(m)
    BY <2>4 DEF ExecIfeq, Executes, Answer, nodeVars, TypeOK
  <2>5. CASE Disconnect(m)
    <3>1. is_master' \in {is_master, [is_master EXCEPT ![m] = FALSE]}
      BY <2>5, Zenon DEF Disconnect
    <3>2. is_master'[n] = is_master[n]
      BY <3>1 DEF TypeOK
    <3>3. /\ up' = up /\ current_master_id' = current_master_id
          /\ lock' = lock /\ ttl' = ttl /\ timer' = timer
          /\ lost'[n] = lost[n] /\ lag'[n] = lag[n]
          /\ cmds'[n] = cmds[n] /\ replies'[n] = replies[n]
      BY <2>5 DEF Disconnect, redisVars, TypeOK
    <3> QED BY <3>2, <3>3
  <2>6. CASE Crash(m) \/ ConnReset(m) \/ Restart(m)
    BY <2>6 DEF Crash, ConnReset, Restart, redisVars, nodeVars, TypeOK
  <2> QED BY <2>1, <2>2, <2>3, <2>4, <2>5, <2>6 DEF Server, Fault
<1> QED BY <1>1, Frame

LEMMA InvInit == Init => IInv
<1> SUFFICES ASSUME Init, NEW n \in Node PROVE NodeInv(n)
  BY TypeInit DEF IInv
<1>1. ~is_master[n] /\ up[n] /\ Idle(n)
  BY DEF Init, Idle
<1> QED BY <1>1, OneStage DEF NodeInv, DownInv, RoundInv, LeaseInv, NameInv

LEMMA InvStep == Timely /\ IInv /\ [Next]_vars => IInv'
<1> SUFFICES ASSUME Timely, IInv, [Next]_vars, NEW n \in Node PROVE NodeInv(n)'
  BY TypeStep DEF IInv
<1>1. TypeOK /\ NodeInv(n)
  BY DEF IInv
<1>2. CASE Tick
  BY <1>1, <1>2, OwnTick
<1>3. ASSUME NEW m \in Node, Loop(m) \/ Server(m) \/ Fault(m) PROVE NodeInv(n)'
  <2>1. CASE n # m
    BY <1>1, <1>3, <2>1, Others
  <2>2. CASE n = m /\ Loop(n)
    BY <1>1, <2>2, OwnTimeout, OwnSetMaster, OwnKeepMaster DEF Loop
  <2>3. CASE n = m /\ Server(n)
    BY <1>1, <2>3, OwnSetNx, OwnGet, OwnIfeq DEF Server
  <2>4. CASE n = m /\ Fault(n)
    BY <1>1, <2>4, OwnDisconnect, OwnCrash, OwnConnReset, OwnRestart DEF Fault
  <2> QED BY <1>3, <2>1, <2>2, <2>3, <2>4
<1>4. CASE UNCHANGED vars
  BY <1>1, <1>4, Frame DEF vars
<1> QED BY <1>2, <1>3, <1>4 DEF Next

\* A master up holds the key, whatever stage its round is in.
LEMMA MasterFacts ==
    ASSUME IInv, NEW n \in Masters
    PROVE  lock = n /\ current_master_id[n] = n
<1>1. n \in Node /\ up[n] /\ is_master[n]
  BY DEF Masters
<1>2. NodeInv(n)
  BY <1>1 DEF IInv
<1> QED BY <1>1, <1>2 DEF NodeInv, RoundInv, LeaseInv, NameInv, Covered

\* IInv is an invariant of every timely instance.
LEMMA IInvAlways == ASSUME Timely PROVE Spec => []IInv
<1>1. IInv /\ [Next]_vars => IInv'
  BY InvStep
<1> QED BY <1>1, InvInit, PTL DEF Spec

\* The node that believes it is master (_is_master, set by
\* Redis_KeepMaster_Callback) holds CASTER:MASTER at every moment.
THEOREM MasterHoldsLockAlways == ASSUME Timely PROVE Spec => []MasterHoldsLock
<1>1. IInv => MasterHoldsLock
  BY MasterFacts DEF MasterHoldsLock
<1> QED BY <1>1, IInvAlways, PTL

\* At most one live node acts on _is_master: only one distributes relay tasks.
THEOREM SingleMasterAlways == ASSUME Timely PROVE Spec => []SingleMaster
<1>1. IInv => SingleMaster
  BY MasterFacts DEF SingleMaster
<1> QED BY <1>1, IInvAlways, PTL

\* The acting master is the node its status names (_current_master_id).
THEOREM MasterNamesItselfAlways == ASSUME Timely PROVE Spec => []MasterNamesItself
<1>1. IInv => MasterNamesItself
  BY MasterFacts DEF MasterNamesItself
<1> QED BY <1>1, IInvAlways, PTL

-----------------------------------------------------------------------------
(* How long the cluster can be without a master.                           *)

\* The time until the next SET NX of n is executed.
ToSet(n) == IF Sent(n) THEN MaxLag - lag[n] ELSE timer[n] + 2 * MaxLag

\* With the key free, every live node is in time to take it, in a round of
\* which four hops are then left.
InTime(n) == headless + ToSet(n) + 4 * MaxLag < FailoverLimit

\* With the key held, there is time for it to expire and for InTime then.
Expiring == headless + ttl + UpdateIntv + 6 * MaxLag - 1 < FailoverLimit

\* n learns in the given number of hops that it holds the key, which is in
\* time and before the key expires.
Soon(n, hops) ==
    /\ headless + hops * MaxLag - lag[n] < FailoverLimit
    /\ ttl > hops * MaxLag - lag[n]

\* The round of n will make it master.
Winning(n) ==
    /\ up[n]
    /\ \/ Tried(n) /\ Soon(n, 4)
       \/ Told(n) /\ Soon(n, 3)
       \/ Renewing(n) /\ Soon(n, 2)
       \/ Renewed(n) /\ replies[n][1].ok /\ Soon(n, 1)

\* A process that died has at most a hop to touch the key once more.
LastWord(n) == ~up[n] /\ (Sent(n) \/ Renewing(n)) => headless =< lag[n]

FailoverInv ==
    /\ headless > 0 => \E n \in Node : up[n]
    /\ \A n \in Node : LastWord(n)
    /\ lock = NoNode => \A n \in Node : up[n] => InTime(n)
    /\ lock # NoNode => Expiring \/ Winning(lock)

\* The types of what FailoverInv speaks of, in one state.
LEMMA FailTypes ==
    ASSUME TypeOK, NEW n \in Node
    PROVE  /\ headless \in Nat /\ ttl \in Nat /\ ttl =< MasterTTL
           /\ lock # NoNode => ttl >= 1
           /\ timer[n] \in Int /\ timer[n] >= -MaxLag /\ timer[n] =< UpdateIntv
           /\ lag[n] \in Nat /\ lag[n] =< MaxLag
           /\ MaxLag \in Nat /\ UpdateIntv \in Nat \ {0} /\ MasterTTL \in Nat \ {0}
           /\ ToSet(n) \in Nat /\ (Sent(n) \/ ToSet(n) = timer[n] + 2 * MaxLag)
           /\ ToSet(n) =< UpdateIntv + 2 * MaxLag
           /\ FailoverLimit = MasterTTL + UpdateIntv + 7 * MaxLag
<1>1. /\ headless \in Nat /\ ttl \in Nat /\ ttl =< MasterTTL
      /\ lock # NoNode => ttl >= 1
      /\ timer[n] \in Int /\ timer[n] >= -MaxLag /\ timer[n] =< UpdateIntv
      /\ lag[n] \in Nat /\ lag[n] =< MaxLag
      /\ MaxLag \in Nat /\ UpdateIntv \in Nat \ {0} /\ MasterTTL \in Nat \ {0}
  BY ConstantsOK DEF TypeOK
<1>2. CASE Sent(n)
  BY <1>1, <1>2 DEF ToSet, FailoverLimit
<1>3. CASE ~Sent(n)
  BY <1>1, <1>3 DEF ToSet, FailoverLimit
<1> QED BY <1>2, <1>3

\* While FailoverInv holds there is time left.
LEMMA FailoverFacts == TypeOK /\ FailoverInv => FailoverBound
<1> SUFFICES ASSUME TypeOK, FailoverInv PROVE headless < FailoverLimit
  BY DEF FailoverBound
<1>1. CASE headless = 0
  BY <1>1, ConstantsOK DEF FailoverLimit
<1>2. CASE headless # 0
  <2>1. headless \in Nat
    BY DEF TypeOK
  <2>2. PICK n \in Node : up[n]
    BY <1>2, <2>1 DEF FailoverInv
  <2>3. CASE lock = NoNode
    <3>1. headless + ToSet(n) + 4 * MaxLag < FailoverLimit
      BY <2>2, <2>3 DEF FailoverInv, InTime
    <3> QED BY <2>1, <3>1, FailTypes
  <2>4. CASE lock # NoNode
    <3>1. lock \in Node
      BY <2>4 DEF TypeOK
    <3>2. CASE Expiring
      BY <2>4, <3>1, <3>2, FailTypes DEF Expiring
    <3>3. CASE Winning(lock)
      <4>1. PICK k \in 1 .. 4 : headless + k * MaxLag - lag[lock] < FailoverLimit
        BY <3>3 DEF Winning, Soon
      <4>2. /\ lag[lock] \in Nat /\ lag[lock] =< MaxLag /\ MaxLag \in Nat
            /\ FailoverLimit \in Nat
        BY <3>1, FailTypes
      <4> QED BY <2>1, <4>1, <4>2
    <3> QED BY <2>4, <3>2, <3>3 DEF FailoverInv
  <2> QED BY <2>3, <2>4
<1> QED BY <1>1, <1>2

\* With the clock of the failover at zero there is time for everything.
LEMMA FreshFailover == TypeOK /\ headless = 0 => FailoverInv
<1> SUFFICES ASSUME TypeOK, headless = 0 PROVE FailoverInv
  OBVIOUS
<1>1. \A n \in Node : LastWord(n)
  BY FailTypes DEF LastWord
<1>2. ASSUME NEW n \in Node PROVE InTime(n)
  <2>1. /\ ToSet(n) \in Nat /\ ToSet(n) =< UpdateIntv + 2 * MaxLag
        /\ MaxLag \in Nat /\ UpdateIntv \in Nat /\ MasterTTL \in Nat \ {0}
        /\ FailoverLimit = MasterTTL + UpdateIntv + 7 * MaxLag
    BY FailTypes
  <2> QED BY <2>1 DEF InTime
<1>3. lock # NoNode => Expiring
  <2> SUFFICES ASSUME lock # NoNode PROVE Expiring
    OBVIOUS
  <2>1. lock \in Node
    BY DEF TypeOK
  <2> QED BY <2>1, FailTypes DEF Expiring
<1> QED BY <1>1, <1>2, <1>3 DEF FailoverInv

\* The same after a fault or a renewal.
LEMMA ResetFailover == (TypeOK /\ headless = 0 => FailoverInv)'
  BY FreshFailover, PTL

\* What a step of m that leaves the clock alone has to keep for the rest to
\* follow: the other nodes do not move.
LEMMA FailFrame ==
    ASSUME FailoverInv, TypeOK, TypeOK', NEW m \in Node,
           headless' = headless, up' = up,
           \A n \in Node \ {m} : /\ cmds'[n] = cmds[n] /\ replies'[n] = replies[n]
                                 /\ timer'[n] = timer[n] /\ lag'[n] = lag[n],
           LastWord(m)', lock' = NoNode => lock = NoNode,
           lock' = NoNode /\ up[m] /\ InTime(m) => InTime(m)',
           lock' # NoNode =>
             \/ Expiring'
             \/ lock' = m /\ Winning(m)'
             \/ lock' # m /\ lock' = lock /\ ttl' = ttl /\ Winning(lock)
    PROVE  FailoverInv'
<1>1. ASSUME NEW n \in Node \ {m}
      PROVE  /\ LastWord(n) => LastWord(n)'
             /\ InTime(n) => InTime(n)'
             /\ ttl' = ttl /\ Winning(n) => Winning(n)'
  BY DEF LastWord, InTime, Winning, ToSet, Soon, Sent, Tried, Told, Renewing, Renewed,
         FailoverLimit
<1>2. \A n \in Node : LastWord(n)'
  BY <1>1 DEF FailoverInv
<1>3. lock' = NoNode => \A n \in Node : up'[n] => InTime(n)'
  BY <1>1 DEF FailoverInv
<1>4. ASSUME lock' # NoNode PROVE Expiring' \/ Winning(lock)'
  <2>1. \A n \in Node : Winning(n)' /\ lock' = n => Winning(lock)'
    BY DEF Winning, Soon, Tried, Told, Renewing, Renewed
  <2>2. lock' \in Node
    BY <1>4 DEF TypeOK
  <2> QED BY <1>1, <1>4, <2>1, <2>2
<1>5. headless' > 0 => \E n \in Node : up'[n]
  BY DEF FailoverInv
<1> QED BY <1>2, <1>3, <1>4, <1>5 DEF FailoverInv

\* Which nodes a step of the loop, of Redis or of the dead socket leaves alone.
LEMMA RestStill ==
    ASSUME TypeOK, NEW m \in Node, Loop(m) \/ Server(m) \/ ConnReset(m)
    PROVE  /\ up' = up
           /\ \A n \in Node \ {m} : /\ cmds'[n] = cmds[n] /\ replies'[n] = replies[n]
                                    /\ timer'[n] = timer[n] /\ lag'[n] = lag[n]
<1>1. CASE Loop(m)
  BY <1>1 DEF Loop, TimeoutCallback, Redis_SetMaster_Callback, Redis_KeepMaster_Callback,
         nodeVars, TypeOK
<1>2. CASE Server(m)
  BY <1>2 DEF Server, ExecSetNx, ExecGet, ExecIfeq, Executes, Answer, nodeVars, TypeOK
<1>3. CASE ConnReset(m)
  BY <1>3 DEF ConnReset, nodeVars, TypeOK
<1> QED BY <1>1, <1>2, <1>3

\* The step of each action, for the node that takes it.

LEMMA FailTimeout ==
    ASSUME Timely, IInv, FailoverInv, TypeOK', NEW m \in Node, TimeoutCallback(m)
    PROVE  FailoverInv'
<1>1. /\ up[m] /\ timer[m] =< 0 /\ lag'[m] = 0 /\ headless' = headless
      /\ lock' = lock /\ ttl' = ttl /\ replies' = replies /\ up' = up
      /\ cmds'[m] = cmds[m] \o <<"SETNX", "GET">> /\ TypeOK /\ NodeInv(m)
  BY DEF TimeoutCallback, redisVars, nodeVars, TypeOK, IInv
<1>2. Idle(m)
  BY <1>1, RoundFits
<1>3. Sent(m)'
  BY <1>1, <1>2 DEF Idle, Sent
<1>4. ~Winning(m)
  BY <1>2, OneStage DEF Winning
<1>5. InTime(m) => InTime(m)'
  <2>1. ToSet(m)' = MaxLag
    BY <1>1, <1>3, ConstantsOK DEF ToSet
  <2>2. ToSet(m) = timer[m] + 2 * MaxLag
    BY <1>2, OneStage DEF ToSet
  <2>3. /\ timer[m] \in Int /\ timer[m] >= -MaxLag /\ MaxLag \in Nat /\ headless \in Nat
        /\ FailoverLimit \in Nat
    BY <1>1, FailTypes
  <2> QED BY <1>1, <2>1, <2>2, <2>3 DEF InTime, FailoverLimit
<1>6. LastWord(m)'
  BY <1>1 DEF LastWord
<1>7. lock # NoNode => Expiring \/ (lock # m /\ Winning(lock))
  BY <1>4 DEF FailoverInv
<1>8. lock' # NoNode =>
        Expiring' \/ (lock' # m /\ lock' = lock /\ ttl' = ttl /\ Winning(lock))
  BY <1>1, <1>7 DEF Expiring, FailoverLimit
<1> QED BY <1>1, <1>5, <1>6, <1>8, FailFrame, RestStill DEF Loop

LEMMA FailSetMaster ==
    ASSUME IInv, FailoverInv, TypeOK', NEW m \in Node, Redis_SetMaster_Callback(m)
    PROVE  FailoverInv'
<1>1. /\ up[m] /\ replies[m] # <<>> /\ Head(replies[m]).cmd = "GET" /\ headless' = headless
      /\ lock' = lock /\ ttl' = ttl /\ timer' = timer /\ up' = up /\ lag'[m] = 0
      /\ replies'[m] = Tail(replies[m]) /\ cmds'[m] = Append(cmds[m], "IFEQ")
      /\ TypeOK /\ NodeInv(m) /\ cmds[m] \in Seq(Command)
  BY DEF Redis_SetMaster_Callback, redisVars, TypeOK, IInv
<1>2. Len(replies[m]) = 1 => Head(replies[m]) = replies[m][1] /\ Tail(replies[m]) = <<>>
  BY <1>1, NodeTypes, ShortSeq
<1>3. Told(m)
  BY <1>1, <1>2 DEF NodeInv, RoundInv, Idle, Sent, Tried, Renewing, Renewed
<1>4. Renewing(m)'
  BY <1>1, <1>2, <1>3 DEF Told, Renewing
<1>5. Winning(m) => Winning(m)'
  <2> SUFFICES ASSUME Winning(m) PROVE Soon(m, 2)'
    BY <1>1, <1>4 DEF Winning
  <2>1. Soon(m, 3)
    BY <1>3, OneStage DEF Winning
  <2>2. TypeOK
    BY DEF IInv
  <2>3. /\ lag[m] \in Nat /\ lag[m] =< MaxLag /\ MaxLag \in Nat /\ headless \in Nat
        /\ ttl \in Nat /\ FailoverLimit \in Nat
    BY <2>2, FailTypes
  <2> QED BY <1>1, <2>1, <2>3 DEF Soon, FailoverLimit
<1>6. InTime(m) => InTime(m)'
  BY <1>1, <1>3, <1>4, OneStage, OneStageNext DEF InTime, ToSet, FailoverLimit
<1>7. LastWord(m)'
  BY <1>1 DEF LastWord
<1>8. lock' # NoNode =>
        Expiring' \/ (lock' = m /\ Winning(m)')
          \/ (lock' # m /\ lock' = lock /\ ttl' = ttl /\ Winning(lock))
  BY <1>1, <1>5 DEF FailoverInv, Expiring, FailoverLimit
<1> QED BY <1>1, <1>6, <1>7, <1>8, FailFrame, RestStill DEF Loop

\* A renewal that succeeded ends the wait; one that failed was not a win.
LEMMA FailKeepMaster ==
    ASSUME IInv, FailoverInv, TypeOK', NEW m \in Node, Redis_KeepMaster_Callback(m)
    PROVE  FailoverInv'
<1>1. /\ up[m] /\ replies[m] # <<>> /\ Head(replies[m]).cmd = "IFEQ" /\ lag'[m] = 0
      /\ headless' = IF Head(replies[m]).ok THEN 0 ELSE headless
      /\ lock' = lock /\ ttl' = ttl /\ timer' = timer /\ up' = up /\ cmds' = cmds
      /\ replies'[m] = Tail(replies[m]) /\ TypeOK /\ NodeInv(m)
  BY DEF Redis_KeepMaster_Callback, redisVars, TypeOK, IInv
<1>2. Len(replies[m]) = 1 => Head(replies[m]) = replies[m][1] /\ Tail(replies[m]) = <<>>
  BY <1>1, NodeTypes, ShortSeq
<1>3. Renewed(m)
  BY <1>1, <1>2 DEF NodeInv, RoundInv, Idle, Sent, Tried, Told, Renewing
<1>4. Idle(m)' /\ Head(replies[m]) = replies[m][1]
  BY <1>1, <1>2, <1>3 DEF Renewed, Idle
<1>5. CASE Head(replies[m]).ok
  BY <1>1, <1>5, ResetFailover
<1>6. CASE ~Head(replies[m]).ok
  <2>1. ~Winning(m)
    BY <1>3, <1>4, <1>6, OneStage DEF Winning
  <2>2. InTime(m) => InTime(m)'
    BY <1>1, <1>3, <1>4, <1>6, OneStage, OneStageNext DEF InTime, ToSet, FailoverLimit
  <2>3. LastWord(m)'
    BY <1>1 DEF LastWord
  <2>4. lock' # NoNode =>
          Expiring' \/ (lock' # m /\ lock' = lock /\ ttl' = ttl /\ Winning(lock))
    BY <1>1, <1>6, <2>1 DEF FailoverInv, Expiring, FailoverLimit
  <2> QED BY <1>1, <1>6, <2>2, <2>3, <2>4, FailFrame, RestStill DEF Loop
<1> QED BY <1>5, <1>6

\* Whoever takes a free key is in time: a live node by InTime, a dead one because
\* its last word comes within a hop of its death.
LEMMA FailSetNx ==
    ASSUME Timely, IInv, FailoverInv, TypeOK', NEW m \in Node, ExecSetNx(m)
    PROVE  FailoverInv'
<1>1. /\ Executes(m, "SETNX") /\ replies' = replies /\ headless' = headless
      /\ lock = NoNode => lock' = m /\ ttl' = MasterTTL
      /\ lock # NoNode => lock' = lock /\ ttl' = ttl
      /\ TypeOK /\ NodeInv(m)
  BY DEF ExecSetNx, redisVars, IInv, Executes
<1>2. /\ cmds[m] # <<>> /\ Head(cmds[m]) = "SETNX" /\ cmds'[m] = Tail(cmds[m])
      /\ lag'[m] = 0 /\ timer' = timer /\ up' = up
      /\ Len(cmds[m]) = 1 => Head(cmds[m]) = cmds[m][1]
      /\ Len(cmds[m]) = 2 => Len(Tail(cmds[m])) = 1 /\ Tail(cmds[m])[1] = cmds[m][2]
  BY <1>1, ExecutesFacts
<1>3. Sent(m)
  BY <1>1, <1>2 DEF NodeInv, RoundInv, Idle, Tried, Told, Renewing, Renewed
<1>4. Tried(m)'
  BY <1>1, <1>2, <1>3 DEF Sent, Tried
<1>5. /\ lag[m] \in Nat /\ lag[m] =< MaxLag /\ MaxLag \in Nat /\ headless \in Nat
      /\ FailoverLimit = MasterTTL + UpdateIntv + 7 * MaxLag
      /\ UpdateIntv \in Nat \ {0} /\ MasterTTL \in Nat \ {0}
  BY <1>1, FailTypes
<1>6. lock' # NoNode
  BY <1>1, ConstantsOK
<1>7. LastWord(m)'
  BY <1>4, OneStageNext DEF LastWord
<1>8. ~Winning(m)
  BY <1>3, OneStage DEF Winning
<1>9. CASE lock # NoNode
  <2>1. Expiring' \/ (lock' # m /\ lock' = lock /\ ttl' = ttl /\ Winning(lock))
    BY <1>1, <1>8, <1>9 DEF FailoverInv, Expiring, FailoverLimit
  <2> QED BY <1>1, <1>2, <1>6, <1>7, <2>1, FailFrame, RestStill DEF Server
<1>10. CASE lock = NoNode /\ up[m]
  <2>1. headless + (MaxLag - lag[m]) + 4 * MaxLag < FailoverLimit
    BY <1>3, <1>10 DEF FailoverInv, InTime, ToSet
  <2>2. MasterTTL > 4 * MaxLag
    <3>1. Budget(0) \in Nat /\ UpdateIntv + 5 * MaxLag + Budget(0) < MasterTTL
      BY BudgetFacts, ConstantsOK
    <3> QED BY <1>5, <3>1
  <2>3. Soon(m, 4)'
    BY <1>1, <1>2, <1>5, <1>10, <2>1, <2>2 DEF Soon, FailoverLimit
  <2>4. Winning(m)'
    BY <1>2, <1>4, <1>10, <2>3 DEF Winning
  <2> QED BY <1>1, <1>2, <1>6, <1>7, <1>10, <2>4, FailFrame, RestStill DEF Server
<1>11. CASE lock = NoNode /\ ~up[m]
  <2>1. headless =< lag[m]
    BY <1>3, <1>11 DEF FailoverInv, LastWord
  <2>2. Expiring'
    BY <1>1, <1>5, <1>11, <2>1 DEF Expiring, FailoverLimit
  <2> QED BY <1>1, <1>2, <1>6, <1>7, <2>2, FailFrame, RestStill DEF Server
<1> QED BY <1>9, <1>10, <1>11

LEMMA FailGet ==
    ASSUME IInv, FailoverInv, TypeOK', NEW m \in Node, ExecGet(m)
    PROVE  FailoverInv'
<1>1. /\ Executes(m, "GET") /\ headless' = headless /\ lock' = lock /\ ttl' = ttl
      /\ up[m] => replies'[m] = Append(replies[m], [cmd |-> "GET", val |-> lock])
      /\ ~up[m] => replies'[m] = replies[m]
      /\ TypeOK /\ NodeInv(m)
  BY DEF ExecGet, Answer, redisVars, IInv, Executes, TypeOK
<1>2. /\ cmds[m] # <<>> /\ Head(cmds[m]) = "GET" /\ cmds'[m] = Tail(cmds[m])
      /\ lag'[m] = 0 /\ timer' = timer /\ up' = up
      /\ Len(cmds[m]) = 1 => Head(cmds[m]) = cmds[m][1] /\ Tail(cmds[m]) = <<>>
      /\ Len(cmds[m]) = 2 => Head(cmds[m]) = cmds[m][1]
  BY <1>1, ExecutesFacts
<1>3. Tried(m)
  BY <1>1, <1>2 DEF NodeInv, RoundInv, Idle, Sent, Told, Renewing, Renewed
<1>4. cmds'[m] = <<>> /\ replies[m] = <<>>
  BY <1>2, <1>3 DEF Tried
<1>5. ASSUME up[m] PROVE Told(m)'
  <2> DEFINE r == [cmd |-> "GET", val |-> lock]
  <2>1. replies'[m] = Append(<<>>, r) /\ r.cmd = "GET"
    BY <1>1, <1>4, <1>5
  <2> HIDE DEF r
  <2>2. Len(replies'[m]) = 1 /\ replies'[m][1] = r
    BY <2>1
  <2> QED BY <1>4, <2>1, <2>2 DEF Told
<1>6. ~Sent(m)' /\ ~Renewing(m)'
  BY <1>4, EmptySeq DEF Sent, Renewing
<1>7. Winning(m) => Winning(m)'
  <2> SUFFICES ASSUME Winning(m) PROVE Soon(m, 3)'
    BY <1>2, <1>5 DEF Winning
  <2>1. Soon(m, 4)
    BY <1>3, OneStage DEF Winning
  <2>2. /\ lag[m] \in Nat /\ lag[m] =< MaxLag /\ MaxLag \in Nat /\ headless \in Nat
        /\ ttl \in Nat /\ FailoverLimit \in Nat
    BY <1>1, FailTypes
  <2> QED BY <1>1, <1>2, <2>1, <2>2 DEF Soon, FailoverLimit
<1>8. InTime(m) => InTime(m)'
  BY <1>1, <1>2, <1>3, <1>6, OneStage DEF InTime, ToSet, FailoverLimit
<1>9. LastWord(m)'
  BY <1>6 DEF LastWord
<1>10. lock' # NoNode =>
         Expiring' \/ (lock' = m /\ Winning(m)')
           \/ (lock' # m /\ lock' = lock /\ ttl' = ttl /\ Winning(lock))
  BY <1>1, <1>7 DEF FailoverInv, Expiring, FailoverLimit
<1> QED BY <1>1, <1>2, <1>8, <1>9, <1>10, FailFrame, RestStill DEF Server

\* A renewal that is executed makes its sender master in a hop, or is the last
\* word of a dead master and lets the key run a full expiry from there.
LEMMA FailIfeq ==
    ASSUME Timely, IInv, FailoverInv, TypeOK', NEW m \in Node, ExecIfeq(m)
    PROVE  FailoverInv'
<1>1. /\ Executes(m, "IFEQ") /\ headless' = headless /\ lock' = lock
      /\ lock = m => ttl' = MasterTTL
      /\ lock # m => ttl' = ttl
      /\ up[m] => replies'[m] = Append(replies[m], [cmd |-> "IFEQ", ok |-> lock = m])
      /\ ~up[m] => replies'[m] = replies[m]
      /\ TypeOK /\ NodeInv(m)
  BY DEF ExecIfeq, Answer, IInv, Executes, TypeOK
<1>2. /\ cmds[m] # <<>> /\ Head(cmds[m]) = "IFEQ" /\ cmds'[m] = Tail(cmds[m])
      /\ lag'[m] = 0 /\ timer' = timer /\ up' = up
      /\ Len(cmds[m]) = 1 => Head(cmds[m]) = cmds[m][1] /\ Tail(cmds[m]) = <<>>
      /\ Len(cmds[m]) = 2 => Head(cmds[m]) = cmds[m][1]
  BY <1>1, ExecutesFacts
<1>3. Renewing(m)
  BY <1>1, <1>2 DEF NodeInv, RoundInv, Idle, Sent, Tried, Told, Renewed
<1>4. cmds'[m] = <<>> /\ replies[m] = <<>>
  BY <1>2, <1>3 DEF Renewing
<1>5. /\ lag[m] \in Nat /\ lag[m] =< MaxLag /\ MaxLag \in Nat /\ headless \in Nat
      /\ ttl \in Nat /\ (lock # NoNode => ttl >= 1)
      /\ FailoverLimit = MasterTTL + UpdateIntv + 7 * MaxLag
      /\ UpdateIntv \in Nat \ {0} /\ MasterTTL \in Nat \ {0}
  BY <1>1, FailTypes
<1>6. ~Sent(m)' /\ ~Renewing(m)'
  BY <1>4, EmptySeq DEF Sent, Renewing
<1>7. InTime(m) => InTime(m)'
  BY <1>1, <1>2, <1>3, <1>6, OneStage DEF InTime, ToSet, FailoverLimit
<1>8. LastWord(m)'
  BY <1>6 DEF LastWord
<1>9. CASE lock # m
  <2>1. lock' # NoNode =>
          Expiring' \/ (lock' # m /\ lock' = lock /\ ttl' = ttl /\ Winning(lock))
    BY <1>1, <1>9 DEF FailoverInv, Expiring, FailoverLimit
  <2> QED BY <1>1, <1>2, <1>7, <1>8, <2>1, FailFrame, RestStill DEF Server
<1>10. CASE lock = m /\ up[m]
  <2> DEFINE r == [cmd |-> "IFEQ", ok |-> lock = m]
  <2>1. replies'[m] = Append(<<>>, r) /\ r.cmd = "IFEQ" /\ r.ok
    BY <1>1, <1>4, <1>10
  <2> HIDE DEF r
  <2>2. Len(replies'[m]) = 1 /\ replies'[m][1] = r
    BY <2>1
  <2>3. Renewed(m)' /\ replies'[m][1].ok
    BY <1>4, <2>2, <2>1 DEF Renewed
  <2>4. headless + MaxLag < FailoverLimit
    <3>1. lock # NoNode
      BY <1>10, ConstantsOK
    <3>2. CASE Expiring
      BY <1>5, <3>1, <3>2 DEF Expiring
    <3>3. CASE Winning(m)
      <4>1. Soon(m, 2)
        BY <1>3, <3>3, OneStage DEF Winning
      <4> QED BY <1>5, <4>1 DEF Soon
    <3> QED BY <1>10, <3>1, <3>2, <3>3 DEF FailoverInv
  <2>5. MasterTTL > MaxLag
    <3>1. Budget(0) \in Nat /\ UpdateIntv + 5 * MaxLag + Budget(0) < MasterTTL
      BY BudgetFacts, ConstantsOK
    <3> QED BY <1>5, <3>1
  <2>6. Soon(m, 1)'
    BY <1>1, <1>2, <1>5, <1>10, <2>4, <2>5 DEF Soon, FailoverLimit
  <2>7. Winning(m)'
    BY <1>2, <1>10, <2>3, <2>6 DEF Winning
  <2> QED BY <1>1, <1>2, <1>7, <1>8, <1>10, <2>7, FailFrame, RestStill DEF Server
<1>11. CASE lock = m /\ ~up[m]
  <2>1. headless =< lag[m]
    BY <1>3, <1>11 DEF FailoverInv, LastWord
  <2>2. Expiring'
    BY <1>1, <1>5, <1>11, <2>1 DEF Expiring, FailoverLimit
  <2> QED BY <1>1, <1>2, <1>7, <1>8, <2>2, FailFrame, RestStill DEF Server
<1> QED BY <1>9, <1>10, <1>11

LEMMA FailConnReset ==
    ASSUME FailoverInv, TypeOK, TypeOK', NEW m \in Node, ConnReset(m)
    PROVE  FailoverInv'
<1>1. /\ ~up[m] /\ cmds'[m] = <<>> /\ headless' = headless /\ lock' = lock /\ ttl' = ttl
      /\ up' = up
  BY DEF ConnReset, redisVars, nodeVars, TypeOK
<1>2. LastWord(m)'
  BY <1>1, EmptySeq DEF LastWord, Sent, Renewing
<1>3. lock' # NoNode =>
        Expiring' \/ (lock' # m /\ lock' = lock /\ ttl' = ttl /\ Winning(lock))
  BY <1>1 DEF FailoverInv, Expiring, Winning, FailoverLimit
<1>4. lock' = NoNode => \A n \in Node \ {m} : up[n] => InTime(n)
  BY <1>1 DEF FailoverInv
<1> QED BY <1>1, <1>2, <1>3, FailFrame, RestStill

\* A tick brings every wait one unit nearer to its end.  Only a key that nobody
\* is winning can run out, and Expiring has kept the time to take it again.
LEMMA FailTick ==
    ASSUME FailoverInv, TypeOK, TypeOK', Tick
    PROVE  FailoverInv'
<1>1. /\ up' = up /\ cmds' = cmds /\ replies' = replies
      /\ lock' = IF ttl > 1 THEN lock ELSE NoNode
      /\ ttl' = IF ttl > 1 THEN ttl - 1 ELSE 0
      /\ \A n \in Node : /\ up[n] => timer'[n] = timer[n] - 1
                         /\ Pending(n) => lag'[n] = lag[n] + 1 /\ lag[n] < MaxLag
  BY DEF Tick, OnTime, nodeVars
<1>2. \/ headless' = 0
      \/ headless' = headless + 1 /\ \E n \in Node : up[n]
  <2>1. headless' = IF Masters = {} /\ \E n \in Node : up[n]
                    THEN IF headless > FailoverLimit THEN headless ELSE headless + 1
                    ELSE 0
    BY DEF Tick
  <2>2. headless < FailoverLimit
    BY FailoverFacts DEF FailoverBound
  <2>3. headless \in Nat /\ FailoverLimit \in Nat
    BY ConstantsOK DEF TypeOK, FailoverLimit
  <2>4. ~(headless > FailoverLimit)
    BY <2>2, <2>3
  <2> QED BY <2>1, <2>4
<1>3. CASE headless' = 0
  BY <1>3, ResetFailover
<1>4. CASE headless' = headless + 1 /\ \E n \in Node : up[n]
  <2>1. ASSUME NEW n \in Node
        PROVE  /\ Sent(n) \/ Tried(n) \/ Told(n) \/ Renewing(n) \/ Renewed(n) =>
                    lag'[n] = lag[n] + 1 /\ lag[n] < MaxLag
               /\ (Sent(n)' <=> Sent(n)) /\ (Tried(n)' <=> Tried(n))
               /\ (Told(n)' <=> Told(n)) /\ (Renewing(n)' <=> Renewing(n))
               /\ (Renewed(n)' <=> Renewed(n))
    BY <1>1, EmptySeq DEF Pending, Sent, Tried, Told, Renewing, Renewed
  <2>2. ASSUME NEW n \in Node PROVE LastWord(n)'
    BY <1>1, <1>4, <2>1, FailTypes DEF FailoverInv, LastWord
  <2>3. ASSUME NEW n \in Node, up[n] PROVE ToSet(n)' = ToSet(n) - 1
    <3>1. CASE Sent(n)
      BY <2>1, <3>1, FailTypes DEF ToSet
    <3>2. CASE ~Sent(n)
      BY <1>1, <2>1, <2>3, <3>2, FailTypes DEF ToSet
    <3> QED BY <3>1, <3>2
  <2>4. CASE lock = NoNode
    <3>1. lock' = NoNode
      BY <1>1, <2>4
    <3>2. ASSUME NEW n \in Node, up'[n] PROVE InTime(n)'
      <4>1. up[n] /\ InTime(n)
        BY <1>1, <2>4, <3>2 DEF FailoverInv
      <4>2. ToSet(n)' = ToSet(n) - 1 /\ ToSet(n) \in Nat /\ headless \in Nat
        BY <2>3, <4>1, FailTypes
      <4>3. MaxLag \in Nat /\ FailoverLimit \in Nat
        BY ConstantsOK DEF FailoverLimit
      <4> QED BY <1>4, <4>1, <4>2, <4>3 DEF InTime, FailoverLimit
    <3> QED BY <1>1, <1>4, <2>2, <3>1, <3>2 DEF FailoverInv
  <2>5. CASE lock # NoNode /\ Winning(lock)
    <3>1. lock \in Node
      BY <2>5 DEF TypeOK
    <3>2. ASSUME NEW k \in 1 .. 4, Soon(lock, k),
                 lag'[lock] = lag[lock] + 1, lag[lock] < MaxLag
          PROVE  Soon(lock, k)' /\ lock' = lock
      <4>1. /\ lag[lock] \in Nat /\ MaxLag \in Nat /\ headless \in Nat /\ ttl \in Nat
            /\ FailoverLimit \in Nat
        BY <3>1, FailTypes
      <4>2. k * MaxLag \in Nat /\ k * MaxLag >= MaxLag
        BY <4>1
      <4>3. ttl > 1
        BY <3>2, <4>1, <4>2 DEF Soon
      <4>4. lock' = lock /\ ttl' = ttl - 1
        BY <1>1, <4>3
      <4> QED BY <1>4, <3>2, <4>1, <4>2, <4>4 DEF Soon, FailoverLimit
    <3>3. Winning(lock)' /\ lock' = lock
      <4>1. \/ Tried(lock) /\ Soon(lock, 4)' /\ lock' = lock
            \/ Told(lock) /\ Soon(lock, 3)' /\ lock' = lock
            \/ Renewing(lock) /\ Soon(lock, 2)' /\ lock' = lock
            \/ Renewed(lock) /\ replies[lock][1].ok /\ Soon(lock, 1)' /\ lock' = lock
        BY <2>1, <2>5, <3>1, <3>2 DEF Winning
      <4> QED BY <1>1, <2>1, <2>5, <3>1, <4>1
              DEF Winning, Tried, Told, Renewing, Renewed
    <3> QED BY <1>1, <1>4, <2>2, <2>5, <3>3 DEF FailoverInv
  <2>6. CASE lock # NoNode /\ Expiring
    <3>1. /\ headless \in Nat /\ ttl \in Nat \ {0} /\ MaxLag \in Nat /\ UpdateIntv \in Nat \ {0}
          /\ FailoverLimit \in Nat
      BY <2>6, ConstantsOK DEF TypeOK, FailoverLimit
    <3>2. CASE ttl > 1
      <4>1. Expiring'
        BY <1>1, <1>4, <2>6, <3>1, <3>2 DEF Expiring, FailoverLimit
      <4> QED BY <1>1, <1>4, <2>2, <2>6, <3>2, <4>1 DEF FailoverInv
    <3>3. CASE ~(ttl > 1)
      <4>1. lock' = NoNode /\ ttl = 1
        BY <1>1, <3>1, <3>3
      <4>2. headless + UpdateIntv + 6 * MaxLag < FailoverLimit
        BY <2>6, <3>1, <4>1 DEF Expiring
      <4>3. ASSUME NEW n \in Node, up'[n] PROVE InTime(n)'
        <5>1. up[n]
          BY <1>1, <4>3
        <5>2. /\ ToSet(n)' = ToSet(n) - 1 /\ ToSet(n) \in Nat
              /\ ToSet(n) =< UpdateIntv + 2 * MaxLag
          BY <2>3, <5>1, FailTypes
        <5> QED BY <1>4, <3>1, <4>2, <5>2 DEF InTime, FailoverLimit
      <4> QED BY <1>1, <1>4, <2>2, <4>1, <4>3 DEF FailoverInv
    <3> QED BY <3>2, <3>3
  <2> QED BY <2>4, <2>5, <2>6 DEF FailoverInv
<1> QED BY <1>2, <1>3, <1>4

LEMMA FailoverStep == Timely /\ IInv /\ FailoverInv /\ [Next]_vars => FailoverInv'
<1> SUFFICES ASSUME Timely, IInv, FailoverInv, [Next]_vars PROVE FailoverInv'
  OBVIOUS
<1>1. TypeOK /\ TypeOK'
  BY TypeStep DEF IInv
<1>2. CASE Tick
  BY <1>1, <1>2, FailTick
<1>3. ASSUME NEW m \in Node, Loop(m) PROVE FailoverInv'
  BY <1>1, <1>3, FailTimeout, FailSetMaster, FailKeepMaster DEF Loop
<1>4. ASSUME NEW m \in Node, Server(m) PROVE FailoverInv'
  BY <1>1, <1>4, FailSetNx, FailGet, FailIfeq DEF Server
<1>5. ASSUME NEW m \in Node, Fault(m) PROVE FailoverInv'
  <2>1. Disconnect(m) \/ Crash(m) \/ Restart(m) => headless' = 0
    BY Zenon DEF Disconnect, Crash, Restart
  <2> QED BY <1>1, <1>5, <2>1, ResetFailover, FailConnReset DEF Fault
<1>6. CASE UNCHANGED vars
  BY <1>6 DEF vars, FailoverInv, LastWord, InTime, ToSet, Expiring, Winning, Soon, Sent, Tried,
         Told, Renewing, Renewed, FailoverLimit
<1> QED BY <1>2, <1>3, <1>4, <1>5, <1>6 DEF Next

\* From the last crash, restart or lost connection, or the last moment with a
\* master, the cluster has a master within one expiry, one timer period and
\* seven hops, and the bound is the same however many nodes there are: the
\* leftover command of the dead master, the expiry of CASTER:MASTER, the next
\* TimeoutCallback of a live node and its round, up to Redis_KeepMaster_Callback.
THEOREM FailoverBoundAlways == ASSUME Timely PROVE Spec => []FailoverBound
<1>1. Init => FailoverInv
  BY TypeInit, FreshFailover DEF Init
<1>2. IInv /\ FailoverInv /\ [Next]_vars => FailoverInv'
  BY FailoverStep
<1>3. IInv /\ FailoverInv => FailoverBound
  BY FailoverFacts DEF IInv
<1> QED BY <1>1, <1>2, <1>3, IInvAlways, PTL DEF Spec

-----------------------------------------------------------------------------
\* The refinement mapping of ClusterMasterSpec.
Role == IF Masters = {} THEN NoNode ELSE CHOOSE n \in Masters : TRUE

\* A step changes at most one node's membership of Masters.
LEMMA OneMoves ==
    ASSUME TypeOK, [Next]_vars
    PROVE  \/ Masters' = Masters
           \/ \E m \in Node : \A n \in Node \ {m} : n \in Masters' <=> n \in Masters
<1>1. CASE Tick \/ UNCHANGED vars
  BY <1>1 DEF Tick, nodeVars, vars, Masters
<1>2. ASSUME NEW m \in Node, NEW n \in Node \ {m}, Loop(m) \/ Server(m) \/ Fault(m)
      PROVE  up'[n] = up[n] /\ is_master'[n] = is_master[n]
  <2>1. CASE Loop(m)
    BY <2>1 DEF Loop, TimeoutCallback, Redis_SetMaster_Callback, Redis_KeepMaster_Callback,
           nodeVars, TypeOK
  <2>2. CASE Server(m)
    BY <2>2 DEF Server, ExecSetNx, ExecGet, ExecIfeq, Executes, nodeVars
  <2>3. CASE Disconnect(m)
    <3>1. is_master' \in {is_master, [is_master EXCEPT ![m] = FALSE]}
      BY <2>3, Zenon DEF Disconnect
    <3>2. up' = up
      BY <2>3 DEF Disconnect
    <3> QED BY <3>1, <3>2 DEF TypeOK
  <2>4. CASE Crash(m) \/ ConnReset(m) \/ Restart(m)
    BY <2>4 DEF Crash, ConnReset, Restart, nodeVars, TypeOK
  <2> QED BY <1>2, <2>1, <2>2, <2>3, <2>4 DEF Fault
<1>3. ASSUME NEW m \in Node, Loop(m) \/ Server(m) \/ Fault(m)
      PROVE  \A n \in Node \ {m} : n \in Masters' <=> n \in Masters
  BY <1>2, <1>3 DEF Masters
<1> QED BY <1>1, <1>3 DEF Next

LEMMA RoleInit == Init => Role = NoNode
  BY DEF Init, Masters, Role

LEMMA RoleStep ==
    ASSUME TypeOK, SingleMaster, SingleMaster', [Next]_vars
    PROVE  \/ Role' = Role
           \/ Role # NoNode /\ Role' = NoNode
           \/ \E n \in Node : Role = NoNode /\ Role' = n
<1>1. /\ Masters = {} => Role = NoNode
      /\ Masters # {} => Role \in Masters
      /\ Masters' = {} => Role' = NoNode
      /\ Masters' # {} => Role' \in Masters'
  BY DEF Role
<1>2. Masters \subseteq Node /\ Masters' \subseteq Node /\ NoNode \notin Node
  BY ConstantsOK DEF Masters
<1>3. /\ \A n \in Masters : Masters = {n}
      /\ \A n \in Masters' : Masters' = {n}
  BY DEF SingleMaster
<1>4. CASE Masters' = Masters
  BY <1>1, <1>2, <1>3, <1>4
<1>5. ASSUME NEW m \in Node, \A n \in Node \ {m} : n \in Masters' <=> n \in Masters
      PROVE  Masters # {} /\ Masters' # {} => Masters' = Masters
  <2> SUFFICES ASSUME NEW a \in Masters, NEW b \in Masters', a # b PROVE FALSE
    BY <1>3
  <2>1. a \in Node /\ b \in Node /\ Masters = {a} /\ Masters' = {b}
    BY <1>2, <1>3
  <2> QED BY <1>5, <2>1
<1> QED BY <1>1, <1>2, <1>4, <1>5, OneMoves

\* The election implements ClusterMaster: between any two masters the role is
\* vacant, and it never passes from node to node in one step.
THEOREM ImplementsClusterMaster == ASSUME Timely PROVE Spec => ClusterMasterSpec
<1>1. Init => CM!Init
  BY RoleInit DEF Role, CM!Init
<1>2. TypeOK /\ SingleMaster /\ SingleMaster' /\ [Next]_vars => [CM!Next]_Role
  BY RoleStep DEF CM!Next, CM!Lose, CM!Acquire, Role
<1>3. Spec => []TypeOK /\ []SingleMaster
  BY TypeCorrect, SingleMasterAlways
<1> QED BY <1>1, <1>2, <1>3, PTL DEF Spec, ClusterMasterSpec, CM!Spec, Role
=============================================================================
