------------------------- MODULE RelayDispatchProofs -------------------------
(***************************************************************************)
(* One master at a time acts, and what that means for the sessions.        *)
(***************************************************************************)
EXTENDS RelayDispatch, TLAPS, FiniteSetTheorems

Running(n) == {u \in Uid : session[n][u] # Absent}

-----------------------------------------------------------------------------
(* Whoever acts as the master holds the key, alive or dead.                *)

Confirmed(n) == \E i \in DOMAIN answers[n] :
    \/ answers[n][i].cmd \in {"RECORD", "NODE"}
    \/ answers[n][i].cmd = "RENEW" /\ answers[n][i].ok
Acts(n) ==
    \/ Running(n) # {} \/ channel[n] # <<>> \/ Confirmed(n)
    \/ Has(pipe[n], {"RECORD", "NODE", "PUBLISH", "HDEL"})
Dead(n) == answers[n] = <<>> /\ channel[n] = <<>> /\ Running(n) = {}

LockInv == \A n \in Node : (Acts(n) => lock = n) /\ (up[n] \/ Dead(n))

-----------------------------------------------------------------------------
(* Rounds.                                                                 *)

\* The answer that carries on a round is its last, and orders come after it.
RoundOf(n) ==
    /\ \A i \in DOMAIN pipe[n] : pipe[n][i].cmd \in {"RENEW", "NODE"} => i = Len(pipe[n])
    /\ \A i \in DOMAIN answers[n] :
         answers[n][i].cmd \in {"RENEW", "NODE"} => i = Len(answers[n]) /\ pipe[n] = <<>>
    /\ InRound(n) => channel[n] = <<>> /\ ~Has(pipe[n], {"PUBLISH", "HDEL"})
\* Commands of several rounds are mixed up: any task may be missed.
Mixed(n) == Overlap /\ cut[n] = Uid
RoundInv == \A n \in Node : RoundOf(n) \/ Mixed(n)

\* A session has its status in the map, and in every round also in Redis or in the
\* command about to be executed.
Kept(n, u) ==
    /\ u \in local[n]
    /\ \A i \in DOMAIN answers[n] : answers[n][i].cmd = "STAT" => u \in answers[n][i].val
    /\ InRound(n) => u \in stat \/ Uploading(n, u)
KeptInv == \A n \in Node : \A u \in Running(n) \ cut[n] : Kept(n, u)

\* A cluster of one node.
Alone == ~Overlap /\ \A m, n \in Node : m = n

\* What is uploaded comes before what is asked for, and not while orders are carried out.
AsksLast(q) == \A i, j \in DOMAIN q :
    q[i].cmd = "STAT" /\ i < j => q[j].cmd \notin {"STAT", "HSETEX"}
AskedOnce(n) ==
    /\ AsksLast(pipe[n])
    /\ Has(answers[n], {"STAT"}) => ~Has(pipe[n], {"STAT", "HSETEX"})
    /\ Has(pipe[n], {"HSETEX"}) => channel[n] = <<>> /\ ~Has(pipe[n], {"PUBLISH", "HDEL"})
\* Redis knows no status that the node does not, or is about to be told.
Deletes(q) == {u \in Uid : \E i \in DOMAIN q : q[i].cmd = "HDEL" /\ q[i].uid = u}
Uploads(q) == {u \in Uid : \E i \in DOMAIN q : q[i].cmd = "HSETEX" /\ u \in q[i].uids}
StatKnown(n) ==
    /\ \A i \in DOMAIN answers[n] : answers[n][i].cmd = "STAT" => stat \subseteq answers[n][i].val
    /\ ~Has(pipe[n], {"STAT"}) /\ ~Has(answers[n], {"STAT"}) =>
         stat \subseteq local[n] \cup Deletes(pipe[n]) /\ Uploads(pipe[n]) \subseteq local[n]
\* Orders under way are the ones remembered.
OrdersKnown(n) ==
    /\ \A i \in DOMAIN channel[n] :
         channel[n][i].op = "ACTIVE" => channel[n][i].cfg = dist[n][channel[n][i].uid]
    /\ \A i \in DOMAIN pipe[n] : pipe[n][i].cmd = "PUBLISH" /\ pipe[n][i].msg.op = "ACTIVE"
         => pipe[n][i].msg.cfg = dist[n][pipe[n][i].msg.uid]
\* A session that is not what is remembered has no status at all.
Differs(n) == {u \in Running(n) : dist[n][u] \notin {Absent, session[n][u]}}
NoStatus(n, u) ==
    /\ u \notin local[n] /\ u \notin stat /\ u \notin Uploads(pipe[n])
    /\ \A i \in DOMAIN answers[n] : answers[n][i].cmd = "STAT" => u \notin answers[n][i].val

Only(n) == AskedOnce(n) /\ StatKnown(n) /\ OrdersKnown(n) /\ \A u \in Differs(n) : NoStatus(n, u)
OnlyInv == \A n \in Node : up[n] => Only(n)

-----------------------------------------------------------------------------
(* Sequences.                                                              *)

\* What is left of a sequence without its head.
LEMMA Tails ==
    ASSUME NEW T, NEW q \in Seq(T), q # <<>>
    PROVE  /\ Tail(q) \in Seq(T) /\ Head(q) \in T /\ Head(q) = q[1] /\ 1 \in DOMAIN q
           /\ Len(q) \in Nat \ {0} /\ Len(Tail(q)) = Len(q) - 1
           /\ \A i \in DOMAIN Tail(q) : i \in Nat /\ i + 1 \in DOMAIN q /\ Tail(q)[i] = q[i + 1]
           /\ \A C : Has(Tail(q), C) => Has(q, C)
           /\ \A C : Has(q, C) => Head(q).cmd \in C \/ Has(Tail(q), C)
<1>1. /\ Tail(q) \in Seq(T) /\ Head(q) \in T /\ Head(q) = q[1] /\ 1 \in DOMAIN q
      /\ Len(q) \in Nat \ {0} /\ Len(Tail(q)) = Len(q) - 1
  OBVIOUS
<1>2. \A i \in DOMAIN Tail(q) : i \in Nat /\ i + 1 \in DOMAIN q /\ Tail(q)[i] = q[i + 1]
  OBVIOUS
<1>3. \A i \in DOMAIN q : i # 1 => i - 1 \in DOMAIN Tail(q) /\ q[i] = Tail(q)[i - 1]
  OBVIOUS
<1>4. ASSUME NEW C, Has(Tail(q), C) PROVE Has(q, C)
  BY <1>2, <1>4 DEF Has
<1>5. ASSUME NEW C, Has(q, C) PROVE Head(q).cmd \in C \/ Has(Tail(q), C)
  BY <1>1, <1>3, <1>5 DEF Has
<1> QED
  BY <1>1, <1>2, <1>4, <1>5

\* A sequence with another one added.
LEMMA Concats ==
    ASSUME NEW T, NEW q \in Seq(T), NEW s \in Seq(T)
    PROVE  /\ q \o s \in Seq(T) /\ Len(q \o s) = Len(q) + Len(s)
           /\ q = <<>> => q \o s = s
           /\ \A i \in DOMAIN (q \o s) :
                \/ i \in DOMAIN q /\ (q \o s)[i] = q[i]
                \/ i - Len(q) \in DOMAIN s /\ (q \o s)[i] = s[i - Len(q)]
           /\ \A C : Has(q \o s, C) <=> Has(q, C) \/ Has(s, C)
<1>1. /\ q \o s \in Seq(T) /\ Len(q \o s) = Len(q) + Len(s) /\ (q = <<>> => q \o s = s)
      /\ Len(q) \in Nat /\ Len(s) \in Nat /\ DOMAIN q = 1 .. Len(q) /\ DOMAIN s = 1 .. Len(s)
      /\ DOMAIN (q \o s) = 1 .. Len(q) + Len(s)
  OBVIOUS
<1>2. \A i \in DOMAIN q : i \in DOMAIN (q \o s) /\ (q \o s)[i] = q[i]
  OBVIOUS
<1>3. \A i \in DOMAIN s : i + Len(q) \in DOMAIN (q \o s) /\ (q \o s)[i + Len(q)] = s[i]
  OBVIOUS
<1>4. ASSUME NEW i \in DOMAIN (q \o s)
      PROVE  \/ i \in DOMAIN q /\ (q \o s)[i] = q[i]
             \/ i - Len(q) \in DOMAIN s /\ (q \o s)[i] = s[i - Len(q)]
  <2>1. CASE i \in DOMAIN q
    BY <1>2, <2>1
  <2>2. CASE i \notin DOMAIN q
    <3>1. PICK a, b \in Nat : a = Len(q) /\ b = Len(s)
      BY <1>1
    <3>2. i \in 1 .. a + b /\ i \notin 1 .. a
      BY <1>1, <2>2, <3>1
    <3>3. i - a \in 1 .. b /\ (i - a) + a = i
      BY <3>2
    <3> QED
      BY <1>1, <1>3, <3>1, <3>3
  <2> QED
    BY <2>1, <2>2
<1>5. ASSUME NEW C PROVE Has(q \o s, C) <=> Has(q, C) \/ Has(s, C)
  BY <1>2, <1>3, <1>4 DEF Has
<1> QED
  BY <1>1, <1>4, <1>5

LEMMA Appends ==
    ASSUME NEW T, NEW q \in Seq(T), NEW x \in T
    PROVE  /\ Append(q, x) \in Seq(T) /\ Len(Append(q, x)) = Len(q) + 1
           /\ \A i \in DOMAIN Append(q, x) :
                \/ i \in DOMAIN q /\ i # Len(q) + 1 /\ Append(q, x)[i] = q[i]
                \/ i = Len(q) + 1 /\ Append(q, x)[i] = x
           /\ \A C : Has(Append(q, x), C) <=> Has(q, C) \/ x.cmd \in C
<1>1. Append(q, x) \in Seq(T) /\ Len(Append(q, x)) = Len(q) + 1
  OBVIOUS
<1>2. \A i \in DOMAIN Append(q, x) :
         \/ i \in DOMAIN q /\ i # Len(q) + 1 /\ Append(q, x)[i] = q[i]
         \/ i = Len(q) + 1 /\ Append(q, x)[i] = x
  OBVIOUS
<1>3. \A i \in DOMAIN q : i \in DOMAIN Append(q, x) /\ Append(q, x)[i] = q[i]
  OBVIOUS
<1>4. Len(q) + 1 \in DOMAIN Append(q, x) /\ Append(q, x)[Len(q) + 1] = x
  OBVIOUS
<1>5. ASSUME NEW C PROVE Has(Append(q, x), C) <=> Has(q, C) \/ x.cmd \in C
  BY <1>2, <1>3, <1>4 DEF Has
<1> QED
  BY <1>1, <1>2, <1>5

-----------------------------------------------------------------------------
(* Types.                                                                  *)

Publication == [cmd : {"PUBLISH"}, msg : Message]

\* The orders of a round are published in some order, one for each task at most.
LEMMA OrderSeq ==
    ASSUME ConstantsOK, TypeOK, NEW n \in Node
    PROVE  LET K == {[cmd |-> "PUBLISH", msg |-> m] : m \in Orders(n)} IN
           SetToSeq(K) \in Seq(Publication) /\ SetToSeq(K) \in [1 .. Cardinality(K) -> K]
<1> DEFINE K == {[cmd |-> "PUBLISH", msg |-> m] : m \in Orders(n)}
           f == [x \in K |-> x.msg.uid]
<1>1. ASSUME NEW m \in Orders(n)
      PROVE  /\ m \in Message
             /\ \/ m = [op |-> "ACTIVE", uid |-> m.uid, cfg |-> records[n][m.uid].cfg] /\ m.uid \in Starts(n)
                \/ /\ m = [op |-> "INACTIVE", uid |-> m.uid, cfg |-> Absent]
                   /\ m.uid \in Restarts(n) \cup Stops(n)
  <2>1. \A u \in Starts(n) : u \in Uid /\ records[n][u].cfg \in Cfg
    BY DEF Starts, Enabled, TypeOK, Record
  <2>2. Restarts(n) \cup Stops(n) \subseteq Uid
    BY DEF Restarts, Stops, TypeOK
  <2> QED
    BY <2>1, <2>2 DEF Orders, Message
<1>2. Starts(n) \cap (Restarts(n) \cup Stops(n)) = {}
  BY DEF Starts, Restarts, Stops
<1>3. \A m, o \in Orders(n) : m.uid = o.uid => m = o
  BY <1>1, <1>2
<1>4. K \subseteq Publication
  BY <1>1 DEF Publication
<1>5. f \in [K -> Uid]
  BY <1>1 DEF Message
<1>6. f \in Injection(K, Uid)
  <2>1. ASSUME NEW x \in K, NEW y \in K, f[x] = f[y] PROVE x = y
    BY <1>3, <2>1
  <2> QED
    BY <1>5, <2>1 DEF Injection, IsInjective
<1> HIDE DEF K, f
<1>7. IsFiniteSet(K)
  BY <1>6, FS_Injection DEF ConstantsOK
<1>8. Cardinality(K) \in Nat /\ ExistsBijection(1 .. Cardinality(K), K)
  BY <1>7, FS_CardinalityType
<1>9. \E g \in [1 .. Cardinality(K) -> K] : IsInjective(g)
  BY <1>8 DEF ExistsBijection, Bijection, Injection
<1>10. SetToSeq(K) \in [1 .. Cardinality(K) -> K]
  BY <1>9 DEF SetToSeq
<1>11. SetToSeq(K) \in Seq(Publication)
  BY <1>4, <1>8, <1>10
<1> QED
  BY <1>10, <1>11 DEF K

\* What is sent, executed, answered and handled has its type.
LEMMA SendType ==
    ASSUME TypeOK, NEW n \in Node, NEW cs \in Seq(Command), Send(n, cs)
    PROVE  /\ pipe' \in [Node -> Seq(Command)] /\ pipe'[n] = pipe[n] \o cs
           /\ \A m \in Node : m # n => pipe'[m] = pipe[m]
BY DEF Send, TypeOK

LEMMA AnswersType ==
    ASSUME TypeOK, NEW n \in Node, NEW a \in Answer, Answers(n, a)
    PROVE  /\ answers' \in [Node -> Seq(Answer)]
           /\ answers'[n] = IF up[n] THEN Append(answers[n], a) ELSE answers[n]
           /\ \A m \in Node : m # n => answers'[m] = answers[m]
<1>1. Append(answers[n], a) \in Seq(Answer)
  BY DEF TypeOK
<1> QED
  BY <1>1 DEF Answers, TypeOK

LEMMA HandlesType ==
    ASSUME TypeOK, NEW n \in Node, NEW x, Handles(n, x)
    PROVE  /\ answers' \in [Node -> Seq(Answer)] /\ answers[n] \in Seq(Answer) /\ answers[n] # <<>>
           /\ answers'[n] = Tail(answers[n]) /\ Head(answers[n]) \in Answer /\ Head(answers[n]).cmd = x
           /\ \A m \in Node : m # n => answers'[m] = answers[m]
           /\ up[n] /\ UNCHANGED <<redisVars, cleanup, up, session, channel, cut, edits, faultVars>>
<1>1. answers[n] \in Seq(Answer) /\ answers[n] # <<>>
  BY DEF Handles, TypeOK
<1>2. Tail(answers[n]) \in Seq(Answer) /\ Head(answers[n]) \in Answer
  BY <1>1
<1> QED
  BY <1>1, <1>2 DEF Handles, TypeOK

LEMMA ExecutesType ==
    ASSUME TypeOK, NEW n \in Node, NEW x, Executes(n, x)
    PROVE  /\ pipe' \in [Node -> Seq(Command)] /\ pipe[n] \in Seq(Command) /\ pipe[n] # <<>>
           /\ pipe'[n] = Tail(pipe[n]) /\ Head(pipe[n]) \in Command /\ Head(pipe[n]).cmd = x
           /\ \A m \in Node : m # n => pipe'[m] = pipe[m]
           /\ UNCHANGED <<record, cleanup, nodeVars, cut, edits, faultVars>>
<1>1. pipe[n] \in Seq(Command) /\ pipe[n] # <<>>
  BY DEF Executes, TypeOK
<1>2. Tail(pipe[n]) \in Seq(Command) /\ Head(pipe[n]) \in Command
  BY <1>1
<1> QED
  BY <1>1, <1>2 DEF Executes, TypeOK

\* What a timer sends.
Asked(n, cs) ==
    /\ cs \in Seq(Command) /\ DOMAIN cs = {1, 2, 3} /\ Len(cs) = 3
    /\ cs[1].cmd = "HSETEX" /\ cs[1].uids = local[n] /\ cs[2].cmd = "STAT" /\ cs[3].cmd = "RENEW"
LEMMA AskedSeq ==
    ASSUME TypeOK, NEW n \in Node
    PROVE  Asked(n, <<Upload(n), [cmd |-> "STAT"], [cmd |-> "RENEW"]>>)
<1>1. Upload(n) \in Command /\ [cmd |-> "STAT"] \in Command /\ [cmd |-> "RENEW"] \in Command
  BY DEF Upload, Command, TypeOK
<1>2. Upload(n).cmd = "HSETEX" /\ Upload(n).uids = local[n]
  BY DEF Upload
<1>3. PICK u : u = Upload(n)
  OBVIOUS
<1>4. <<u, [cmd |-> "STAT"], [cmd |-> "RENEW"]>> \in Seq(Command)
  BY <1>1, <1>3
<1> QED
  BY <1>2, <1>3, <1>4 DEF Asked

\* What may be missed are tasks.
LEMMA MissedType ==
    ASSUME TypeOK, NEW us \in SUBSET Uid, Missed(us)
    PROVE  cut' \in [Node -> SUBSET Uid]
<1>1. \A n \in Node :
        cut[n] \cup {v \in us : session[n][v] # Absent /\ InRound(n) /\ ~Uploading(n, v)} \in SUBSET Uid
  BY DEF TypeOK
<1> QED
  BY <1>1 DEF Missed

LEMMA CutType ==
    ASSUME TypeOK, NEW n \in Node, NEW u, Overtaken(n) \/ Handled(n, u) \/ cut' = cut
    PROVE  cut' \in [Node -> SUBSET Uid]
<1>1. cut[n] \ {u} \in SUBSET Uid /\ cut \in [Node -> SUBSET Uid]
  BY DEF TypeOK
<1> QED
  BY <1>1 DEF Overtaken, Handled

LEMMA TypeStep == ASSUME ConstantsOK, TypeOK, [Next]_vars PROVE TypeOK'
<1> USE DEF redisVars, nodeVars, wireVars, faultVars
<1>1. ASSUME NEW op, NEW u \in Uid, NEW r \in Record \cup {Absent}, Edit(op, u, r) PROVE TypeOK'
  BY <1>1 DEF Edit, TypeOK, ConstantsOK
<1>2. ASSUME Admin PROVE TypeOK'
  <2>1. ASSUME NEW u \in Uid, NEW c \in Cfg, CreatePull(u, c) PROVE TypeOK'
    BY <1>1, <2>1 DEF CreatePull, Record
  <2>2. ASSUME NEW u \in Uid, NEW r \in Record, UpdatePull(u, r) PROVE TypeOK'
    BY <1>1, <2>2 DEF UpdatePull
  <2>3. ASSUME NEW u \in Uid, DeletePull(u) PROVE TypeOK'
    BY <1>1, <2>3 DEF DeletePull
  <2>4. ASSUME NEW u \in Uid, RelayStart(u) PROVE TypeOK'
    <3>1. [record[u] EXCEPT !.enabled = TRUE] \in Record
      <4>1. record[u] \in Record
        BY <2>4 DEF RelayStart, TypeOK
      <4>2. \A r \in Record : [r EXCEPT !.enabled = TRUE] \in Record
        BY DEF Record
      <4> QED
        BY <4>1, <4>2
    <3> QED
      BY <1>1, <2>4, <3>1 DEF RelayStart
  <2>5. ASSUME NEW u \in Uid, RelayStop(u) PROVE TypeOK'
    <3>1. [record[u] EXCEPT !.enabled = FALSE] \in Record
      <4>1. record[u] \in Record
        BY <2>5 DEF RelayStop, Enabled, TypeOK
      <4>2. \A r \in Record : [r EXCEPT !.enabled = FALSE] \in Record
        BY DEF Record
      <4> QED
        BY <4>1, <4>2
    <3> QED
      BY <1>1, <2>5, <3>1 DEF RelayStop
  <2>6. ASSUME CleanupStat PROVE TypeOK'
    <3>1. cleanup \cap stat \in SUBSET Uid /\ Missed(cleanup \cap stat)
      BY <2>6 DEF CleanupStat, TypeOK
    <3>2. cut' \in [Node -> SUBSET Uid]
      BY <3>1, MissedType
    <3> QED
      BY <2>6, <3>2 DEF CleanupStat, TypeOK
  <2> QED
    BY <1>2, <2>1, <2>2, <2>3, <2>4, <2>5, <2>6 DEF Admin
<1>3. ASSUME NEW n \in Node, TimeoutCallback(n) PROVE TypeOK'
  <2>1. <<Upload(n), [cmd |-> "STAT"], [cmd |-> "RENEW"]>> \in Seq(Command)
    BY DEF Upload, Command, TypeOK
  <2>2. pipe' \in [Node -> Seq(Command)]
    BY <1>3, <2>1, SendType DEF TimeoutCallback
  <2>3. cut' \in [Node -> SUBSET Uid]
    BY <1>3, CutType DEF TimeoutCallback
  <2> QED
    BY <1>3, <2>2, <2>3 DEF TimeoutCallback, TypeOK
<1>4. ASSUME NEW n \in Node, NEW u \in Uid, ReportState(n, u) PROVE TypeOK'
  <2>1. <<[cmd |-> "HSETEX", uids |-> {u}]>> \in Seq(Command)
    BY DEF Command
  <2>2. pipe' \in [Node -> Seq(Command)]
    BY <1>4, <2>1, SendType DEF ReportState
  <2>3. cut' \in [Node -> SUBSET Uid]
    BY <1>4, CutType DEF ReportState
  <2> QED
    BY <1>4, <2>2, <2>3 DEF ReportState, TypeOK
<1>5. ASSUME NEW n \in Node, Redis_KeepMaster_Callback(n) PROVE TypeOK'
  <2>1. <<[cmd |-> "RECORD"], [cmd |-> "STAT"], [cmd |-> "NODE"]>> \in Seq(Command)
    BY DEF Command
  <2>2. pipe' \in [Node -> Seq(Command)]
    BY <1>5, <2>1, SendType DEF Redis_KeepMaster_Callback, TypeOK
  <2> QED
    BY <1>5, <2>2, HandlesType DEF Redis_KeepMaster_Callback, TypeOK
<1>6. ASSUME NEW n \in Node, Redis_SyncPullList_Callback(n) PROVE TypeOK'
  <2>1. Head(answers[n]).val \in [Uid -> Record \cup {Absent}]
    BY <1>6, HandlesType DEF Redis_SyncPullList_Callback, Answer
  <2> QED
    BY <1>6, <2>1, HandlesType DEF Redis_SyncPullList_Callback, TypeOK
<1>7. ASSUME NEW n \in Node, Redis_SyncPullStat_Callback(n) PROVE TypeOK'
  <2>1. Head(answers[n]).val \in SUBSET Uid
    BY <1>7, HandlesType DEF Redis_SyncPullStat_Callback, Answer
  <2> QED
    BY <1>7, <2>1, HandlesType DEF Redis_SyncPullStat_Callback, TypeOK
<1>8. ASSUME NEW n \in Node, Redis_SyncClusterNode_Callback(n) PROVE TypeOK'
  <2>1. SetToSeq({[cmd |-> "PUBLISH", msg |-> m] : m \in Orders(n)}) \in Seq(Command)
    <3>1. Publication \subseteq Command
      BY DEF Publication, Command
    <3> QED
      BY <3>1, OrderSeq
  <2>2. pipe' \in [Node -> Seq(Command)]
    BY <1>8, <2>1, SendType DEF Redis_SyncClusterNode_Callback
  <2>3. Remember(n) \in [Uid -> Cfg \cup {Absent}]
    BY DEF Remember, Starts, Enabled, Record, TypeOK
  <2> QED
    BY <1>8, <2>2, <2>3, HandlesType DEF Redis_SyncClusterNode_Callback, TypeOK
<1>9. ASSUME NEW n \in Node, Redis_NodeChannel_Callback(n) PROVE TypeOK'
  <2> DEFINE m == Head(channel[n])
  <2>1. channel[n] \in Seq(Message) /\ channel[n] # <<>>
    BY <1>9 DEF Redis_NodeChannel_Callback, TypeOK
  <2>2. Tail(channel[n]) \in Seq(Message) /\ m \in Message
    BY <2>1
  <2>3. channel' \in [Node -> Seq(Message)]
    BY <1>9, <2>2 DEF Redis_NodeChannel_Callback, TypeOK
  <2>4. m.uid \in Uid /\ m.cfg \in Cfg \cup {Absent}
    BY <2>2 DEF Message
  <2>5. <<[cmd |-> "HDEL", uid |-> m.uid]>> \in Seq(Command)
    BY <2>4 DEF Command
  <2>6. pipe' \in [Node -> Seq(Command)]
    BY <1>9, <2>5, SendType DEF Redis_NodeChannel_Callback, TypeOK
  <2>7. local' \in [Node -> SUBSET Uid] /\ session' \in [Node -> [Uid -> Cfg \cup {Absent}]]
    <3> HIDE DEF m
    <3>1. \/ /\ local' = [local EXCEPT ![n] = @ \cup {m.uid}]
             /\ session' = [session EXCEPT ![n] = [session[n] EXCEPT ![m.uid] = m.cfg]]
          \/ /\ local' = [local EXCEPT ![n] = @ \ {m.uid}]
             /\ session' = [session EXCEPT ![n] = [session[n] EXCEPT ![m.uid] = Absent]]
          \/ UNCHANGED <<local, session>>
      BY <1>9 DEF Redis_NodeChannel_Callback, m
    <3>2. /\ local[n] \cup {m.uid} \in SUBSET Uid /\ local[n] \ {m.uid} \in SUBSET Uid
          /\ local \in [Node -> SUBSET Uid] /\ session \in [Node -> [Uid -> Cfg \cup {Absent}]]
      BY <2>4 DEF TypeOK
    <3>3. /\ [session[n] EXCEPT ![m.uid] = m.cfg] \in [Uid -> Cfg \cup {Absent}]
          /\ [session[n] EXCEPT ![m.uid] = Absent] \in [Uid -> Cfg \cup {Absent}]
      BY <2>4, <3>2
    <3>4. local' \in [Node -> SUBSET Uid]
      BY <3>1, <3>2
    <3>5. session' \in [Node -> [Uid -> Cfg \cup {Absent}]]
      BY <3>1, <3>2, <3>3
    <3> QED
      BY <3>4, <3>5
  <2>8. cut' \in [Node -> SUBSET Uid]
    BY <1>9, CutType DEF Redis_NodeChannel_Callback
  <2> QED
    BY <1>9, <2>3, <2>6, <2>7, <2>8 DEF Redis_NodeChannel_Callback, TypeOK
<1>10. ASSUME NEW n \in Node, Server(n) PROVE TypeOK'
  <2>1. ASSUME ExecHset(n) PROVE TypeOK'
    <3>0. PICK x : x = Head(pipe[n]) /\ x \in Command /\ x.cmd = "HSETEX"
      BY <2>1, ExecutesType DEF ExecHset
    <3>1. Head(pipe[n]).uids \in SUBSET Uid
      BY <3>0 DEF Command
    <3> QED
      BY <2>1, <3>1, ExecutesType DEF ExecHset, TypeOK
  <2>2. ASSUME ExecHdel(n) PROVE TypeOK'
    BY <2>2, ExecutesType DEF ExecHdel, TypeOK
  <2>3. ASSUME ExecRead(n) PROVE TypeOK'
    <3>1. PICK x \in {"STAT", "RECORD", "NODE"}, a \in Answer : Executes(n, x) /\ Answers(n, a)
      <4>1. /\ [cmd |-> "STAT", val |-> stat] \in Answer /\ [cmd |-> "RECORD", val |-> record] \in Answer
            /\ [cmd |-> "NODE"] \in Answer
        BY DEF Answer, TypeOK
      <4> QED
        BY <2>3, <4>1 DEF ExecRead
    <3>2. /\ pipe' \in [Node -> Seq(Command)]
          /\ UNCHANGED <<record, cleanup, nodeVars, cut, edits, faultVars>>
      BY <3>1, ExecutesType
    <3>3. answers' \in [Node -> Seq(Answer)]
      BY <3>1, AnswersType
    <3>4. UNCHANGED <<stat, lock, channel>>
      BY <2>3 DEF ExecRead
    <3> QED
      BY <3>2, <3>3, <3>4 DEF TypeOK
  <2>4. ASSUME ExecRenew(n) PROVE TypeOK'
    <3>1. [cmd |-> "RENEW", ok |-> lock' = n] \in Answer
      BY DEF Answer
    <3>2. answers' \in [Node -> Seq(Answer)]
      BY <2>4, <3>1, AnswersType DEF ExecRenew
    <3>3. lock' \in Node \cup {NoNode} /\ UNCHANGED <<stat, channel>>
      BY <2>4 DEF ExecRenew, TypeOK
    <3>4. pipe' \in [Node -> Seq(Command)] /\ UNCHANGED <<record, cleanup, nodeVars, cut, edits, faultVars>>
      BY <2>4, ExecutesType DEF ExecRenew
    <3> QED
      BY <3>2, <3>3, <3>4 DEF TypeOK
  <2>5. ASSUME ExecPublish(n) PROVE TypeOK'
    <3>0. PICK x : x = Head(pipe[n]) /\ x \in Command /\ x.cmd = "PUBLISH"
      BY <2>5, ExecutesType DEF ExecPublish
    <3>1. Head(pipe[n]).msg \in Message
      BY <3>0 DEF Command
    <3>2. \A m \in Node : Append(channel[m], Head(pipe[n]).msg) \in Seq(Message)
      BY <3>1 DEF TypeOK
    <3>3. channel' \in [Node -> Seq(Message)]
      BY <2>5, <3>2 DEF ExecPublish, TypeOK
    <3>4. pipe' \in [Node -> Seq(Command)] /\ UNCHANGED <<record, cleanup, nodeVars, cut, edits, faultVars>>
      BY <2>5, ExecutesType DEF ExecPublish
    <3>5. UNCHANGED <<stat, lock, answers>>
      BY <2>5 DEF ExecPublish
    <3> QED
      BY <3>3, <3>4, <3>5 DEF TypeOK
  <2> QED
    BY <1>10, <2>1, <2>2, <2>3, <2>4, <2>5 DEF Server
<1>11. ASSUME NEW n \in Node, LoseMessage(n) PROVE TypeOK'
  <2>1. lost' \in 0 .. MaxLost
    BY <1>11 DEF LoseMessage, TypeOK, ConstantsOK
  <2>2. channel' \in [Node -> Seq(Message)]
    <3>1. <<>> \in Seq(Message)
      OBVIOUS
    <3> QED
      BY <1>11, <3>1 DEF LoseMessage, TypeOK
  <2> QED
    BY <1>11, <2>1, <2>2 DEF LoseMessage, TypeOK
<1>12. ASSUME NEW n \in Node, Crash(n) PROVE TypeOK'
  <2>1. crashes' \in 0 .. MaxCrash
    <3>1. crashes \in 0 .. MaxCrash /\ MaxCrash \in Nat
      BY DEF TypeOK, ConstantsOK
    <3>2. crashes' = crashes + 1 /\ crashes < MaxCrash
      BY <1>12 DEF Crash
    <3> QED
      BY <3>1, <3>2
  <2>2. up' \in [Node -> BOOLEAN] /\ local' \in [Node -> SUBSET Uid]
    BY <1>12 DEF Crash, TypeOK
  <2>3. /\ records' \in [Node -> [Uid -> Record \cup {Absent}]]
        /\ dist' \in [Node -> [Uid -> Cfg \cup {Absent}]]
        /\ session' \in [Node -> [Uid -> Cfg \cup {Absent}]]
    BY <1>12 DEF Crash, TypeOK
  <2>4. answers' \in [Node -> Seq(Answer)] /\ channel' \in [Node -> Seq(Message)]
    <3>1. <<>> \in Seq(Answer) /\ <<>> \in Seq(Message)
      OBVIOUS
    <3> QED
      BY <1>12, <3>1 DEF Crash, TypeOK
  <2>5. UNCHANGED <<redisVars, cleanup, pipe, cut, edits, stalls, lost>>
    BY <1>12 DEF Crash
  <2> QED
    BY <2>1, <2>2, <2>3, <2>4, <2>5 DEF TypeOK, redisVars
<1>13. ASSUME NEW n \in Node, Restart(n) PROVE TypeOK'
  <2>1. <<[cmd |-> "STAT"]>> \in Seq(Command)
    BY DEF Command
  <2>2. pipe' \in [Node -> Seq(Command)]
    BY <1>13, <2>1, SendType DEF Restart
  <2> QED
    BY <1>13, <2>2 DEF Restart, TypeOK
<1>14. ASSUME NEW u \in Uid, ExpireStat(u) PROVE TypeOK'
  <2>1. stalls' \in 0 .. MaxStall
    BY <1>14 DEF ExpireStat, TypeOK, ConstantsOK
  <2>2. cut' \in [Node -> SUBSET Uid]
    <3>1. Missed({u}) /\ {u} \in SUBSET Uid
      BY <1>14 DEF ExpireStat
    <3> QED
      BY <3>1, MissedType
  <2> QED
    BY <1>14, <2>1, <2>2 DEF ExpireStat, TypeOK
<1>15. ASSUME ExpireLock PROVE TypeOK'
  BY <1>15 DEF ExpireLock, TypeOK
<1>16. ASSUME UNCHANGED vars PROVE TypeOK'
  BY <1>16 DEF vars, TypeOK
<1> QED
  BY <1>2, <1>3, <1>4, <1>5, <1>6, <1>7, <1>8, <1>9, <1>10, <1>11, <1>12, <1>13, <1>14, <1>15, <1>16
  DEF Next, Callback, Fault

-----------------------------------------------------------------------------
(* The key.                                                                *)

\* One node changes: it may act if the key is its own afterwards.
LEMMA NodeStep ==
    ASSUME ConstantsOK, TypeOK, LockInv, NEW n \in Node, lock' \in {lock} \/ lock = NoNode,
           \A m \in Node : m # n => /\ pipe'[m] = pipe[m] /\ answers'[m] = answers[m]
                                    /\ channel'[m] = channel[m] /\ session'[m] = session[m]
                                    /\ up'[m] = up[m],
           Acts(n)' => lock' = n, up'[n] \/ Dead(n)'
    PROVE  LockInv'
<1>1. ASSUME NEW m \in Node, m # n PROVE (Acts(m)' => lock' = m) /\ (up'[m] \/ Dead(m)')
  <2>1. Acts(m)' <=> Acts(m)
    BY <1>1 DEF Acts, Confirmed, Running
  <2>2. Dead(m)' <=> Dead(m)
    BY <1>1 DEF Dead, Running
  <2> QED
    BY <1>1, <2>1, <2>2 DEF LockInv, ConstantsOK
<1> QED
  BY <1>1 DEF LockInv

\* No node changes.
LEMMA RestStep ==
    ASSUME ConstantsOK, TypeOK, LockInv, UNCHANGED <<pipe, answers, channel, session, up>>,
           lock' = lock \/ \A n \in Node : ~Acts(n) \/ lock # n
    PROVE  LockInv'
BY DEF LockInv, Acts, Confirmed, Running, Dead

\* A callback for an answer: what remains confirmed was so before.
LEMMA ConfirmedTail ==
    ASSUME TypeOK, NEW n \in Node, answers[n] # <<>>, answers'[n] = Tail(answers[n]), Confirmed(n)'
    PROVE  Confirmed(n)
<1>1. answers[n] \in Seq(Answer)
  BY DEF TypeOK
<1>2. \A i \in DOMAIN answers'[n] : i + 1 \in DOMAIN answers[n] /\ answers'[n][i] = answers[n][i + 1]
  BY <1>1, Tails
<1> QED
  BY <1>2 DEF Confirmed

LEMMA HandlePreservesLock ==
    ASSUME ConstantsOK, TypeOK, LockInv, NEW n \in Node, Callback(n)
    PROVE  LockInv'
<1>1. PICK x : Handles(n, x)
  BY DEF Callback, Redis_KeepMaster_Callback, Redis_SyncPullList_Callback,
         Redis_SyncPullStat_Callback, Redis_SyncClusterNode_Callback
<1>2. /\ answers[n] \in Seq(Answer) /\ answers[n] # <<>> /\ answers'[n] = Tail(answers[n])
      /\ Head(answers[n]).cmd = x /\ up[n] /\ UNCHANGED <<lock, up, session, channel>>
      /\ \A m \in Node : m # n => answers'[m] = answers[m]
      /\ Head(answers[n]) = answers[n][1] /\ 1 \in DOMAIN answers[n]
  BY <1>1, HandlesType, Tails DEF redisVars
<1>3. Confirmed(n)' => Confirmed(n)
  BY <1>2, ConfirmedTail
<1>4. /\ \A m \in Node : m # n => pipe'[m] = pipe[m]
      /\ pipe'[n] = pipe[n] \/ Confirmed(n)
  <2>1. CASE pipe' = pipe
    BY <2>1
  <2>2. ASSUME NEW cs, Send(n, cs) PROVE \A m \in Node : m # n => pipe'[m] = pipe[m]
    BY <2>2 DEF Send, TypeOK
  <2>3. CASE Redis_KeepMaster_Callback(n)
    <3>1. CASE Head(answers[n]).ok
      BY <1>2, <2>2, <2>3, <3>1 DEF Redis_KeepMaster_Callback, Handles, Confirmed
    <3>2. CASE ~Head(answers[n]).ok
      BY <2>1, <2>3, <3>2 DEF Redis_KeepMaster_Callback
    <3> QED
      BY <3>1, <3>2
  <2>4. CASE Redis_SyncClusterNode_Callback(n)
    BY <1>2, <2>2, <2>4 DEF Redis_SyncClusterNode_Callback, Handles, Confirmed
  <2>5. CASE Redis_SyncPullList_Callback(n) \/ Redis_SyncPullStat_Callback(n)
    BY <2>1, <2>5 DEF Redis_SyncPullList_Callback, Redis_SyncPullStat_Callback
  <2> QED
    BY <2>3, <2>4, <2>5 DEF Callback
<1>5. Acts(n)' => Acts(n)
  BY <1>2, <1>3, <1>4 DEF Acts, Running
<1> QED
  BY <1>2, <1>4, <1>5, NodeStep DEF LockInv

LEMMA ChannelPreservesLock ==
    ASSUME ConstantsOK, TypeOK, LockInv, NEW n \in Node, Redis_NodeChannel_Callback(n)
    PROVE  LockInv'
<1>1. /\ up[n] /\ channel[n] # <<>> /\ UNCHANGED <<lock, up, answers>>
      /\ \A m \in Node : m # n => channel'[m] = channel[m]
  BY DEF Redis_NodeChannel_Callback, redisVars, TypeOK
<1>2. \A m \in Node : m # n => pipe'[m] = pipe[m] /\ session'[m] = session[m]
  BY DEF Redis_NodeChannel_Callback, Send, TypeOK
<1>3. lock = n
  BY <1>1 DEF LockInv, Acts
<1> QED
  BY <1>1, <1>2, <1>3, NodeStep

LEMMA ServerPreservesLock ==
    ASSUME ConstantsOK, TypeOK, LockInv, NEW n \in Node, Server(n)
    PROVE  LockInv'
<1>1. PICK x : Executes(n, x)
  BY DEF Server, ExecHset, ExecHdel, ExecRead, ExecRenew, ExecPublish
<1>2. /\ pipe[n] \in Seq(Command) /\ pipe[n] # <<>> /\ pipe'[n] = Tail(pipe[n])
      /\ Head(pipe[n]).cmd = x /\ UNCHANGED <<up, session>>
      /\ \A m \in Node : m # n => pipe'[m] = pipe[m]
      /\ \A C : Has(pipe'[n], C) => Has(pipe[n], C)
      /\ \A C : x \in C => Has(pipe[n], C)
  <2>1. /\ pipe[n] \in Seq(Command) /\ pipe[n] # <<>> /\ pipe'[n] = Tail(pipe[n])
        /\ Head(pipe[n]).cmd = x /\ UNCHANGED <<up, session>>
        /\ \A m \in Node : m # n => pipe'[m] = pipe[m]
    BY <1>1, ExecutesType DEF nodeVars
  <2>2. /\ \A C : Has(Tail(pipe[n]), C) => Has(pipe[n], C)
        /\ Head(pipe[n]) = pipe[n][1] /\ 1 \in DOMAIN pipe[n]
    BY <2>1, Tails
  <2>3. \A C : x \in C => Has(pipe[n], C)
    BY <2>1, <2>2 DEF Has
  <2> QED
    BY <2>1, <2>2, <2>3
<1>3. up[n] \/ Dead(n)
  BY DEF LockInv
<1>4. CASE ExecHset(n) \/ ExecHdel(n)
  <2>1. UNCHANGED <<lock, answers, channel>>
    BY <1>4 DEF ExecHset, ExecHdel
  <2>2. (Acts(n)' => Acts(n)) /\ (Dead(n)' <=> Dead(n))
    BY <1>2, <2>1 DEF Acts, Confirmed, Running, Dead
  <2> QED
    BY <1>2, <1>3, <2>1, <2>2, NodeStep DEF LockInv
<1>5. CASE ExecRead(n)
  <2>1. PICK a \in Answer : /\ Answers(n, a) /\ a.cmd = x /\ x \in {"STAT", "RECORD", "NODE"}
                            /\ UNCHANGED <<lock, channel>>
    <3>1. /\ [cmd |-> "STAT", val |-> stat] \in Answer /\ [cmd |-> "RECORD", val |-> record] \in Answer
          /\ [cmd |-> "NODE"] \in Answer
      BY DEF Answer, TypeOK
    <3> QED
      BY <1>2, <1>5, <3>1 DEF ExecRead, Executes
  <2>2. /\ answers'[n] = (IF up[n] THEN Append(answers[n], a) ELSE answers[n])
        /\ \A m \in Node : m # n => answers'[m] = answers[m]
    BY <2>1, AnswersType
  <2>3. \A i \in DOMAIN answers'[n] :
         \/ i \in DOMAIN answers[n] /\ answers'[n][i] = answers[n][i]
         \/ answers'[n][i] = a
    BY <2>2, Appends DEF TypeOK
  <2>4. Confirmed(n)' => Confirmed(n) \/ x \in {"RECORD", "NODE"}
    BY <2>1, <2>3 DEF Confirmed
  <2>5. Acts(n)' => Acts(n)
    BY <1>2, <2>1, <2>4 DEF Acts, Running
  <2>6. up'[n] \/ Dead(n)'
    BY <1>2, <1>3, <2>1, <2>2 DEF Dead, Running
  <2> QED
    BY <1>2, <2>1, <2>2, <2>5, <2>6, NodeStep DEF LockInv
<1>6. CASE ExecRenew(n)
  <2> DEFINE a == [cmd |-> "RENEW", ok |-> lock' = n]
  <2>1. /\ a \in Answer /\ Answers(n, a) /\ channel' = channel
        /\ lock' = IF lock = NoNode THEN n ELSE lock
    BY <1>6 DEF ExecRenew, Answer
  <2>2. /\ answers'[n] = (IF up[n] THEN Append(answers[n], a) ELSE answers[n])
        /\ \A m \in Node : m # n => answers'[m] = answers[m]
    BY <2>1, AnswersType
  <2>3. \A i \in DOMAIN answers'[n] :
         \/ i \in DOMAIN answers[n] /\ answers'[n][i] = answers[n][i]
         \/ answers'[n][i] = a
    BY <2>1, <2>2, Appends DEF TypeOK
  <2>4. Confirmed(n)' => Confirmed(n) \/ lock' = n
    <3>1. a.cmd = "RENEW" /\ (a.ok <=> lock' = n)
      OBVIOUS
    <3> HIDE DEF a
    <3> QED
      BY <2>3, <3>1 DEF Confirmed
  <2>5. Acts(n)' => Acts(n) \/ lock' = n
    BY <1>2, <2>1, <2>4 DEF Acts, Running
  <2>6. up'[n] \/ Dead(n)'
    BY <1>2, <1>3, <2>1, <2>2 DEF Dead, Running
  <2>7. Acts(n) => lock' = n
    BY <2>1 DEF LockInv, ConstantsOK
  <2> QED
    BY <1>2, <2>1, <2>2, <2>5, <2>6, <2>7, NodeStep
<1>7. CASE ExecPublish(n)
  <2>1. /\ UNCHANGED <<lock, answers>> /\ x = "PUBLISH"
        /\ channel' = [m \in Node |-> IF m \in Subscribers(n)
                                      THEN Append(channel[m], Head(pipe[n]).msg) ELSE channel[m]]
    BY <1>2, <1>7 DEF ExecPublish, Executes
  <2>2. /\ \A m \in Node : m # n => channel'[m] = channel[m]
        /\ ~up[n] => channel'[n] = channel[n]
    BY <2>1 DEF Subscribers
  <2>3. lock = n
    BY <1>2, <2>1 DEF LockInv, Acts
  <2>4. up'[n] \/ Dead(n)'
    BY <1>2, <1>3, <2>1, <2>2 DEF Dead, Running
  <2> QED
    BY <1>2, <2>1, <2>2, <2>3, <2>4, NodeStep
<1> QED
  BY <1>4, <1>5, <1>6, <1>7 DEF Server

\* The timer and a report send commands that need no key.
LEMMA SendPreservesLock ==
    ASSUME ConstantsOK, TypeOK, LockInv, NEW n \in Node, NEW cs \in Seq(Command), Send(n, cs),
           ~Has(cs, {"RECORD", "NODE", "PUBLISH", "HDEL"}), up'[n],
           UNCHANGED <<lock, session, answers, channel>>, \A m \in Node : m # n => up'[m] = up[m]
    PROVE  LockInv'
<1>1. pipe'[n] = pipe[n] \o cs /\ \A m \in Node : m # n => pipe'[m] = pipe[m]
  BY SendType
<1>2. \A C : Has(pipe'[n], C) <=> Has(pipe[n], C) \/ Has(cs, C)
  <2>1. PICK q : q = pipe[n] /\ q \in Seq(Command)
    BY DEF TypeOK
  <2>2. \A C : Has(q \o cs, C) <=> Has(q, C) \/ Has(cs, C)
    BY <2>1, Concats
  <2> QED
    BY <1>1, <2>1, <2>2
<1>3. Acts(n)' => Acts(n)
  BY <1>2 DEF Acts, Confirmed, Running
<1> QED
  BY <1>1, <1>3, NodeStep DEF LockInv

LEMMA LockStep == ASSUME ConstantsOK, TypeOK, LockInv, [Next]_vars PROVE LockInv'
<1>1. ASSUME Admin PROVE LockInv'
  <2>1. UNCHANGED <<lock, pipe, answers, channel, session, up>>
    BY <1>1 DEF Admin, CreatePull, UpdatePull, DeletePull, RelayStart, RelayStop, CleanupStat, Edit,
                nodeVars, wireVars
  <2> QED
    BY <2>1, RestStep
<1>2. ASSUME NEW n \in Node, TimeoutCallback(n) PROVE LockInv'
  <2> DEFINE cs == <<Upload(n), [cmd |-> "STAT"], [cmd |-> "RENEW"]>>
  <2>1. Send(n, cs) /\ up'[n] /\ UNCHANGED <<lock, session, answers, channel, up>>
    BY <1>2 DEF TimeoutCallback, redisVars, nodeVars
  <2>2. Asked(n, cs)
    BY AskedSeq
  <2> HIDE DEF cs
  <2>3. cs \in Seq(Command) /\ ~Has(cs, {"RECORD", "NODE", "PUBLISH", "HDEL"})
    BY <2>2 DEF Asked, Has
  <2> QED
    BY <2>1, <2>3, SendPreservesLock
<1>3. ASSUME NEW n \in Node, NEW u \in Uid, ReportState(n, u) PROVE LockInv'
  <2> DEFINE cs == <<[cmd |-> "HSETEX", uids |-> {u}]>>
  <2>1. cs \in Seq(Command) /\ ~Has(cs, {"RECORD", "NODE", "PUBLISH", "HDEL"})
    BY DEF Command, Has
  <2> HIDE DEF cs
  <2>2. Send(n, cs) /\ up'[n] /\ UNCHANGED <<lock, session, answers, channel, up>>
    BY <1>3 DEF ReportState, redisVars, nodeVars, cs
  <2> QED
    BY <2>1, <2>2, SendPreservesLock
<1>4. ASSUME NEW n \in Node, LoseMessage(n) PROVE LockInv'
  <2>1. /\ up[n] /\ UNCHANGED <<lock, pipe, answers, session, up>> /\ channel[n] # <<>>
        /\ \A m \in Node : m # n => channel'[m] = channel[m]
    BY <1>4 DEF LoseMessage, redisVars, nodeVars, TypeOK
  <2>2. lock = n
    BY <2>1 DEF LockInv, Acts
  <2> QED
    BY <2>1, <2>2, NodeStep
<1>5. ASSUME NEW n \in Node, Crash(n) PROVE LockInv'
  <2>1. /\ UNCHANGED <<lock, pipe>> /\ answers'[n] = <<>> /\ channel'[n] = <<>>
        /\ session'[n] = [u \in Uid |-> Absent]
        /\ \A m \in Node : m # n => /\ answers'[m] = answers[m] /\ channel'[m] = channel[m]
                                    /\ session'[m] = session[m] /\ up'[m] = up[m]
    BY <1>5 DEF Crash, redisVars, TypeOK
  <2>2. Dead(n)' /\ (Acts(n)' => Acts(n))
    BY <2>1 DEF Dead, Running, Acts, Confirmed
  <2> QED
    BY <2>1, <2>2, NodeStep DEF LockInv
<1>6. ASSUME NEW n \in Node, Restart(n) PROVE LockInv'
  <2> DEFINE cs == <<[cmd |-> "STAT"]>>
  <2>1. cs \in Seq(Command) /\ ~Has(cs, {"RECORD", "NODE", "PUBLISH", "HDEL"})
    BY DEF Command, Has
  <2> HIDE DEF cs
  <2>2. /\ Send(n, cs) /\ up'[n] /\ UNCHANGED <<lock, session, answers, channel>>
        /\ \A m \in Node : m # n => up'[m] = up[m]
    BY <1>6 DEF Restart, redisVars, TypeOK, cs
  <2> QED
    BY <2>1, <2>2, SendPreservesLock
<1>7. ASSUME NEW u \in Uid, ExpireStat(u) PROVE LockInv'
  BY <1>7, RestStep DEF ExpireStat, nodeVars, wireVars
<1>8. ASSUME ExpireLock PROVE LockInv'
  <2>1. /\ UNCHANGED <<pipe, answers, channel, session, up>> /\ lock # NoNode /\ ~up[lock] /\ pipe[lock] = <<>>
    BY <1>8 DEF ExpireLock, nodeVars, wireVars
  <2>2. ~Acts(lock)
    <3>1. lock \in Node /\ Dead(lock)
      BY <2>1 DEF LockInv, TypeOK
    <3> QED
      BY <2>1, <3>1 DEF Acts, Dead, Confirmed, Has
  <2> QED
    BY <2>1, <2>2, RestStep
<1>9. ASSUME UNCHANGED vars PROVE LockInv'
  BY <1>9, RestStep DEF vars, redisVars, nodeVars, wireVars
<1> QED
  BY <1>1, <1>2, <1>3, <1>4, <1>5, <1>6, <1>7, <1>8, <1>9,
     HandlePreservesLock, ChannelPreservesLock, ServerPreservesLock DEF Next, Fault

-----------------------------------------------------------------------------
(* Rounds.                                                                 *)

LEMMA QuietEmpty ==
    ASSUME TypeOK, NEW n \in Node, Quiet(n)
    PROVE  pipe[n] = <<>> /\ answers[n] = <<>> /\ channel[n] = <<>>
<1>1. pipe[n] \in Seq(Command) /\ answers[n] \in Seq(Answer) /\ channel[n] \in Seq(Message)
  BY DEF TypeOK
<1>2. Len(pipe[n]) = 0 /\ Len(answers[n]) = 0 /\ Len(channel[n]) = 0
  <2>1. Len(pipe[n]) \in Nat /\ Len(answers[n]) \in Nat /\ Len(channel[n]) \in Nat
    BY <1>1
  <2>2. Len(pipe[n]) + Len(answers[n]) + Len(channel[n]) = 0
    BY DEF Quiet, Backlog
  <2>3. \A a, b, c \in Nat : a + b + c = 0 => a = 0 /\ b = 0 /\ c = 0
    OBVIOUS
  <2> QED
    BY <2>1, <2>2, <2>3
<1> QED
  BY <1>1, <1>2

LEMMA SendEmpty ==
    ASSUME TypeOK, NEW n \in Node, pipe[n] = <<>>, NEW cs \in Seq(Command), Send(n, cs)
    PROVE  pipe'[n] = cs /\ \A m \in Node : m # n => pipe'[m] = pipe[m]
<1>1. pipe'[n] = pipe[n] \o cs /\ \A m \in Node : m # n => pipe'[m] = pipe[m]
  BY SendType
<1> QED
  BY <1>1, Concats DEF TypeOK

\* The answers that carry on a round come when nothing else is under way.
LEMMA AnswerLast ==
    ASSUME TypeOK, NEW n \in Node, RoundOf(n), NEW x \in {"RENEW", "NODE"}, Handles(n, x)
    PROVE  answers'[n] = <<>> /\ pipe[n] = <<>> /\ channel[n] = <<>>
<1>1. /\ answers[n] \in Seq(Answer) /\ answers[n] # <<>> /\ answers'[n] = Tail(answers[n])
      /\ answers[n][1].cmd = x /\ 1 \in DOMAIN answers[n]
  BY HandlesType, Tails
<1>2. Len(answers[n]) = 1 /\ pipe[n] = <<>> /\ channel[n] = <<>>
  BY <1>1 DEF RoundOf, InRound
<1>3. Tail(answers[n]) = <<>>
  <2>1. Tail(answers[n]) \in Seq(Answer) /\ Len(Tail(answers[n])) = Len(answers[n]) - 1
    BY <1>1, Tails
  <2>2. \A q \in Seq(Answer) : Len(q) = 0 => q = <<>>
    OBVIOUS
  <2>3. Len(Tail(answers[n])) = 0
    BY <1>2, <2>1
  <2> QED
    BY <2>1, <2>2, <2>3
<1> QED
  BY <1>1, <1>2, <1>3

LEMMA RoundOne ==
    ASSUME RoundInv, NEW n \in Node, RoundOf(n)' \/ Mixed(n)',
           \A m \in Node : m # n => UNCHANGED <<pipe[m], answers[m], channel[m], cut[m]>>
    PROVE  RoundInv'
<1>1. ASSUME NEW m \in Node, m # n PROVE RoundOf(m)' \/ Mixed(m)'
  <2>1. /\ RoundOf(m) \/ Mixed(m)
        /\ pipe'[m] = pipe[m] /\ answers'[m] = answers[m] /\ channel'[m] = channel[m] /\ cut'[m] = cut[m]
    BY <1>1 DEF RoundInv
  <2>2. RoundOf(m) => RoundOf(m)'
    BY <2>1 DEF RoundOf, InRound
  <2>3. Mixed(m) => Mixed(m)'
    BY <2>1 DEF Mixed
  <2> QED
    BY <2>1, <2>2, <2>3
<1> QED
  BY <1>1 DEF RoundInv

\* The callback of an answer touches its own node only.
LEMMA CallbackFrame ==
    ASSUME TypeOK, NEW n \in Node, Callback(n)
    PROVE  /\ \A m \in Node : m # n => UNCHANGED <<pipe[m], answers[m], channel[m], cut[m]>>
           /\ cut' = cut
<1>1. PICK x : Handles(n, x)
  BY DEF Callback, Redis_KeepMaster_Callback, Redis_SyncPullList_Callback,
         Redis_SyncPullStat_Callback, Redis_SyncClusterNode_Callback
<1>2. UNCHANGED <<channel, cut>> /\ \A m \in Node : m # n => answers'[m] = answers[m]
  BY <1>1, HandlesType
<1>3. \A m \in Node : m # n => pipe'[m] = pipe[m]
  BY DEF Callback, Redis_KeepMaster_Callback, Redis_SyncPullList_Callback, Send, TypeOK,
         Redis_SyncPullStat_Callback, Redis_SyncClusterNode_Callback
<1> QED
  BY <1>2, <1>3

LEMMA HandlePreservesRound ==
    ASSUME ConstantsOK, TypeOK, NEW n \in Node, RoundOf(n), Callback(n)
    PROVE  RoundOf(n)'
<1>1. ASSUME NEW x, Handles(n, x), pipe' = pipe PROVE RoundOf(n)'
  <2>1. /\ answers[n] \in Seq(Answer) /\ answers[n] # <<>> /\ answers'[n] = Tail(answers[n])
        /\ \A m \in Node : m # n => answers'[m] = answers[m]
        /\ channel' = channel
    BY <1>1, HandlesType
  <2>2. /\ Len(answers[n]) \in Nat \ {0} /\ Len(answers'[n]) = Len(answers[n]) - 1
        /\ \A i \in DOMAIN answers'[n] :
             i \in Nat /\ i + 1 \in DOMAIN answers[n] /\ answers'[n][i] = answers[n][i + 1]
    BY <2>1, Tails
  <2>3. RoundOf(n) /\ pipe'[n] = pipe[n] /\ channel'[n] = channel[n]
    BY <1>1, <2>1
  <2>4. ASSUME NEW i \in DOMAIN answers'[n], answers'[n][i].cmd \in {"RENEW", "NODE"}
        PROVE  i = Len(answers'[n]) /\ pipe[n] = <<>>
    <3>1. i \in Nat /\ i + 1 = Len(answers[n]) /\ pipe[n] = <<>>
      BY <2>2, <2>3, <2>4 DEF RoundOf
    <3>2. \A k, l \in Nat : k + 1 = l => k = l - 1
      OBVIOUS
    <3> QED
      BY <2>2, <3>1, <3>2
  <2>5. InRound(n)' => InRound(n)
    BY <2>1, <2>3 DEF InRound
  <2> QED
    BY <2>3, <2>4, <2>5 DEF RoundOf
<1>2. ASSUME NEW x \in {"RENEW", "NODE"}, Handles(n, x), NEW cs \in Seq(Command), Send(n, cs),
             \/ cs = <<[cmd |-> "RECORD"], [cmd |-> "STAT"], [cmd |-> "NODE"]>>
             \/ cs \in Seq(Publication)
      PROVE  RoundOf(n)'
  <2>1. answers'[n] = <<>> /\ channel'[n] = <<>> /\ pipe[n] = <<>>
    BY <1>2, AnswerLast, HandlesType
  <2>2. pipe'[n] = cs
    BY <1>2, <2>1, SendEmpty
  <2>3. CASE cs = <<[cmd |-> "RECORD"], [cmd |-> "STAT"], [cmd |-> "NODE"]>>
    BY <2>1, <2>2, <2>3 DEF RoundOf, Has
  <2>4. CASE cs \in Seq(Publication)
    <3>1. \A i \in DOMAIN cs : cs[i].cmd = "PUBLISH"
      <4>1. \A i \in DOMAIN cs : cs[i] \in Publication
        BY <2>4
      <4> QED
        BY <4>1 DEF Publication
    <3> QED
      BY <2>1, <2>2, <3>1 DEF RoundOf, Has, InRound, Rounds
  <2> QED
    BY <1>2, <2>3, <2>4
<1>3. CASE Redis_KeepMaster_Callback(n)
  <2>1. <<[cmd |-> "RECORD"], [cmd |-> "STAT"], [cmd |-> "NODE"]>> \in Seq(Command)
    BY DEF Command
  <2> QED
    BY <1>1, <1>2, <1>3, <2>1 DEF Redis_KeepMaster_Callback
<1>4. CASE Redis_SyncClusterNode_Callback(n)
  <2> DEFINE cs == SetToSeq({[cmd |-> "PUBLISH", msg |-> m] : m \in Orders(n)})
  <2>1. cs \in Seq(Publication) /\ Publication \subseteq Command
    BY OrderSeq DEF Publication, Command
  <2>2. Handles(n, "NODE") /\ Send(n, cs)
    BY <1>4 DEF Redis_SyncClusterNode_Callback
  <2> HIDE DEF cs
  <2>3. cs \in Seq(Command)
    BY <2>1
  <2> QED
    BY <1>2, <2>1, <2>2, <2>3
<1> QED
  BY <1>1, <1>3, <1>4 DEF Callback, Redis_SyncPullList_Callback, Redis_SyncPullStat_Callback

\* An order is carried out between rounds, or in the midst of several.
LEMMA ChannelPreservesRound ==
    ASSUME ConstantsOK, TypeOK, NEW n \in Node, ~InRound(n), Redis_NodeChannel_Callback(n)
    PROVE  RoundOf(n)' /\ ~InRound(n)'
<1>1. channel[n] # <<>> /\ answers' = answers
  BY DEF Redis_NodeChannel_Callback
<1>2. ~InRound(n)
  OBVIOUS
<1>3. ~Has(pipe'[n], Rounds)
  <2>1. CASE pipe' = pipe
    BY <1>2, <2>1 DEF InRound
  <2>2. ASSUME NEW u \in Uid, Send(n, <<[cmd |-> "HDEL", uid |-> u]>>) PROVE <1>3
    <3> DEFINE cs == <<[cmd |-> "HDEL", uid |-> u]>>
    <3>1. cs \in Seq(Command) /\ ~Has(cs, Rounds)
      BY DEF Command, Has, Rounds
    <3> HIDE DEF cs
    <3>2. pipe'[n] = pipe[n] \o cs
      BY <2>2, <3>1, SendType DEF cs
    <3>3. Has(pipe'[n], Rounds) <=> Has(pipe[n], Rounds) \/ Has(cs, Rounds)
      <4>1. pipe[n] \in Seq(Command) /\ cs \in Seq(Command)
        BY <3>1 DEF TypeOK
      <4>2. PICK q : q = pipe[n] /\ q \in Seq(Command)
        BY <4>1
      <4>3. Has(q \o cs, Rounds) <=> Has(q, Rounds) \/ Has(cs, Rounds)
        BY <4>1, <4>2, Concats
      <4> QED
        BY <3>2, <4>2, <4>3
    <3> QED
      BY <1>2, <3>1, <3>2, <3>3 DEF InRound
  <2>3. Head(channel[n]).uid \in Uid
    <3>1. channel[n] \in Seq(Message)
      BY DEF TypeOK
    <3>2. Head(channel[n]) \in Message
      BY <1>1, <3>1
    <3> QED
      BY <3>2 DEF Message
  <2> QED
    BY <2>1, <2>2, <2>3 DEF Redis_NodeChannel_Callback
<1>4. answers'[n] = <<>>
  BY <1>1, <1>2 DEF InRound
<1>5. \A i \in DOMAIN pipe'[n] : pipe'[n][i].cmd \notin {"RENEW", "NODE"}
  BY <1>3 DEF Has, Rounds
<1>6. ~InRound(n)'
  BY <1>3, <1>4 DEF InRound
<1> QED
  BY <1>4, <1>5, <1>6 DEF RoundOf

LEMMA ChannelFrame ==
    ASSUME TypeOK, NEW n \in Node, Redis_NodeChannel_Callback(n)
    PROVE  \A m \in Node : m # n =>
             UNCHANGED <<pipe[m], answers[m], channel[m], cut[m], local[m], session[m]>>
BY DEF Redis_NodeChannel_Callback, Send, Handled, TypeOK


\* What executing a command does to the pipeline and the answers of its node.
LEMMA ServerEffect ==
    ASSUME ConstantsOK, TypeOK, NEW n \in Node, Server(n)
    PROVE  /\ pipe[n] # <<>> /\ pipe[n] \in Seq(Command) /\ pipe'[n] = Tail(pipe[n])
           /\ UNCHANGED <<record, cleanup, nodeVars, cut, edits, faultVars>>
           /\ \A m \in Node : m # n => UNCHANGED <<pipe[m], answers[m], channel[m]>> /\ cut'[m] = cut[m]
           /\ \/ /\ answers' = answers /\ channel' = channel
                 /\ \/ Head(pipe[n]).cmd = "HSETEX" /\ stat' = stat \cup Head(pipe[n]).uids
                    \/ Head(pipe[n]).cmd = "HDEL" /\ stat' = stat \ {Head(pipe[n]).uid}
              \/ /\ Head(pipe[n]).cmd = "PUBLISH" /\ answers' = answers /\ stat' = stat
                 /\ channel'[n] = IF up[n] THEN Append(channel[n], Head(pipe[n]).msg) ELSE channel[n]
              \/ /\ Head(pipe[n]).cmd \in Rounds /\ channel' = channel /\ stat' = stat
                 /\ \E a \in Answer :
                      /\ a.cmd = Head(pipe[n]).cmd /\ (a.cmd = "STAT" => a.val = stat)
                      /\ answers'[n] = IF up[n] THEN Append(answers[n], a) ELSE answers[n]
<1>1. PICK x : Executes(n, x)
  BY DEF Server, ExecHset, ExecHdel, ExecRead, ExecRenew, ExecPublish
<1>2. /\ pipe[n] \in Seq(Command) /\ pipe[n] # <<>> /\ pipe'[n] = Tail(pipe[n])
      /\ Head(pipe[n]).cmd = x /\ \A m \in Node : m # n => pipe'[m] = pipe[m]
      /\ UNCHANGED <<record, cleanup, nodeVars, cut, edits, faultVars>>
  BY <1>1, ExecutesType
<1>3. CASE ExecHset(n)
  BY <1>2, <1>3 DEF ExecHset, Executes
<1>4. CASE ExecHdel(n)
  BY <1>2, <1>4 DEF ExecHdel, Executes
<1>5. CASE ExecPublish(n)
  <2>1. /\ Head(pipe[n]).cmd = "PUBLISH" /\ answers' = answers /\ stat' = stat
        /\ channel' = [m \in Node |-> IF m \in Subscribers(n)
                                      THEN Append(channel[m], Head(pipe[n]).msg) ELSE channel[m]]
    BY <1>5 DEF ExecPublish, Executes
  <2>2. /\ \A m \in Node : m # n => channel'[m] = channel[m]
        /\ channel'[n] = IF up[n] THEN Append(channel[n], Head(pipe[n]).msg) ELSE channel[n]
    BY <2>1 DEF Subscribers
  <2> QED
    BY <1>2, <2>1, <2>2
<1>6. ASSUME NEW a \in Answer, Answers(n, a), a.cmd = Head(pipe[n]).cmd, a.cmd \in Rounds,
             a.cmd = "STAT" => a.val = stat, channel' = channel, stat' = stat
      PROVE  /\ \A m \in Node : m # n => UNCHANGED <<pipe[m], answers[m], channel[m]>>
             /\ answers'[n] = IF up[n] THEN Append(answers[n], a) ELSE answers[n]
  BY <1>2, <1>6, AnswersType
<1>7. CASE ExecRead(n)
  <2>1. PICK a \in Answer : Answers(n, a) /\ a.cmd = Head(pipe[n]).cmd /\ a.cmd \in Rounds
                            /\ (a.cmd = "STAT" => a.val = stat)
    <3>1. /\ [cmd |-> "STAT", val |-> stat] \in Answer /\ [cmd |-> "RECORD", val |-> record] \in Answer
          /\ [cmd |-> "NODE"] \in Answer
      BY DEF Answer, TypeOK
    <3> QED
      BY <1>7, <3>1 DEF ExecRead, Executes, Rounds
  <2>2. channel' = channel /\ stat' = stat
    BY <1>7 DEF ExecRead
  <2> QED
    BY <1>2, <1>6, <2>1, <2>2
<1>8. CASE ExecRenew(n)
  <2> DEFINE a == [cmd |-> "RENEW", ok |-> lock' = n]
  <2>1. /\ a \in Answer /\ Answers(n, a) /\ a.cmd = Head(pipe[n]).cmd /\ a.cmd = "RENEW"
        /\ channel' = channel /\ stat' = stat
    BY <1>8 DEF ExecRenew, Executes, Answer
  <2>2. a.cmd \in Rounds
    BY <2>1 DEF Rounds
  <2> HIDE DEF a
  <2> QED
    BY <1>2, <1>6, <2>1, <2>2
<1> QED
  BY <1>3, <1>4, <1>5, <1>7, <1>8 DEF Server

LEMMA ServerPreservesRound ==
    ASSUME ConstantsOK, TypeOK, NEW n \in Node, Server(n)
    PROVE  (RoundOf(n) => RoundOf(n)') /\ (InRound(n)' => InRound(n))
<1>1. /\ pipe[n] # <<>> /\ pipe[n] \in Seq(Command) /\ pipe'[n] = Tail(pipe[n])
  BY ServerEffect
<1>2. answers[n] \in Seq(Answer)
  BY DEF TypeOK
<1>3. /\ Len(pipe[n]) \in Nat \ {0} /\ Len(pipe'[n]) = Len(pipe[n]) - 1 /\ 1 \in DOMAIN pipe[n]
      /\ Head(pipe[n]) = pipe[n][1] /\ pipe'[n] \in Seq(Command)
      /\ \A i \in DOMAIN pipe'[n] : i \in Nat /\ i + 1 \in DOMAIN pipe[n] /\ pipe'[n][i] = pipe[n][i + 1]
      /\ \A C : Has(pipe'[n], C) => Has(pipe[n], C)
  BY <1>1, Tails
<1>4. Has(pipe[n], {Head(pipe[n]).cmd}) /\ (Head(pipe[n]).cmd \in Rounds => Has(pipe[n], Rounds))
  BY <1>3 DEF Has
<1>5. \/ answers'[n] = answers[n]
      \/ /\ Head(pipe[n]).cmd \in Rounds
         /\ \E a \in Answer : a.cmd = Head(pipe[n]).cmd /\ answers'[n] = Append(answers[n], a)
  BY ServerEffect
<1>6. InRound(n)' => InRound(n)
  BY <1>3, <1>4, <1>5 DEF InRound
<1>7. ASSUME RoundOf(n) PROVE RoundOf(n)'
  <2>1. \A i \in DOMAIN pipe'[n] : pipe'[n][i].cmd \in {"RENEW", "NODE"} => i = Len(pipe'[n])
    <3>1. ASSUME NEW i \in DOMAIN pipe'[n], pipe'[n][i].cmd \in {"RENEW", "NODE"} PROVE i = Len(pipe'[n])
      <4>1. i \in Nat /\ i + 1 = Len(pipe[n])
        BY <1>3, <1>7, <3>1 DEF RoundOf
      <4>2. \A k, l \in Nat : k + 1 = l => k = l - 1
        OBVIOUS
      <4> QED
        BY <1>3, <4>1, <4>2
    <3> QED
      BY <3>1
  <2>2. ASSUME NEW i \in DOMAIN answers'[n], answers'[n][i].cmd \in {"RENEW", "NODE"}
        PROVE  i = Len(answers'[n]) /\ pipe'[n] = <<>>
    <3>1. \A j \in DOMAIN answers[n] : answers[n][j].cmd \notin {"RENEW", "NODE"}
      BY <1>1, <1>7 DEF RoundOf
    <3>2. PICK a \in Answer : a.cmd = Head(pipe[n]).cmd /\ answers'[n] = Append(answers[n], a)
      BY <1>5, <2>2, <3>1
    <3>3. i = Len(answers'[n]) /\ answers'[n][i] = a
      BY <1>2, <2>2, <3>1, <3>2, Appends
    <3>4. Len(pipe[n]) = 1
      BY <1>3, <1>7, <2>2, <3>2, <3>3 DEF RoundOf
    <3>5. Len(pipe'[n]) = 0
      BY <1>3, <3>4
    <3>6. \A q \in Seq(Command) : Len(q) = 0 => q = <<>>
      OBVIOUS
    <3> QED
      BY <1>3, <3>3, <3>5, <3>6
  <2>3. InRound(n)' => channel'[n] = <<>> /\ ~Has(pipe'[n], {"PUBLISH", "HDEL"})
    <3>1. ASSUME InRound(n) PROVE channel'[n] = <<>> /\ ~Has(pipe'[n], {"PUBLISH", "HDEL"})
      <4>1. channel[n] = <<>> /\ ~Has(pipe[n], {"PUBLISH", "HDEL"})
        BY <1>7, <3>1 DEF RoundOf
      <4>2. Head(pipe[n]).cmd # "PUBLISH"
        BY <1>3, <4>1 DEF Has
      <4>3. channel'[n] = channel[n]
        BY <4>2, ServerEffect
      <4> QED
        BY <1>3, <4>1, <4>3
    <3> QED
      BY <1>6, <3>1
  <2> QED
    BY <2>1, <2>2, <2>3 DEF RoundOf
<1> QED
  BY <1>6, <1>7

LEMMA RoundStep == ASSUME ConstantsOK, TypeOK, LockInv, RoundInv, [Next]_vars PROVE RoundInv'
<1>1. ASSUME UNCHANGED wireVars, \A n \in Node : cut[n] = Uid => cut'[n] = Uid PROVE RoundInv'
  BY <1>1 DEF wireVars, RoundInv, RoundOf, InRound, Mixed
<1>2. ASSUME NEW n \in Node, NEW cs \in Seq(Command), Send(n, cs), answers'[n] = <<>>, channel'[n] = <<>>,
             pipe[n] = <<>>, \A i \in DOMAIN cs : cs[i].cmd \in {"RENEW", "NODE"} => i = Len(cs),
             ~Has(cs, {"PUBLISH", "HDEL"})
      PROVE  RoundOf(n)'
  <2>1. pipe'[n] = cs
    BY <1>2, SendEmpty
  <2> QED
    BY <1>2, <2>1 DEF RoundOf
<1>3. ASSUME NEW n \in Node, NEW cs \in Seq(Command), Send(n, cs), UNCHANGED <<answers, channel>>,
             \A i \in DOMAIN cs : cs[i].cmd \in {"RENEW", "NODE"} => i = Len(cs),
             ~Has(cs, {"PUBLISH", "HDEL"}), Overtaken(n), Overlap \/ Quiet(n)
      PROVE  RoundInv'
  <2>1. \A m \in Node : m # n => UNCHANGED <<pipe[m], answers[m], channel[m], cut[m]>>
    BY <1>3, SendType DEF Overtaken, TypeOK
  <2>2. CASE Quiet(n)
    BY <1>2, <1>3, <2>1, <2>2, QuietEmpty, RoundOne
  <2>3. CASE ~Quiet(n)
    <3>1. Mixed(n)'
      BY <1>3, <2>3 DEF Overtaken, Mixed, TypeOK
    <3> QED
      BY <2>1, <3>1, RoundOne
  <2> QED
    BY <2>2, <2>3
<1>4. ASSUME NEW n \in Node, TimeoutCallback(n) PROVE RoundInv'
  <2> DEFINE cs == <<Upload(n), [cmd |-> "STAT"], [cmd |-> "RENEW"]>>
  <2>1. /\ cs \in Seq(Command) /\ ~Has(cs, {"PUBLISH", "HDEL"})
        /\ \A i \in DOMAIN cs : cs[i].cmd \in {"RENEW", "NODE"} => i = Len(cs)
    <3>1. Asked(n, cs)
      BY AskedSeq
    <3> HIDE DEF cs
    <3> QED
      BY <3>1 DEF Asked, Has
  <2>2. Send(n, cs) /\ (Overlap \/ Quiet(n)) /\ UNCHANGED <<answers, channel>> /\ Overtaken(n)
    BY <1>4 DEF TimeoutCallback
  <2> HIDE DEF cs
  <2> QED
    BY <1>3, <2>1, <2>2
<1>5. ASSUME NEW n \in Node, NEW u \in Uid, ReportState(n, u) PROVE RoundInv'
  <2> DEFINE cs == <<[cmd |-> "HSETEX", uids |-> {u}]>>
  <2>1. /\ cs \in Seq(Command) /\ ~Has(cs, {"PUBLISH", "HDEL"})
        /\ \A i \in DOMAIN cs : cs[i].cmd \in {"RENEW", "NODE"} => i = Len(cs)
    BY DEF Command, Has
  <2>2. Send(n, cs) /\ (Overlap \/ Quiet(n)) /\ UNCHANGED <<answers, channel>> /\ Overtaken(n)
    BY <1>5 DEF ReportState
  <2> HIDE DEF cs
  <2> QED
    BY <1>3, <2>1, <2>2
<1>6. ASSUME NEW n \in Node, LoseMessage(n) \/ Crash(n) PROVE RoundInv'
  <2>1. /\ UNCHANGED <<pipe, cut>> /\ (answers'[n] = answers[n] \/ answers'[n] = <<>>) /\ channel'[n] = <<>>
        /\ \A m \in Node : m # n => answers'[m] = answers[m] /\ channel'[m] = channel[m]
    BY <1>6 DEF LoseMessage, Crash, TypeOK
  <2>2. RoundOf(n) => RoundOf(n)'
    BY <2>1 DEF RoundOf, InRound
  <2>3. Mixed(n) => Mixed(n)'
    BY <2>1 DEF Mixed
  <2> QED
    BY <2>1, <2>2, <2>3, RoundOne DEF RoundInv
<1>7. ASSUME NEW n \in Node, Restart(n) PROVE RoundInv'
  <2> DEFINE cs == <<[cmd |-> "STAT"]>>
  <2>1. /\ cs \in Seq(Command) /\ ~Has(cs, {"PUBLISH", "HDEL"})
        /\ \A i \in DOMAIN cs : cs[i].cmd \in {"RENEW", "NODE"} => i = Len(cs)
    BY DEF Command, Has
  <2>2. Send(n, cs) /\ pipe[n] = <<>> /\ Dead(n) /\ UNCHANGED <<answers, channel>>
    BY <1>7 DEF Restart, LockInv
  <2> HIDE DEF cs
  <2>3. RoundOf(n)'
    BY <1>2, <2>1, <2>2 DEF Dead
  <2>4. \A m \in Node : m # n => UNCHANGED <<pipe[m], answers[m], channel[m], cut[m]>>
    BY <1>7, <2>1, <2>2, SendType DEF Restart, TypeOK
  <2> QED
    BY <2>3, <2>4, RoundOne
<1>8. ASSUME NEW n \in Node, Callback(n) PROVE RoundInv'
  <2>1. RoundOf(n) => RoundOf(n)'
    BY <1>8, HandlePreservesRound
  <2>2. Mixed(n) => Mixed(n)'
    BY <1>8, CallbackFrame DEF Mixed
  <2> QED
    BY <1>8, <2>1, <2>2, CallbackFrame, RoundOne DEF RoundInv
<1>9. ASSUME NEW n \in Node, Redis_NodeChannel_Callback(n) PROVE RoundInv'
  <2>1. CASE ~InRound(n)
    BY <1>9, <2>1, ChannelPreservesRound, ChannelFrame, RoundOne
  <2>2. CASE InRound(n)
    <3>1. Mixed(n)
      BY <1>9, <2>2 DEF Redis_NodeChannel_Callback, RoundInv, RoundOf
    <3>2. cut' = cut
      BY <1>9, <2>2 DEF Redis_NodeChannel_Callback, Handled
    <3>3. Mixed(n)'
      BY <3>1, <3>2 DEF Mixed
    <3> QED
      BY <1>9, <3>3, ChannelFrame, RoundOne
  <2> QED
    BY <2>1, <2>2
<1>10. ASSUME NEW n \in Node, Server(n) PROVE RoundInv'
  <2>1. RoundOf(n) => RoundOf(n)'
    BY <1>10, ServerPreservesRound
  <2>2. cut' = cut /\ \A m \in Node : m # n => UNCHANGED <<pipe[m], answers[m], channel[m]>>
    BY <1>10, ServerEffect
  <2>3. Mixed(n) => Mixed(n)'
    BY <2>2 DEF Mixed
  <2> QED
    BY <2>1, <2>2, <2>3, RoundOne DEF RoundInv
<1>11. ASSUME NEW us \in SUBSET Uid, Missed(us) PROVE \A n \in Node : cut[n] = Uid => cut'[n] = Uid
  BY <1>11 DEF Missed, TypeOK
<1>12. ASSUME Admin PROVE RoundInv'
  <2>1. CASE CleanupStat
    <3>1. cleanup \cap stat \in SUBSET Uid
      BY DEF TypeOK
    <3> QED
      BY <1>1, <1>11, <2>1, <3>1 DEF CleanupStat
  <2>2. CASE ~CleanupStat
    BY <1>1, <1>12, <2>2 DEF Admin, CreatePull, UpdatePull, DeletePull, RelayStart, RelayStop, Edit
  <2> QED
    BY <2>1, <2>2
<1>13. ASSUME NEW u \in Uid, ExpireStat(u) PROVE RoundInv'
  BY <1>1, <1>11, <1>13 DEF ExpireStat
<1> QED
  BY <1>1, <1>4, <1>5, <1>6, <1>7, <1>8, <1>9, <1>10, <1>12, <1>13 DEF Next, Fault, ExpireLock, vars

-----------------------------------------------------------------------------
(* Statuses.                                                               *)

LEMMA KeptOne ==
    ASSUME KeptInv, NEW n \in Node, \A u \in Running(n)' \ cut'[n] : Kept(n, u)',
           \A m \in Node : m # n => /\ UNCHANGED <<session[m], local[m], pipe[m], answers[m], cut[m]>>
                                    /\ Running(m) \cap stat \subseteq stat'
    PROVE  KeptInv'
<1>1. ASSUME NEW m \in Node, m # n, NEW u \in Running(m)' \ cut'[m] PROVE Kept(m, u)'
  <2>1. /\ session'[m] = session[m] /\ local'[m] = local[m] /\ pipe'[m] = pipe[m]
        /\ answers'[m] = answers[m] /\ cut'[m] = cut[m] /\ Running(m) \cap stat \subseteq stat'
    BY <1>1
  <2>2. u \in Running(m) /\ Kept(m, u)
    BY <1>1, <2>1 DEF Running, KeptInv
  <2> QED
    BY <2>1, <2>2 DEF Kept, InRound, Uploading
<1> QED
  BY <1>1 DEF KeptInv

\* A node some of whose tasks are not missed is in a round of its own.
LEMMA KeptRound ==
    ASSUME RoundInv, KeptInv, NEW n \in Node, NEW u \in Running(n) \ cut[n]
    PROVE  RoundOf(n) /\ Kept(n, u)
BY DEF RoundInv, KeptInv, Mixed, Running

\* The callbacks of answers.
LEMMA HandlePreservesKept ==
    ASSUME ConstantsOK, TypeOK, RoundInv, KeptInv, NEW n \in Node, Callback(n)
    PROVE  KeptInv'
<1>1. PICK x : Handles(n, x)
  BY DEF Callback, Redis_KeepMaster_Callback, Redis_SyncPullList_Callback,
         Redis_SyncPullStat_Callback, Redis_SyncClusterNode_Callback
<1>2. /\ answers[n] \in Seq(Answer) /\ answers[n] # <<>> /\ answers'[n] = Tail(answers[n])
      /\ \A m \in Node : m # n => answers'[m] = answers[m]
      /\ cut' = cut /\ session' = session /\ stat' = stat
  BY <1>1, HandlesType DEF redisVars
<1>3. /\ \A i \in DOMAIN answers'[n] : i + 1 \in DOMAIN answers[n] /\ answers'[n][i] = answers[n][i + 1]
      /\ 1 \in DOMAIN answers[n] /\ Head(answers[n]) = answers[n][1]
  BY <1>2, Tails
<1>4. /\ \A m \in Node : m # n => pipe'[m] = pipe[m] /\ local'[m] = local[m]
      /\ Running(n)' = Running(n)
  <2>1. Running(n)' = Running(n)
    BY <1>2 DEF Running
  <2> QED
    BY <2>1 DEF Callback, Redis_KeepMaster_Callback, Redis_SyncPullList_Callback, Send, TypeOK,
                Redis_SyncPullStat_Callback, Redis_SyncClusterNode_Callback
<1>5. ASSUME NEW u \in Running(n) \ cut[n] PROVE Kept(n, u)'
  <2>1. Kept(n, u) /\ RoundOf(n) /\ InRound(n)
    BY <1>2, KeptRound DEF InRound
  <2>2. \A i \in DOMAIN answers'[n] : answers'[n][i].cmd = "STAT" => u \in answers'[n][i].val
    BY <1>3, <2>1 DEF Kept
  <2>3. u \in local'[n]
    <3>1. CASE Redis_SyncPullStat_Callback(n)
      <4>1. local'[n] = Head(answers[n]).val /\ Head(answers[n]).cmd = "STAT"
        BY <3>1 DEF Redis_SyncPullStat_Callback, Handles, TypeOK
      <4> QED
        BY <1>3, <2>1, <4>1 DEF Kept
    <3>2. CASE ~Redis_SyncPullStat_Callback(n)
      BY <2>1, <3>2 DEF Kept, Callback, Redis_KeepMaster_Callback, Redis_SyncPullList_Callback,
                        Redis_SyncClusterNode_Callback
    <3> QED
      BY <3>1, <3>2
  <2>4. InRound(n)' => u \in stat' \/ Uploading(n, u)'
    <3>1. CASE pipe' = pipe
      BY <1>2, <2>1, <3>1 DEF Kept, Uploading
    <3>2. CASE Handles(n, "RENEW") \/ Handles(n, "NODE")
      <4>1. pipe[n] = <<>>
        BY <2>1, <3>2, AnswerLast
      <4> QED
        BY <1>2, <2>1, <4>1 DEF Kept, Uploading
    <3> QED
      BY <3>1, <3>2 DEF Callback, Redis_KeepMaster_Callback, Redis_SyncPullList_Callback,
                        Redis_SyncPullStat_Callback, Redis_SyncClusterNode_Callback
  <2> QED
    BY <2>2, <2>3, <2>4 DEF Kept
<1>6. \A u \in Running(n)' \ cut'[n] : Kept(n, u)'
  BY <1>2, <1>4, <1>5
<1> QED
  BY <1>2, <1>4, <1>6, KeptOne

\* An order that is carried out between rounds makes good what was missed.
LEMMA ChannelPreservesKept ==
    ASSUME ConstantsOK, TypeOK, RoundInv, KeptInv, NEW n \in Node, Redis_NodeChannel_Callback(n)
    PROVE  KeptInv'
<1>1. PICK m : m = Head(channel[n])
  OBVIOUS
<1>2. /\ channel[n] # <<>> /\ UNCHANGED <<answers, stat>>
      /\ \A k \in Node : k # n =>
           UNCHANGED <<pipe[k], answers[k], channel[k], cut[k], local[k], session[k]>>
  BY ChannelFrame DEF Redis_NodeChannel_Callback, redisVars
<1>3. CASE InRound(n)
  <2>1. cut' = cut /\ cut[n] = Uid
    BY <1>2, <1>3 DEF Redis_NodeChannel_Callback, Handled, RoundInv, RoundOf, Mixed
  <2>2. Running(n)' \ cut'[n] = {}
    BY <2>1 DEF Running
  <2> QED
    BY <1>2, <2>2, KeptOne
<1>4. CASE ~InRound(n)
  <2>1. answers'[n] = <<>> /\ ~InRound(n)'
    BY <1>2, <1>4, ChannelPreservesRound DEF InRound
  <2>2. ASSUME NEW u \in Running(n)' \ cut'[n] PROVE u \in local'[n]
    <3>1. u \in Uid /\ session'[n][u] # Absent /\ u \notin cut'[n]
      BY <2>2 DEF Running
    <3>2. session[n][u] # Absent /\ u \notin cut[n] => u \in local[n]
      BY <3>1 DEF KeptInv, Running, Kept
    <3>3. CASE m.op = "ACTIVE" /\ m.uid \notin local[n]
      <4>1. /\ local'[n] = local[n] \cup {m.uid} /\ session' = [session EXCEPT ![n][m.uid] = m.cfg]
            /\ cut'[n] = cut[n] \ {m.uid}
        BY <1>1, <1>4, <3>3 DEF Redis_NodeChannel_Callback, Handled, TypeOK
      <4> QED
        BY <3>1, <3>2, <4>1 DEF TypeOK
    <3>4. CASE m.op = "INACTIVE" /\ m.uid \in local[n]
      <4>1. /\ local'[n] = local[n] \ {m.uid} /\ session' = [session EXCEPT ![n][m.uid] = Absent]
            /\ cut'[n] = cut[n] \ {m.uid}
        BY <1>1, <1>4, <3>4 DEF Redis_NodeChannel_Callback, Handled, TypeOK
      <4> QED
        BY <3>1, <3>2, <4>1 DEF TypeOK
    <3>5. CASE UNCHANGED <<local, session, cut>>
      BY <3>1, <3>2, <3>5
    <3> QED
      BY <1>1, <3>3, <3>4, <3>5 DEF Redis_NodeChannel_Callback
  <2>3. \A u \in Running(n)' \ cut'[n] : Kept(n, u)'
    BY <2>1, <2>2 DEF Kept
  <2> QED
    BY <1>2, <2>3, KeptOne
<1> QED
  BY <1>3, <1>4

\* Commands: a status is only deleted by the master that stopped its session.
LEMMA ServerPreservesKept ==
    ASSUME ConstantsOK, TypeOK, LockInv, RoundInv, KeptInv, NEW n \in Node, Server(n)
    PROVE  KeptInv'
<1>1. /\ pipe[n] # <<>> /\ pipe[n] \in Seq(Command) /\ pipe'[n] = Tail(pipe[n])
      /\ UNCHANGED <<up, session, local, cut>>
      /\ \A m \in Node : m # n => pipe'[m] = pipe[m] /\ answers'[m] = answers[m]
  BY ServerEffect DEF nodeVars
<1>2. /\ Head(pipe[n]) = pipe[n][1] /\ 1 \in DOMAIN pipe[n] /\ answers[n] \in Seq(Answer)
      /\ \A C : Has(pipe'[n], C) => Has(pipe[n], C)
  BY <1>1, Tails DEF TypeOK
<1>3. Head(pipe[n]).cmd # "HDEL" => stat \subseteq stat'
  BY ServerEffect
<1>4. Head(pipe[n]).cmd = "HDEL" => lock = n /\ (RoundOf(n) => ~InRound(n))
  <2>1. Head(pipe[n]).cmd = "HDEL" => Has(pipe[n], {"RECORD", "NODE", "PUBLISH", "HDEL"})
                                      /\ Has(pipe[n], {"PUBLISH", "HDEL"})
    BY <1>2 DEF Has
  <2> QED
    BY <2>1 DEF LockInv, Acts, RoundOf
<1>5. ASSUME NEW m \in Node, m # n PROVE Running(m) \cap stat \subseteq stat'
  <2>1. Head(pipe[n]).cmd = "HDEL" => Running(m) = {}
    BY <1>4, <1>5 DEF LockInv, Acts
  <2> QED
    BY <1>3, <2>1
<1>6. InRound(n)' => InRound(n)
  BY ServerPreservesRound
<1>7. ASSUME NEW u \in Running(n) \ cut[n] PROVE Kept(n, u)'
  <2>1. Kept(n, u) /\ RoundOf(n)
    BY KeptRound
  <2>2. InRound(n) => u \in stat'
    <3>1. CASE Uploading(n, u)
      BY <3>1, ServerEffect DEF Uploading, Rounds
    <3>2. CASE u \in stat
      BY <1>3, <1>4, <2>1, <3>2
    <3> QED
      BY <2>1, <3>1, <3>2 DEF Kept
  <2>3. \A i \in DOMAIN answers'[n] : answers'[n][i].cmd = "STAT" => u \in answers'[n][i].val
    <3>1. CASE answers'[n] = answers[n]
      BY <2>1, <3>1 DEF Kept
    <3>2. CASE answers'[n] # answers[n]
      <4>1. PICK a \in Answer : /\ a.cmd = Head(pipe[n]).cmd /\ (a.cmd = "STAT" => a.val = stat)
                                /\ answers'[n] = Append(answers[n], a) /\ Head(pipe[n]).cmd \in Rounds
                                /\ stat' = stat
        BY <3>2, ServerEffect
      <4>2. InRound(n)
        BY <1>2, <4>1 DEF InRound, Has
      <4>3. \A i \in DOMAIN answers'[n] :
              \/ i \in DOMAIN answers[n] /\ answers'[n][i] = answers[n][i]
              \/ answers'[n][i] = a
        BY <1>2, <4>1, Appends
      <4> QED
        BY <2>1, <2>2, <4>1, <4>2, <4>3 DEF Kept
    <3> QED
      BY <3>1, <3>2
  <2>4. InRound(n)' => u \in stat'
    BY <1>6, <2>2
  <2>5. u \in local'[n]
    BY <1>1, <2>1 DEF Kept
  <2> QED
    BY <2>3, <2>4, <2>5 DEF Kept
<1>8. \A u \in Running(n)' \ cut'[n] : Kept(n, u)'
  BY <1>1, <1>7 DEF Running
<1> QED
  BY <1>1, <1>5, <1>8, KeptOne

\* Statuses are removed by a request or by expiry: whoever may miss them is remembered.
LEMMA MissedPreservesKept ==
    ASSUME ConstantsOK, TypeOK, KeptInv, NEW us \in SUBSET Uid, stat' = stat \ us, Missed(us \cap stat),
           UNCHANGED <<nodeVars, wireVars>>
    PROVE  KeptInv'
<1>1. ASSUME NEW n \in Node, NEW u \in Running(n)' \ cut'[n] PROVE Kept(n, u)'
  <2>1. UNCHANGED <<session, local, pipe, answers>> /\ u \in Uid /\ session[n][u] # Absent
    BY <1>1 DEF nodeVars, wireVars, Running
  <2>2. u \notin cut[n] /\ (u \in us \cap stat /\ InRound(n) => Uploading(n, u))
    BY <1>1, <2>1 DEF Missed
  <2>3. Kept(n, u)
    BY <2>1, <2>2 DEF KeptInv, Running
  <2>4. InRound(n) => u \in stat' \/ Uploading(n, u)
    BY <2>2, <2>3 DEF Kept
  <2> QED
    BY <2>1, <2>3, <2>4 DEF Kept, InRound, Uploading
<1> QED
  BY <1>1 DEF KeptInv

\* What is sent when nothing is under way; otherwise any task may be missed.
LEMMA SendPreservesKept ==
    ASSUME ConstantsOK, TypeOK, KeptInv, NEW n \in Node, NEW cs \in Seq(Command), Send(n, cs), Overtaken(n),
           UNCHANGED <<stat, session, local, answers>>,
           \A u \in local[n] : Has(cs, Rounds) =>
             cs # <<>> /\ Head(cs).cmd = "HSETEX" /\ u \in Head(cs).uids
    PROVE  KeptInv'
<1>1. \A m \in Node : m # n => pipe'[m] = pipe[m] /\ cut'[m] = cut[m]
  BY SendType DEF Overtaken, TypeOK
<1>2. CASE Quiet(n)
  <2>1. pipe'[n] = cs /\ answers'[n] = <<>> /\ cut' = cut
    BY <1>2, QuietEmpty, SendEmpty DEF Overtaken
  <2>2. ASSUME NEW u \in Running(n)' \ cut'[n] PROVE Kept(n, u)'
    <3>1. u \in local[n]
      BY <2>1, <2>2 DEF KeptInv, Running, Kept
    <3>2. InRound(n)' => Has(cs, Rounds)
      BY <2>1 DEF InRound
    <3> QED
      BY <2>1, <3>1, <3>2 DEF Kept, Uploading
  <2> QED
    BY <1>1, <2>2, KeptOne
<1>3. CASE ~Quiet(n)
  <2>1. cut'[n] = Uid
    BY <1>3 DEF Overtaken, TypeOK
  <2>2. Running(n)' \ cut'[n] = {}
    BY <2>1 DEF Running
  <2> QED
    BY <1>1, <2>2, KeptOne
<1> QED
  BY <1>2, <1>3

LEMMA KeptStep ==
    ASSUME ConstantsOK, TypeOK, LockInv, RoundInv, KeptInv, [Next]_vars
    PROVE  KeptInv'
<1>1. ASSUME UNCHANGED <<session, local, pipe, answers, stat, cut>> PROVE KeptInv'
  BY <1>1 DEF KeptInv, Kept, Running, InRound, Uploading
<1>2. ASSUME Admin PROVE KeptInv'
  <2>1. CASE CleanupStat
    <3>1. cleanup \in SUBSET Uid /\ stat' = stat \ cleanup /\ Missed(cleanup \cap stat)
      BY <2>1 DEF CleanupStat, TypeOK
    <3> QED
      BY <2>1, <3>1, MissedPreservesKept DEF CleanupStat
  <2>2. CASE ~CleanupStat
    BY <1>1, <1>2, <2>2 DEF Admin, CreatePull, UpdatePull, DeletePull, RelayStart, RelayStop, Edit,
                            nodeVars, wireVars
  <2> QED
    BY <2>1, <2>2
<1>3. ASSUME NEW n \in Node, TimeoutCallback(n) PROVE KeptInv'
  <2> DEFINE cs == <<Upload(n), [cmd |-> "STAT"], [cmd |-> "RENEW"]>>
  <2>1. cs \in Seq(Command) /\ cs # <<>> /\ Head(cs) = Upload(n)
    BY DEF Upload, Command, TypeOK
  <2>2. Send(n, cs) /\ Overtaken(n) /\ UNCHANGED <<stat, session, local, answers>>
    BY <1>3 DEF TimeoutCallback, redisVars, nodeVars
  <2> HIDE DEF cs
  <2> QED
    BY <2>1, <2>2, SendPreservesKept DEF Upload
<1>4. ASSUME NEW n \in Node, NEW v \in Uid, ReportState(n, v) PROVE KeptInv'
  <2> DEFINE cs == <<[cmd |-> "HSETEX", uids |-> {v}]>>
  <2>1. cs \in Seq(Command) /\ ~Has(cs, Rounds)
    BY DEF Command, Has, Rounds
  <2>2. Send(n, cs) /\ Overtaken(n) /\ UNCHANGED <<stat, session, local, answers>>
    BY <1>4 DEF ReportState, redisVars, nodeVars
  <2> HIDE DEF cs
  <2> QED
    BY <2>1, <2>2, SendPreservesKept
<1>5. ASSUME NEW n \in Node, LoseMessage(n) PROVE KeptInv'
  BY <1>1, <1>5 DEF LoseMessage, redisVars, nodeVars
<1>6. ASSUME NEW n \in Node, Crash(n) PROVE KeptInv'
  <2>1. /\ UNCHANGED <<pipe, stat, cut>> /\ session'[n] = [u \in Uid |-> Absent]
        /\ \A m \in Node : m # n => /\ answers'[m] = answers[m] /\ local'[m] = local[m]
                                    /\ session'[m] = session[m]
    BY <1>6 DEF Crash, redisVars, TypeOK
  <2>2. Running(n)' = {}
    BY <2>1 DEF Running
  <2> QED
    BY <2>1, <2>2, KeptOne
<1>7. ASSUME NEW n \in Node, Restart(n) PROVE KeptInv'
  <2>1. /\ UNCHANGED <<answers, stat, session, local>> /\ ~up[n]
        /\ \A m \in Node : m # n => pipe'[m] = pipe[m] /\ cut'[m] = cut[m]
    BY <1>7 DEF Restart, redisVars, Send, TypeOK
  <2>2. Running(n)' = {}
    BY <2>1 DEF Running, LockInv, Dead
  <2> QED
    BY <2>1, <2>2, KeptOne
<1>8. ASSUME NEW v \in Uid, ExpireStat(v) PROVE KeptInv'
  <2>1. stat' = stat \ {v} /\ Missed({v}) /\ {v} \cap stat = {v} /\ UNCHANGED <<nodeVars, wireVars>>
    BY <1>8 DEF ExpireStat
  <2> QED
    BY <2>1, MissedPreservesKept
<1>9. ASSUME ExpireLock \/ UNCHANGED vars PROVE KeptInv'
  BY <1>1, <1>9 DEF ExpireLock, vars, redisVars, nodeVars, wireVars
<1> QED
  BY <1>2, <1>3, <1>4, <1>5, <1>6, <1>7, <1>8, <1>9, HandlePreservesKept, ChannelPreservesKept,
     ServerPreservesKept DEF Next, Fault

-----------------------------------------------------------------------------
(* A cluster of one node.                                                  *)

\* What executing the head of a pipeline leaves of it.
LEMMA TailKnown ==
    ASSUME NEW q \in Seq(Command), q # <<>>
    PROVE  /\ Tail(q) \in Seq(Command) /\ \A C : Has(Tail(q), C) => Has(q, C)
           /\ \A C : Has(q, C) => Head(q).cmd \in C \/ Has(Tail(q), C)
           /\ \A C : Head(q).cmd \in C => Has(q, C)
           /\ AsksLast(q) => /\ AsksLast(Tail(q))
                             /\ Head(q).cmd = "STAT" => ~Has(Tail(q), {"STAT", "HSETEX"})
           /\ Uploads(Tail(q)) \subseteq Uploads(q)
           /\ Head(q).cmd = "HSETEX" => Head(q).uids \subseteq Uploads(q)
           /\ \A u \in Deletes(q) : u \in Deletes(Tail(q)) \/ (Head(q).cmd = "HDEL" /\ Head(q).uid = u)
<1>1. /\ Tail(q) \in Seq(Command) /\ Head(q) \in Command /\ Head(q) = q[1] /\ 1 \in DOMAIN q
      /\ \A i \in DOMAIN Tail(q) : i \in Nat /\ i + 1 \in DOMAIN q /\ Tail(q)[i] = q[i + 1]
      /\ \A C : Has(Tail(q), C) => Has(q, C)
      /\ \A C : Has(q, C) => Head(q).cmd \in C \/ Has(Tail(q), C)
  BY Tails
<1>2. \A i \in DOMAIN q : i # 1 => i - 1 \in DOMAIN Tail(q) /\ q[i] = Tail(q)[i - 1]
  OBVIOUS
<1>3. \A C : Head(q).cmd \in C => Has(q, C)
  BY <1>1 DEF Has
<1>4. ASSUME AsksLast(q)
      PROVE  AsksLast(Tail(q)) /\ (Head(q).cmd = "STAT" => ~Has(Tail(q), {"STAT", "HSETEX"}))
  <2>1. \A i, j \in DOMAIN Tail(q) : i < j => i + 1 < j + 1
    BY <1>1
  <2>2. \A j \in DOMAIN Tail(q) : 1 < j + 1
    OBVIOUS
  <2> QED
    BY <1>1, <1>4, <2>1, <2>2 DEF AsksLast, Has
<1>5. Uploads(Tail(q)) \subseteq Uploads(q)
  BY <1>1 DEF Uploads
<1>6. Head(q).cmd = "HSETEX" => Head(q).uids \subseteq Uploads(q)
  BY <1>1 DEF Uploads, Command
<1>7. \A u \in Deletes(q) : u \in Deletes(Tail(q)) \/ (Head(q).cmd = "HDEL" /\ Head(q).uid = u)
  BY <1>1, <1>2 DEF Deletes
<1> QED
  BY <1>1, <1>3, <1>4, <1>5, <1>6, <1>7

\* A pipeline without uploads, questions and deletions.
LEMMA NothingAsked ==
    ASSUME NEW q, ~Has(q, {"STAT", "HSETEX"}) PROVE AsksLast(q) /\ Uploads(q) = {}
BY DEF Has, AsksLast, Uploads

LEMMA OnlyOne ==
    ASSUME Alone, NEW n \in Node, up'[n] => Only(n)'
    PROVE  OnlyInv'
BY DEF OnlyInv, Alone

\* Statuses that vanish for whatever reason.
LEMMA LessKnown ==
    ASSUME OnlyInv, UNCHANGED <<nodeVars, wireVars>>, stat' \subseteq stat
    PROVE  OnlyInv'
<1>1. UNCHANGED <<up, local, dist, session, pipe, answers, channel>>
  BY DEF nodeVars, wireVars
<1>2. ASSUME NEW n \in Node, Only(n) PROVE Only(n)'
  <2>1. AskedOnce(n)' /\ OrdersKnown(n)' /\ Differs(n)' = Differs(n)
    BY <1>1, <1>2 DEF Only, AskedOnce, OrdersKnown, Differs, Running
  <2>2. StatKnown(n)'
    BY <1>1, <1>2 DEF Only, StatKnown
  <2>3. \A u \in Differs(n) : NoStatus(n, u)'
    BY <1>1, <1>2 DEF Only, NoStatus
  <2> QED
    BY <2>1, <2>2, <2>3 DEF Only
<1> QED
  BY <1>1, <1>2 DEF OnlyInv

\* A round begins, or a session reports.
LEMMA SendPreservesOnly ==
    ASSUME ConstantsOK, TypeOK, Alone, NEW n \in Node, Quiet(n), Only(n),
           NEW cs \in Seq(Command), Send(n, cs), UNCHANGED <<stat, local, dist, session, answers, channel>>,
           AsksLast(cs), ~Has(cs, {"PUBLISH", "HDEL"}), Uploads(cs) \subseteq local[n]
    PROVE  OnlyInv'
<1>1. /\ pipe[n] = <<>> /\ answers[n] = <<>> /\ channel[n] = <<>> /\ pipe'[n] = cs
  BY QuietEmpty, SendEmpty
<1>2. stat \subseteq local[n]
  BY <1>1 DEF Only, StatKnown, Has, Deletes
<1>3. AskedOnce(n)' /\ OrdersKnown(n)'
  BY <1>1 DEF AskedOnce, OrdersKnown, Has
<1>4. StatKnown(n)'
  BY <1>1, <1>2 DEF StatKnown
<1>5. \A u \in Differs(n)' : NoStatus(n, u)'
  BY <1>1 DEF Only, Differs, Running, NoStatus
<1> QED
  BY <1>3, <1>4, <1>5, OnlyOne DEF Only

\* The callbacks of answers: what a round remembers to have distributed is what it orders.
LEMMA HandlePreservesOnly ==
    ASSUME ConstantsOK, TypeOK, Alone, RoundInv, OnlyInv, NEW n \in Node, Callback(n)
    PROVE  OnlyInv'
<1>1. PICK x : Handles(n, x)
  BY DEF Callback, Redis_KeepMaster_Callback, Redis_SyncPullList_Callback,
         Redis_SyncPullStat_Callback, Redis_SyncClusterNode_Callback
<1>2. /\ answers[n] \in Seq(Answer) /\ answers[n] # <<>> /\ answers'[n] = Tail(answers[n])
      /\ Head(answers[n]).cmd = x /\ UNCHANGED <<stat, session, channel>> /\ Only(n)
  BY <1>1, HandlesType DEF redisVars, OnlyInv
<1>3. /\ \A i \in DOMAIN answers'[n] : i + 1 \in DOMAIN answers[n] /\ answers'[n][i] = answers[n][i + 1]
      /\ 1 \in DOMAIN answers[n] /\ Head(answers[n]) = answers[n][1]
      /\ \A C : Has(answers'[n], C) => Has(answers[n], C)
      /\ \A C : Has(answers[n], C) => x \in C \/ Has(answers'[n], C)
  BY <1>2, Tails
<1>4. Running(n)' = Running(n)
  BY <1>2 DEF Running
<1>5. CASE x = "STAT" \/ x = "RECORD"
  <2>1. /\ pipe' = pipe /\ dist' = dist
        /\ \/ x = "STAT" /\ local'[n] = Head(answers[n]).val
           \/ x = "RECORD" /\ local' = local
    BY <1>1, <1>5 DEF Callback, Handles, Redis_KeepMaster_Callback, Redis_SyncPullList_Callback,
                      Redis_SyncPullStat_Callback, Redis_SyncClusterNode_Callback, TypeOK
  <2>2. AskedOnce(n)' /\ OrdersKnown(n)'
    BY <1>2, <1>3, <2>1 DEF Only, AskedOnce, OrdersKnown
  <2>3. StatKnown(n)'
    <3>1. \A i \in DOMAIN answers'[n] : answers'[n][i].cmd = "STAT" => stat' \subseteq answers'[n][i].val
      BY <1>2, <1>3 DEF Only, StatKnown
    <3>2. CASE x = "STAT"
      <4>1. Has(answers[n], {"STAT"}) /\ stat \subseteq local'[n]
        BY <1>2, <1>3, <2>1, <3>2 DEF Has, Only, StatKnown
      <4>2. ~Has(pipe[n], {"STAT", "HSETEX"})
        BY <1>2, <4>1 DEF Only, AskedOnce
      <4> QED
        BY <1>2, <2>1, <3>1, <4>1, <4>2, NothingAsked DEF StatKnown
    <3>3. CASE x = "RECORD"
      <4>1. Has(answers[n], {"STAT"}) => Has(answers'[n], {"STAT"})
        BY <1>3, <3>3
      <4> QED
        BY <1>2, <2>1, <3>1, <3>3, <4>1 DEF Only, StatKnown
    <3> QED
      BY <1>5, <3>2, <3>3
  <2>4. ASSUME NEW u \in Differs(n)' PROVE NoStatus(n, u)'
    <3>1. NoStatus(n, u)
      BY <1>2, <1>4, <2>1, <2>4 DEF Only, Differs
    <3>2. u \notin local'[n]
      BY <1>2, <1>3, <2>1, <3>1 DEF NoStatus
    <3> QED
      BY <1>2, <1>3, <2>1, <3>1, <3>2 DEF NoStatus
  <2> QED
    BY <2>2, <2>3, <2>4, OnlyOne DEF Only
<1>6. CASE x \in {"RENEW", "NODE"}
  <2>1. /\ answers'[n] = <<>> /\ pipe[n] = <<>> /\ channel[n] = <<>>
        /\ ~Has(answers[n], {"STAT"})
    <3>1. answers'[n] = <<>> /\ pipe[n] = <<>> /\ channel[n] = <<>>
      BY <1>1, <1>6, AnswerLast DEF RoundInv, Mixed, Alone
    <3>2. Has(answers[n], {"STAT"}) => x = "STAT" \/ Has(answers'[n], {"STAT"})
      BY <1>3
    <3>3. ~Has(answers'[n], {"STAT"})
      BY <3>1 DEF Has
    <3> QED
      BY <1>6, <3>1, <3>2, <3>3
  <2>2. stat \subseteq local[n] /\ local' = local
    <3>1. Deletes(pipe[n]) = {} /\ ~Has(pipe[n], {"STAT"})
      BY <2>1 DEF Deletes, Has
    <3> QED
      BY <1>1, <1>2, <1>6, <2>1, <3>1
         DEF Only, StatKnown, Callback, Handles, Redis_KeepMaster_Callback,
             Redis_SyncPullList_Callback, Redis_SyncPullStat_Callback, Redis_SyncClusterNode_Callback
  <2>3. CASE Redis_KeepMaster_Callback(n)
    <3> DEFINE cs == <<[cmd |-> "RECORD"], [cmd |-> "STAT"], [cmd |-> "NODE"]>>
    <3>1. dist' = dist /\ (Send(n, cs) \/ pipe' = pipe)
      BY <2>3 DEF Redis_KeepMaster_Callback
    <3>2. /\ cs \in Seq(Command) /\ AsksLast(cs) /\ ~Has(cs, {"HSETEX", "PUBLISH", "HDEL"})
          /\ Has(cs, {"STAT"}) /\ Uploads(cs) = {}
      BY DEF Command, AsksLast, Has, Uploads
    <3> HIDE DEF cs
    <3>3. pipe'[n] = cs \/ pipe'[n] = <<>>
      BY <2>1, <3>1, <3>2, SendEmpty
    <3>4. /\ AsksLast(pipe'[n]) /\ ~Has(pipe'[n], {"HSETEX", "PUBLISH", "HDEL"})
          /\ Uploads(pipe'[n]) = {}
      BY <3>2, <3>3 DEF Has, AsksLast, Uploads
    <3>5. AskedOnce(n)' /\ OrdersKnown(n)'
      BY <1>2, <2>1, <3>4 DEF AskedOnce, OrdersKnown, Has
    <3>6. StatKnown(n)'
      <4>1. stat' \subseteq local'[n]
        BY <1>2, <2>2
      <4>2. \A i \in DOMAIN answers'[n] : FALSE
        BY <2>1
      <4> QED
        BY <3>4, <4>1, <4>2 DEF StatKnown
    <3>7. ASSUME NEW u \in Differs(n)' PROVE NoStatus(n, u)'
      <4>1. NoStatus(n, u)
        BY <1>2, <1>4, <3>1, <3>7 DEF Only, Differs
      <4> QED
        BY <1>2, <2>1, <2>2, <3>4, <4>1 DEF NoStatus
    <3> QED
      BY <3>5, <3>6, <3>7, OnlyOne DEF Only
  <2>4. CASE Redis_SyncClusterNode_Callback(n)
    <3> DEFINE cs == SetToSeq({[cmd |-> "PUBLISH", msg |-> m] : m \in Orders(n)})
               K == {[cmd |-> "PUBLISH", msg |-> m] : m \in Orders(n)}
    <3>1. dist'[n] = Remember(n) /\ Send(n, cs)
      BY <2>4 DEF Redis_SyncClusterNode_Callback, TypeOK
    <3>2. cs \in Seq(Command) /\ \A i \in DOMAIN cs : cs[i] \in K
      <4>1. cs \in Seq(Publication) /\ cs \in [1 .. Cardinality(K) -> K]
        BY OrderSeq
      <4>2. Publication \subseteq Command
        BY DEF Publication, Command
      <4> HIDE DEF cs, K
      <4>3. cs \in Seq(Command)
        BY <4>1, <4>2
      <4> QED
        BY <4>1, <4>3
    <3>3. ASSUME NEW i \in DOMAIN cs
          PROVE  /\ cs[i].cmd = "PUBLISH"
                 /\ cs[i].msg.op = "ACTIVE" => cs[i].msg.cfg = Remember(n)[cs[i].msg.uid]
      <4>1. PICK m \in Orders(n) : cs[i] = [cmd |-> "PUBLISH", msg |-> m]
        BY <3>2
      <4>2. m.op = "ACTIVE" => m.uid \in Starts(n) /\ m.cfg = records[n][m.uid].cfg
        BY DEF Orders
      <4> QED
        BY <4>1, <4>2 DEF Remember, Starts
    <3> HIDE DEF cs, K
    <3>4. pipe'[n] = cs
      BY <2>1, <3>1, <3>2, SendEmpty
    <3>5. ~Has(cs, {"STAT", "HSETEX"}) /\ ~Has(cs, {"HSETEX"})
      BY <3>3 DEF Has
    <3>6. AskedOnce(n)' /\ OrdersKnown(n)'
      <4>1. AskedOnce(n)'
        BY <3>4, <3>5, NothingAsked DEF AskedOnce
      <4>2. OrdersKnown(n)'
        BY <1>2, <2>1, <3>1, <3>3, <3>4 DEF OrdersKnown
      <4> QED
        BY <4>1, <4>2
    <3>7. StatKnown(n)'
      <4>1. stat' \subseteq local'[n]
        BY <1>2, <2>2
      <4>2. \A i \in DOMAIN answers'[n] : FALSE
        BY <2>1
      <4>3. Uploads(pipe'[n]) = {}
        BY <3>4, <3>5, NothingAsked
      <4> QED
        BY <4>1, <4>2, <4>3 DEF StatKnown
    <3>8. ASSUME NEW u \in Differs(n)' PROVE NoStatus(n, u)'
      <4>1. u \in Running(n) /\ u \in Uid /\ Remember(n)[u] \notin {Absent, session[n][u]}
        BY <1>2, <1>4, <3>1, <3>8 DEF Differs, Running
      <4>2. CASE u \in Starts(n)
        <5>1. u \notin local'[n] /\ u \notin stat'
          BY <1>2, <2>2, <4>2 DEF Starts
        <5>2. \A i \in DOMAIN answers'[n] : FALSE
          BY <2>1
        <5>3. Uploads(pipe'[n]) = {}
          BY <3>4, <3>5, NothingAsked
        <5> QED
          BY <5>1, <5>2, <5>3 DEF NoStatus
      <4>3. CASE u \notin Starts(n)
        <5>1. Remember(n)[u] = dist[n][u]
          BY <4>1, <4>3 DEF Remember
        <5>2. NoStatus(n, u)
          BY <1>2, <4>1, <5>1 DEF Only, Differs
        <5> QED
          BY <1>2, <2>1, <2>2, <3>4, <3>5, <5>2, NothingAsked DEF NoStatus
      <4> QED
        BY <4>2, <4>3
    <3> QED
      BY <3>6, <3>7, <3>8, OnlyOne DEF Only
  <2> QED
    BY <1>1, <1>6, <2>3, <2>4 DEF Callback, Handles, Redis_SyncPullList_Callback,
                                  Redis_SyncPullStat_Callback
<1> QED
  BY <1>1, <1>5, <1>6 DEF Callback, Handles, Redis_KeepMaster_Callback, Redis_SyncPullList_Callback,
                          Redis_SyncPullStat_Callback, Redis_SyncClusterNode_Callback

\* Orders are carried out.
LEMMA ChannelPreservesOnly ==
    ASSUME ConstantsOK, TypeOK, Alone, RoundInv, OnlyInv, NEW n \in Node, Redis_NodeChannel_Callback(n)
    PROVE  OnlyInv'
<1>1. /\ channel[n] # <<>> /\ channel[n] \in Seq(Message) /\ channel'[n] = Tail(channel[n])
      /\ UNCHANGED <<answers, stat, dist>> /\ Only(n)
  BY DEF Redis_NodeChannel_Callback, redisVars, TypeOK, OnlyInv
<1>2. PICK m \in Message : m = Head(channel[n]) /\ m = channel[n][1]
  BY <1>1
<1>3. /\ \A i \in DOMAIN channel'[n] : i + 1 \in DOMAIN channel[n] /\ channel'[n][i] = channel[n][i + 1]
      /\ 1 \in DOMAIN channel[n]
  BY <1>1
<1>4. answers[n] = <<>> /\ ~Has(pipe[n], {"STAT", "HSETEX"}) /\ ~Has(pipe[n], {"STAT"})
  <2>1. ~InRound(n) /\ ~Has(pipe[n], {"HSETEX"})
    BY <1>1 DEF RoundInv, Mixed, Alone, RoundOf, Only, AskedOnce
  <2> QED
    BY <2>1 DEF InRound, Has, Rounds
<1>5. stat \subseteq local[n] \cup Deletes(pipe[n])
  BY <1>1, <1>4 DEF Only, StatKnown, Has
<1>6. m.op = "ACTIVE" => m.cfg = dist[n][m.uid]
  BY <1>1, <1>2, <1>3 DEF Only, OrdersKnown
<1>7. ASSUME UNCHANGED pipe, local[n] \subseteq local'[n],
             \A u \in Differs(n)' : u \in Differs(n) /\ u \notin local'[n]
      PROVE  OnlyInv'
  <2>1. AskedOnce(n)' /\ OrdersKnown(n)'
    BY <1>1, <1>3, <1>4, <1>7, NothingAsked DEF AskedOnce, OrdersKnown, Only, Has
  <2>2. StatKnown(n)'
    BY <1>1, <1>4, <1>5, <1>7, NothingAsked DEF StatKnown
  <2>3. \A u \in Differs(n)' : NoStatus(n, u)'
    BY <1>1, <1>7 DEF Only, NoStatus
  <2> QED
    BY <2>1, <2>2, <2>3, OnlyOne DEF Only
<1>8. CASE m.op = "ACTIVE" /\ m.uid \notin local[n]
  <2>1. /\ pipe' = pipe /\ local'[n] = local[n] \cup {m.uid}
        /\ session' = [session EXCEPT ![n][m.uid] = m.cfg]
    BY <1>2, <1>8 DEF Redis_NodeChannel_Callback, TypeOK
  <2>2. /\ m.uid \in Uid /\ session'[n][m.uid] = m.cfg
        /\ \A u \in Uid : u # m.uid => session'[n][u] = session[n][u]
    BY <2>1 DEF TypeOK, Message
  <2>3. ASSUME NEW u \in Differs(n)' PROVE u \in Differs(n) /\ u \notin local'[n]
    <3>1. u \in Uid /\ session'[n][u] # Absent /\ dist[n][u] \notin {Absent, session'[n][u]}
      BY <1>1, <2>3 DEF Differs, Running
    <3>2. u # m.uid
      BY <1>6, <1>8, <2>2, <3>1
    <3>3. u \in Differs(n)
      BY <2>2, <3>1, <3>2 DEF Differs, Running
    <3> QED
      BY <1>1, <2>1, <3>2, <3>3 DEF Only, NoStatus
  <2> QED
    BY <1>7, <2>1, <2>3
<1>9. CASE m.op = "INACTIVE" /\ m.uid \in local[n]
  <2> DEFINE cs == <<[cmd |-> "HDEL", uid |-> m.uid]>>
  <2>1. /\ Send(n, cs) /\ local'[n] = local[n] \ {m.uid}
        /\ session' = [session EXCEPT ![n][m.uid] = Absent]
    <3>1. local[n] \subseteq Uid /\ local \in [Node -> SUBSET Uid]
      BY DEF TypeOK
    <3>2. /\ Send(n, cs) /\ local' = [local EXCEPT ![n] = @ \ {m.uid}]
          /\ session' = [session EXCEPT ![n][m.uid] = Absent]
      BY <1>2, <1>9 DEF Redis_NodeChannel_Callback
    <3> HIDE DEF cs
    <3> QED
      BY <3>1, <3>2
  <2>2. /\ m.uid \in Uid /\ session'[n][m.uid] = Absent
        /\ \A u \in Uid : u # m.uid => session'[n][u] = session[n][u]
    BY <2>1 DEF TypeOK, Message
  <2>3. /\ cs \in Seq(Command) /\ cs[1].cmd = "HDEL" /\ cs[1].uid = m.uid
        /\ DOMAIN cs = {1} /\ Len(cs) = 1
    BY <2>2 DEF Command
  <2> HIDE DEF cs
  <2>4. pipe[n] \in Seq(Command) /\ pipe'[n] = pipe[n] \o cs
    BY <2>1, <2>3, SendType DEF TypeOK
  <2>5. /\ \A C : Has(pipe'[n], C) <=> Has(pipe[n], C) \/ Has(cs, C)
        /\ \A i \in DOMAIN pipe'[n] : \/ i \in DOMAIN pipe[n] /\ pipe'[n][i] = pipe[n][i]
                                      \/ pipe'[n][i] = cs[1]
    BY <2>3, <2>4, Concats
  <2>6. /\ \A i \in DOMAIN pipe[n] : i \in DOMAIN pipe'[n] /\ pipe'[n][i] = pipe[n][i]
        /\ 1 + Len(pipe[n]) \in DOMAIN pipe'[n] /\ pipe'[n][1 + Len(pipe[n])] = cs[1]
    <3>1. ASSUME NEW q \in Seq(Command), NEW t \in Seq(Command)
          PROVE  /\ \A i \in DOMAIN q : i \in DOMAIN (q \o t) /\ (q \o t)[i] = q[i]
                 /\ \A i \in DOMAIN t : i + Len(q) \in DOMAIN (q \o t) /\ (q \o t)[i + Len(q)] = t[i]
      <4>1. \A i \in DOMAIN q : i \in DOMAIN (q \o t) /\ (q \o t)[i] = q[i]
        OBVIOUS
      <4>2. \A i \in DOMAIN t : i + Len(q) \in DOMAIN (q \o t) /\ (q \o t)[i + Len(q)] = t[i]
        OBVIOUS
      <4> QED
        BY <4>1, <4>2
    <3> QED
      BY <2>3, <2>4, <3>1
  <2>7. ~Has(pipe'[n], {"STAT", "HSETEX"}) /\ ~Has(pipe'[n], {"HSETEX"}) /\ ~Has(pipe'[n], {"STAT"})
    BY <1>4, <2>3, <2>5 DEF Has
  <2>8. Deletes(pipe[n]) \cup {m.uid} \subseteq Deletes(pipe'[n])
    BY <2>2, <2>3, <2>6 DEF Deletes
  <2>9. AskedOnce(n)'
    BY <1>1, <1>4, <2>7, NothingAsked DEF AskedOnce, Has
  <2>10. OrdersKnown(n)'
    <3>1. \A i \in DOMAIN pipe'[n] : pipe'[n][i].cmd = "PUBLISH"
                                    => i \in DOMAIN pipe[n] /\ pipe'[n][i] = pipe[n][i]
      BY <2>3, <2>5
    <3>2. OrdersKnown(n)
      BY <1>1 DEF Only
    <3>3. dist' = dist
      BY <1>1
    <3>4. \A i \in DOMAIN channel'[n] : channel'[n][i].op = "ACTIVE"
                        => channel'[n][i].cfg = dist'[n][channel'[n][i].uid]
      BY <1>3, <3>2, <3>3 DEF OrdersKnown
    <3> QED
      BY <3>1, <3>2, <3>3, <3>4 DEF OrdersKnown
  <2>11. StatKnown(n)'
    BY <1>1, <1>4, <1>5, <2>1, <2>7, <2>8, NothingAsked DEF StatKnown
  <2>12. ASSUME NEW u \in Differs(n)' PROVE NoStatus(n, u)'
    <3>1. u \in Uid /\ session'[n][u] # Absent /\ dist[n][u] \notin {Absent, session'[n][u]}
      BY <1>1, <2>12 DEF Differs, Running
    <3>2. u \in Differs(n)
      BY <2>2, <3>1 DEF Differs, Running
    <3>3. NoStatus(n, u)
      BY <1>1, <3>2 DEF Only
    <3> QED
      BY <1>1, <2>1, <2>7, <3>3, NothingAsked DEF NoStatus
  <2> QED
    BY <2>9, <2>10, <2>11, <2>12, OnlyOne DEF Only
<1>10. CASE (m.op = "ACTIVE") <=> (m.uid \in local[n])
  <2>1. UNCHANGED <<local, session, pipe>>
    BY <1>2, <1>10 DEF Redis_NodeChannel_Callback
  <2>2. ASSUME NEW u \in Differs(n)' PROVE u \in Differs(n) /\ u \notin local'[n]
    <3>1. u \in Differs(n)
      BY <1>1, <2>1, <2>2 DEF Differs, Running
    <3> QED
      BY <1>1, <2>1, <3>1 DEF Only, NoStatus
  <2> QED
    BY <1>7, <2>1, <2>2
<1> QED
  BY <1>2, <1>8, <1>9, <1>10 DEF Message

\* Commands.
LEMMA ServerPreservesOnly ==
    ASSUME ConstantsOK, TypeOK, Alone, LockInv, RoundInv, OnlyInv, NEW n \in Node, Server(n)
    PROVE  OnlyInv'
<1> SUFFICES ASSUME up[n] PROVE Only(n)'
  <2>1. up' = up
    BY ServerEffect DEF nodeVars
  <2> QED
    BY <2>1, OnlyOne
<1>1. PICK h \in Command : h = Head(pipe[n])
  <2>1. pipe[n] # <<>> /\ pipe[n] \in Seq(Command)
    BY ServerEffect
  <2> QED
    BY <2>1
<1>2. /\ pipe[n] # <<>> /\ pipe[n] \in Seq(Command) /\ pipe'[n] = Tail(pipe[n])
      /\ UNCHANGED <<session, local, dist>> /\ Only(n) /\ answers[n] \in Seq(Answer)
      /\ channel[n] \in Seq(Message)
  BY ServerEffect DEF nodeVars, OnlyInv, TypeOK
<1>3. /\ \A C : Has(pipe'[n], C) => Has(pipe[n], C)
      /\ \A C : Has(pipe[n], C) => h.cmd \in C \/ Has(pipe'[n], C)
      /\ \A C : h.cmd \in C => Has(pipe[n], C)
      /\ AsksLast(pipe'[n]) /\ (h.cmd = "STAT" => ~Has(pipe'[n], {"STAT", "HSETEX"}))
      /\ Uploads(pipe'[n]) \subseteq Uploads(pipe[n])
      /\ h.cmd = "HSETEX" => h.uids \subseteq Uploads(pipe[n])
      /\ \A u \in Deletes(pipe[n]) : u \in Deletes(pipe'[n]) \/ (h.cmd = "HDEL" /\ h.uid = u)
  BY <1>1, <1>2, TailKnown DEF Only, AskedOnce
<1>4. \A i \in DOMAIN pipe'[n] : i + 1 \in DOMAIN pipe[n] /\ pipe'[n][i] = pipe[n][i + 1]
  BY <1>2, Tails
<1>5. Differs(n)' = Differs(n)
  BY <1>2 DEF Differs, Running
<1>6. OrdersKnown(n)'
  <2>1. \A i \in DOMAIN pipe'[n] : pipe'[n][i].cmd = "PUBLISH" /\ pipe'[n][i].msg.op = "ACTIVE"
          => pipe'[n][i].msg.cfg = dist[n][pipe'[n][i].msg.uid]
    BY <1>2, <1>4 DEF Only, OrdersKnown
  <2>2. CASE channel'[n] = channel[n]
    BY <1>2, <2>1, <2>2 DEF Only, OrdersKnown
  <2>3. CASE channel'[n] # channel[n]
    <3>1. h.cmd = "PUBLISH" /\ channel'[n] = Append(channel[n], h.msg)
      BY <1>1, <2>3, ServerEffect
    <3>2. h = pipe[n][1] /\ 1 \in DOMAIN pipe[n]
      BY <1>1, <1>2, Tails
    <3>3. h.msg.op = "ACTIVE" => h.msg.cfg = dist[n][h.msg.uid]
      BY <1>2, <3>1, <3>2 DEF Only, OrdersKnown
    <3>4. h.msg \in Message
      BY <3>1 DEF Command
    <3>5. \A i \in DOMAIN channel'[n] :
            (i \in DOMAIN channel[n] /\ channel'[n][i] = channel[n][i]) \/ channel'[n][i] = h.msg
      BY <1>2, <3>1, <3>4
    <3> QED
      BY <1>2, <2>1, <3>3, <3>5 DEF Only, OrdersKnown
  <2> QED
    BY <2>2, <2>3
<1>7. Has(pipe'[n], {"HSETEX"}) => channel'[n] = <<>> /\ ~Has(pipe'[n], {"PUBLISH", "HDEL"})
  <2>1. ASSUME Has(pipe'[n], {"HSETEX"}) PROVE channel'[n] = <<>> /\ ~Has(pipe'[n], {"PUBLISH", "HDEL"})
    <3>1. channel[n] = <<>> /\ ~Has(pipe[n], {"PUBLISH", "HDEL"})
      BY <1>2, <1>3, <2>1 DEF Only, AskedOnce
    <3>2. h.cmd # "PUBLISH"
      BY <1>3, <3>1
    <3> QED
      BY <1>1, <1>3, <3>1, <3>2, ServerEffect
  <2> QED
    BY <2>1
<1>8. CASE answers' = answers /\ h.cmd = "HSETEX" /\ stat' = stat \cup h.uids
  <2>1. Has(pipe[n], {"STAT", "HSETEX"}) /\ ~Has(answers[n], {"STAT"})
    BY <1>2, <1>3, <1>8 DEF Only, AskedOnce
  <2>2. \A i \in DOMAIN answers[n] : answers[n][i].cmd # "STAT"
    BY <2>1 DEF Has
  <2>3. AskedOnce(n)'
    BY <1>3, <1>7, <1>8, <2>1 DEF AskedOnce
  <2>4. StatKnown(n)'
    <3>1. ASSUME ~Has(pipe'[n], {"STAT"})
          PROVE  stat' \subseteq local[n] \cup Deletes(pipe'[n]) /\ Uploads(pipe'[n]) \subseteq local[n]
      <4>1. ~Has(pipe[n], {"STAT"})
        BY <1>3, <1>8, <3>1
      <4>2. stat \subseteq local[n] \cup Deletes(pipe[n]) /\ Uploads(pipe[n]) \subseteq local[n]
        BY <1>2, <2>1, <4>1 DEF Only, StatKnown
      <4> QED
        BY <1>3, <1>8, <4>2
    <3> QED
      BY <1>2, <1>8, <2>2, <3>1 DEF StatKnown
  <2>5. \A u \in Differs(n) : NoStatus(n, u)'
    BY <1>2, <1>3, <1>8 DEF Only, NoStatus
  <2> QED
    BY <1>5, <1>6, <2>3, <2>4, <2>5 DEF Only
<1>9. CASE /\ answers' = answers
           /\ \/ h.cmd = "HDEL" /\ stat' = stat \ {h.uid}
              \/ h.cmd = "PUBLISH" /\ stat' = stat
  <2>1. Has(pipe'[n], {"STAT"}) \/ Has(pipe'[n], {"STAT", "HSETEX"}) =>
          Has(pipe[n], {"STAT"}) \/ Has(pipe[n], {"STAT", "HSETEX"})
    BY <1>3
  <2>2. AskedOnce(n)'
    BY <1>2, <1>3, <1>7, <1>9 DEF Only, AskedOnce
  <2>3. StatKnown(n)'
    <3>1. ASSUME ~Has(pipe'[n], {"STAT"}), ~Has(answers[n], {"STAT"})
          PROVE  stat' \subseteq local[n] \cup Deletes(pipe'[n]) /\ Uploads(pipe'[n]) \subseteq local[n]
      <4>1. ~Has(pipe[n], {"STAT"})
        BY <1>3, <1>9, <3>1
      <4>2. stat \subseteq local[n] \cup Deletes(pipe[n]) /\ Uploads(pipe[n]) \subseteq local[n]
        BY <1>2, <3>1, <4>1 DEF Only, StatKnown
      <4> QED
        BY <1>3, <1>9, <4>2
    <3>2. \A i \in DOMAIN answers[n] : answers[n][i].cmd = "STAT" => stat' \subseteq answers[n][i].val
      BY <1>2, <1>9 DEF Only, StatKnown
    <3> QED
      BY <1>2, <1>9, <3>1, <3>2 DEF StatKnown
  <2>4. \A u \in Differs(n) : NoStatus(n, u)'
    BY <1>2, <1>3, <1>9 DEF Only, NoStatus
  <2> QED
    BY <1>5, <1>6, <2>2, <2>3, <2>4 DEF Only
<1>10. ASSUME NEW a \in Answer, a.cmd = h.cmd, a.cmd = "STAT" => a.val = stat, h.cmd \in Rounds,
              answers'[n] = Append(answers[n], a), stat' = stat
       PROVE  Only(n)'
  <2>1. /\ \A i \in DOMAIN answers'[n] : \/ i \in DOMAIN answers[n] /\ answers'[n][i] = answers[n][i]
                                         \/ answers'[n][i] = a
        /\ \A C : Has(answers'[n], C) <=> Has(answers[n], C) \/ a.cmd \in C
    BY <1>2, <1>10, Appends
  <2>2. Has(answers'[n], {"STAT"}) => ~Has(pipe'[n], {"STAT", "HSETEX"})
    <3>1. CASE h.cmd = "STAT"
      BY <1>3, <3>1
    <3>2. CASE h.cmd # "STAT"
      <4>1. Has(answers'[n], {"STAT"}) => Has(answers[n], {"STAT"})
        BY <1>10, <2>1, <3>2
      <4> QED
        BY <1>2, <1>3, <4>1 DEF Only, AskedOnce
    <3> QED
      BY <3>1, <3>2
  <2>3. AskedOnce(n)'
    BY <1>3, <1>7, <2>2 DEF AskedOnce
  <2>4. StatKnown(n)'
    <3>1. ASSUME ~Has(pipe'[n], {"STAT"}), ~Has(answers'[n], {"STAT"})
          PROVE  stat \subseteq local[n] \cup Deletes(pipe'[n]) /\ Uploads(pipe'[n]) \subseteq local[n]
      <4>1. ~Has(answers[n], {"STAT"}) /\ h.cmd # "STAT"
        BY <1>10, <2>1, <3>1
      <4>2. ~Has(pipe[n], {"STAT"})
        BY <1>3, <3>1, <4>1
      <4>3. stat \subseteq local[n] \cup Deletes(pipe[n]) /\ Uploads(pipe[n]) \subseteq local[n]
        BY <1>2, <4>1, <4>2 DEF Only, StatKnown
      <4> QED
        BY <1>3, <1>10, <4>3 DEF Rounds
    <3>2. \A i \in DOMAIN answers'[n] : answers'[n][i].cmd = "STAT" => stat \subseteq answers'[n][i].val
      BY <1>2, <1>10, <2>1 DEF Only, StatKnown
    <3> QED
      BY <1>2, <1>10, <3>1, <3>2 DEF StatKnown
  <2>5. \A u \in Differs(n) : NoStatus(n, u)'
    BY <1>2, <1>3, <1>10, <2>1 DEF Only, NoStatus
  <2> QED
    BY <1>5, <1>6, <2>3, <2>4, <2>5 DEF Only
<1> QED
  BY <1>1, <1>8, <1>9, <1>10, ServerEffect

LEMMA OnlyStep ==
    ASSUME ConstantsOK, TypeOK, LockInv, RoundInv, OnlyInv, Alone, [Next]_vars
    PROVE  OnlyInv'
<1>1. ASSUME Admin PROVE OnlyInv'
  <2>1. UNCHANGED <<nodeVars, wireVars>> /\ stat' \subseteq stat
    BY <1>1 DEF Admin, CreatePull, UpdatePull, DeletePull, RelayStart, RelayStop, CleanupStat, Edit
  <2> QED
    BY <2>1, LessKnown
<1>2. ASSUME NEW n \in Node, TimeoutCallback(n) PROVE OnlyInv'
  <2> DEFINE cs == <<Upload(n), [cmd |-> "STAT"], [cmd |-> "RENEW"]>>
  <2>1. cs \in Seq(Command) /\ ~Has(cs, {"PUBLISH", "HDEL"}) /\ AsksLast(cs)
    <3>1. Asked(n, cs)
      BY AskedSeq
    <3> HIDE DEF cs
    <3> QED
      BY <3>1 DEF Asked, Has, AsksLast
  <2>2. Uploads(cs) \subseteq local[n]
    <3>1. Asked(n, cs)
      BY AskedSeq
    <3> HIDE DEF cs
    <3> QED
      BY <3>1 DEF Asked, Uploads
  <2>3. /\ Send(n, cs) /\ Quiet(n) /\ Only(n)
        /\ UNCHANGED <<stat, local, dist, session, answers, channel>>
    BY <1>2 DEF TimeoutCallback, Alone, OnlyInv, redisVars, nodeVars
  <2> HIDE DEF cs
  <2> QED
    BY <2>1, <2>2, <2>3, SendPreservesOnly
<1>3. ASSUME NEW n \in Node, NEW v \in Uid, ReportState(n, v) PROVE OnlyInv'
  <2> DEFINE cs == <<[cmd |-> "HSETEX", uids |-> {v}]>>
  <2>1. cs \in Seq(Command) /\ ~Has(cs, {"PUBLISH", "HDEL"}) /\ AsksLast(cs)
    BY DEF Command, Has, AsksLast
  <2>2. Uploads(cs) \subseteq local[n]
    BY <1>3 DEF Uploads, ReportState
  <2>3. /\ Send(n, cs) /\ Quiet(n) /\ Only(n)
        /\ UNCHANGED <<stat, local, dist, session, answers, channel>>
    BY <1>3 DEF ReportState, Alone, OnlyInv, redisVars, nodeVars
  <2> HIDE DEF cs
  <2> QED
    BY <2>1, <2>2, <2>3, SendPreservesOnly
<1>4. ASSUME NEW n \in Node, LoseMessage(n) PROVE OnlyInv'
  <2>1. /\ UNCHANGED <<stat, local, dist, session, answers, pipe>> /\ channel'[n] = <<>> /\ Only(n)
    BY <1>4 DEF LoseMessage, redisVars, nodeVars, OnlyInv, TypeOK
  <2>2. AskedOnce(n)' /\ StatKnown(n)' /\ Differs(n)' = Differs(n)
    BY <2>1 DEF Only, AskedOnce, StatKnown, Differs, Running
  <2>3. OrdersKnown(n)'
    BY <2>1 DEF Only, OrdersKnown
  <2>4. \A u \in Differs(n) : NoStatus(n, u)'
    BY <2>1 DEF Only, NoStatus
  <2> QED
    BY <2>2, <2>3, <2>4, OnlyOne DEF Only
<1>5. ASSUME NEW n \in Node, Crash(n) PROVE OnlyInv'
  <2>1. ~up'[n]
    BY <1>5 DEF Crash, TypeOK
  <2> QED
    BY <2>1, OnlyOne
<1>6. ASSUME NEW n \in Node, Restart(n) PROVE OnlyInv'
  <2> DEFINE cs == <<[cmd |-> "STAT"]>>
  <2>1. cs \in Seq(Command) /\ ~Has(cs, {"HSETEX", "PUBLISH", "HDEL"}) /\ Has(cs, {"STAT"}) /\ AsksLast(cs)
    BY DEF Command, Has, AsksLast
  <2>2. Send(n, cs) /\ UNCHANGED <<session, answers, channel>> /\ Dead(n) /\ pipe[n] = <<>>
    BY <1>6 DEF Restart, LockInv
  <2> HIDE DEF cs
  <2>3. pipe'[n] = cs /\ answers'[n] = <<>> /\ channel'[n] = <<>> /\ Running(n)' = {}
    BY <2>1, <2>2, SendEmpty DEF Dead, Running
  <2>4. ~Has(cs, {"HSETEX"}) /\ \A i \in DOMAIN cs : cs[i].cmd # "PUBLISH"
    BY <2>1 DEF Has
  <2>5. AskedOnce(n)' /\ StatKnown(n)' /\ OrdersKnown(n)' /\ Differs(n)' = {}
    BY <2>1, <2>3, <2>4 DEF AskedOnce, StatKnown, OrdersKnown, Differs, Has
  <2> QED
    BY <2>5, OnlyOne DEF Only
<1>7. ASSUME NEW u \in Uid, ExpireStat(u) PROVE OnlyInv'
  <2>1. UNCHANGED <<nodeVars, wireVars>> /\ stat' \subseteq stat
    BY <1>7 DEF ExpireStat
  <2> QED
    BY <2>1, LessKnown
<1>8. ASSUME ExpireLock \/ UNCHANGED vars PROVE OnlyInv'
  <2>1. UNCHANGED <<nodeVars, wireVars>> /\ stat' \subseteq stat
    BY <1>8 DEF ExpireLock, vars, redisVars
  <2> QED
    BY <2>1, LessKnown
<1> QED
  BY <1>1, <1>2, <1>3, <1>4, <1>5, <1>6, <1>7, <1>8, HandlePreservesOnly, ChannelPreservesOnly,
     ServerPreservesOnly DEF Next, Fault

-----------------------------------------------------------------------------
(* Theorems.                                                               *)

LEMMA InitCorrect == ASSUME ConstantsOK, Init PROVE TypeOK /\ LockInv
<1>1. TypeOK
  <2>1. <<>> \in Seq(Command) /\ <<>> \in Seq(Answer) /\ <<>> \in Seq(Message)
    OBVIOUS
  <2>2. 0 \in 0 .. MaxEdits /\ 0 \in 0 .. MaxStall /\ 0 \in 0 .. MaxLost /\ 0 \in 0 .. MaxCrash
    BY DEF ConstantsOK
  <2> QED
    BY <2>1, <2>2 DEF Init, TypeOK
<1>2. \A n \in Node : up[n] /\ ~Acts(n)
  BY DEF Init, Acts, Running, Confirmed, Has
<1> QED
  BY <1>1, <1>2 DEF LockInv

\* Every variable keeps its type, for any clusters, tasks, requests and faults.
THEOREM TypeCorrect == Spec => []TypeOK
<1>1. Init => TypeOK
  BY ConstantsOK, InitCorrect
<1>2. TypeOK /\ [Next]_vars => TypeOK'
  BY ConstantsOK, TypeStep
<1> QED
  BY <1>1, <1>2, PTL DEF Spec

\* Whoever has a session of a relay task, orders on its way, or the confirmation that it
\* is the master, holds CASTER:MASTER, and a node that is down has none of these
\* (sync_cluster_state, relay_pull_task_distribution, relay_task_response).
THEOREM LockInvAlways == Spec => []LockInv
<1>1. Init => LockInv
  BY ConstantsOK, InitCorrect
<1>2. TypeOK /\ LockInv /\ [Next]_vars => LockInv'
  BY ConstantsOK, LockStep
<1> QED
  BY <1>1, <1>2, TypeCorrect, PTL DEF Spec

\* No relay task runs on two nodes, whatever the timers, losses, expiries, crashes and
\* requests (relay_task_response, Redis_KeepMaster_Callback).
THEOREM SingleRunAlways == Spec => []SingleRun
<1>1. LockInv => SingleRun
  <2>1. ASSUME LockInv, NEW u \in Uid, NEW n \in Node, session[n][u] # Absent PROVE lock = n
    BY <2>1 DEF LockInv, Acts, Running
  <2> QED
    BY <2>1 DEF SingleRun
<1> QED
  BY <1>1, LockInvAlways, PTL

\* Whatever the requests, expiries, lost orders and crashes, and however rounds overlap, an
\* ACTIVE order that the status map lets through finds no session of its task, unless the
\* task's status was removed between an upload and the end of the same round, or commands
\* of several rounds were mixed (createObject, relay_task_response, Redis_SyncPullStat_Callback).
THEOREM NoDoubleCreateAlways == Spec => []NoDoubleCreate
<1> DEFINE Inv == TypeOK /\ LockInv /\ RoundInv /\ KeptInv
<1>1. Init => Inv
  <2>1. ASSUME Init PROVE RoundInv /\ KeptInv
    <3>1. \A n \in Node : /\ pipe[n] = <<>> /\ answers[n] = <<>> /\ channel[n] = <<>> /\ Running(n) = {}
      BY <2>1 DEF Init, Running
    <3> QED
      BY <2>1, <3>1 DEF Init, RoundInv, RoundOf, InRound, Has, KeptInv
  <2> QED
    BY <2>1, ConstantsOK, InitCorrect
<1>2. Inv /\ [Next]_vars => Inv'
  BY ConstantsOK, TypeStep, LockStep, RoundStep, KeptStep
<1>3. Inv => NoDoubleCreate
  <2>1. ASSUME Inv, NEW n \in Node, channel[n] # <<>>, Head(channel[n]).uid \notin local[n] \cup cut[n]
        PROVE  session[n][Head(channel[n]).uid] = Absent
    <3>1. channel[n] \in Seq(Message)
      BY <2>1 DEF TypeOK
    <3>2. Head(channel[n]) \in Message
      BY <2>1, <3>1
    <3>3. Head(channel[n]).uid \in Uid
      BY <3>2 DEF Message
    <3> QED
      BY <2>1, <3>3 DEF KeptInv, Kept, Running
  <2> QED
    BY <2>1 DEF NoDoubleCreate
<1> QED
  BY <1>1, <1>2, <1>3, PTL DEF Spec

\* In a cluster of one node whose rounds do not overlap, a task that is in the status map
\* between two rounds runs with the configuration that was distributed last, whatever
\* orders are lost, statuses expire or are deleted, and however often the node crashes:
\* comparing a changed record with what is remembered is enough
\* (relay_pull_task_distribution, Redis_SyncPullStat_Callback).
THEOREM RunsWhatWasDistributedAlways == ASSUME Alone PROVE Spec => []RunsWhatWasDistributed
<1> DEFINE Inv == TypeOK /\ LockInv /\ RoundInv /\ OnlyInv
<1>1. Init => Inv
  <2>1. ASSUME Init PROVE RoundInv /\ OnlyInv
    <3>1. \A n \in Node : /\ pipe[n] = <<>> /\ answers[n] = <<>> /\ channel[n] = <<>> /\ Running(n) = {}
      BY <2>1 DEF Init, Running
    <3>2. RoundInv
      BY <3>1 DEF RoundInv, RoundOf, InRound, Has
    <3>3. ASSUME NEW n \in Node PROVE Only(n)
      <4>1. ~Has(pipe[n], {"STAT", "HSETEX"}) /\ ~Has(pipe[n], {"HSETEX"}) /\ stat = {} /\ Differs(n) = {}
        BY <2>1, <3>1 DEF Init, Has, Differs
      <4> QED
        BY <3>1, <4>1, NothingAsked DEF Only, AskedOnce, StatKnown, OrdersKnown
    <3> QED
      BY <3>2, <3>3 DEF OnlyInv
  <2> QED
    BY <2>1, ConstantsOK, InitCorrect
<1>2. Inv /\ [Next]_vars => Inv'
  BY ConstantsOK, TypeStep, LockStep, RoundStep, OnlyStep DEF Alone
<1>3. Inv => RunsWhatWasDistributed
  <2>1. ASSUME Inv, NEW n \in Node, NEW u \in local[n], session[n][u] # Absent, dist[n][u] # Absent
        PROVE  session[n][u] = dist[n][u]
    <3>1. u \in Running(n) /\ up[n]
      BY <2>1 DEF TypeOK, LockInv, Dead, Running
    <3>2. u \notin Differs(n)
      BY <2>1, <3>1 DEF OnlyInv, Only, NoStatus
    <3> QED
      BY <2>1, <3>1, <3>2 DEF Differs
  <2> QED
    BY <2>1 DEF RunsWhatWasDistributed
<1> QED
  BY <1>1, <1>2, <1>3, PTL DEF Spec

=============================================================================
