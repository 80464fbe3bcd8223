--------------------------- MODULE SubscriptionProofs ---------------------------
(***************************************************************************)
(* The maps of subscribed rovers: who is in them, and what Redis is told.  *)
(***************************************************************************)
EXTENDS Subscription, TLAPS, FiniteSetTheorems, NaturalsInduction, WellFoundedInduction

\* What the process keeps.
Subs == UNION {[D -> SUBSET Rover] : D \in SUBSET Base}
Node == [active : SUBSET Base, subs : Subs,
         near : [Near -> Base \cup {NearMount, None}], cache : [Near -> Place \cup {None}],
         session : [Rover -> Session], to_pub : Seq(PubCommand), to_sub : Seq(SubCommand)]

\* A rover is in the channel of the base it was told, and in no other; the node
\* knows the same base of a nearest-base rover.
Placed(n, r) ==
    /\ \A b \in Base : r \in SubsOf(n, b) <=> Running(n, r) /\ n.session[r].alias_mpt = b
    /\ r \in Near =>
         /\ n.near[r] # None => Running(n, r)
         /\ \A b \in Base : n.near[r] = b <=> n.session[r].alias_mpt = b
\* stop() would find the entry of the rover.
Found(n, r) == \A b \in Base : r \in SubsOf(n, b) => Channel(n, r) = b

\* What the last command of q about b leaves of its subscription, l being those
\* that Redis has.
Heard(l, q, b) ==
    LET about == {i \in DOMAIN q : q[i].base = b} IN
    IF about = {} THEN b \in l
    ELSE \E i \in about : /\ \A j \in about : j <= i
                          /\ q[i].op = "SUBSCRIBE"
\* Redis will listen to no channel but those of the map f, and to all of them unless
\* the connection is lost.
Listens(l, q, f, up) ==
    \A b \in Base : /\ Heard(l, q, b) => b \in DOMAIN f
                    /\ up /\ b \in DOMAIN f => Heard(l, q, b)

SubInv ==
    /\ online \in SUBSET Base /\ geo \in SUBSET Base /\ node \in Node
    /\ replies \in Seq(Reply) /\ sub_up \in BOOLEAN /\ listening \in SUBSET Base
    /\ changes \in 0 .. MaxChanges /\ pub_drops \in Nat /\ sub_drops \in Nat
    /\ pub_drops + sub_drops <= MaxDrops
    /\ \A r \in Rover : Placed(node, r)
    /\ Listens(listening, node.to_sub, node.subs, sub_up)

-----------------------------------------------------------------------------
(* Sequences of commands.                                                  *)

\* One more command decides about its base.
LEMMA HeardAppend ==
    ASSUME NEW l, NEW q \in Seq(SubCommand), NEW c \in SubCommand, NEW b
    PROVE  Heard(l, Append(q, c), b) <=> IF c.base = b THEN c.op = "SUBSCRIBE" ELSE Heard(l, q, b)
<1> DEFINE r == Append(q, c)  A(s) == {i \in DOMAIN s : s[i].base = b}  n == Len(q) + 1
<1>1. /\ Len(q) \in Nat /\ DOMAIN q = 1 .. Len(q) /\ DOMAIN r = 1 .. n
      /\ r[n] = c /\ \A i \in DOMAIN q : r[i] = q[i]
  OBVIOUS
<1>2. CASE c.base = b
  <2>1. n \in A(r) /\ \A j \in A(r) : j <= n
    BY <1>1, <1>2
  <2>2. \A i \in A(r) : (\A j \in A(r) : j <= i) => i = n
    BY <1>1, <2>1
  <2> HIDE DEF r
  <2> QED
    BY <1>1, <1>2, <2>1, <2>2 DEF Heard
<1>3. CASE c.base # b
  <2>1. A(r) = A(q)
    BY <1>1, <1>3
  <2>2. \A i \in A(q) : r[i] = q[i]
    BY <1>1
  <2> HIDE DEF r
  <2> QED
    BY <1>3, <2>1, <2>2 DEF Heard, r
<1> QED
  BY <1>2, <1>3

\* Redis executes a command: what will be listened to stays the same.
LEMMA HeardTail ==
    ASSUME NEW l, NEW q \in Seq(SubCommand), q # <<>>, NEW k, NEW b,
           b \in k <=> IF Head(q).base = b THEN Head(q).op = "SUBSCRIBE" ELSE b \in l
    PROVE  Heard(k, Tail(q), b) <=> Heard(l, q, b)
<1> DEFINE t == Tail(q)  A(s) == {i \in DOMAIN s : s[i].base = b}
<1>1. /\ Len(q) \in Nat \ {0} /\ DOMAIN q = 1 .. Len(q) /\ DOMAIN t = 1 .. Len(q) - 1
      /\ Head(q) = q[1] /\ \A i \in DOMAIN t : t[i] = q[i + 1]
  OBVIOUS
<1> HIDE DEF t
<1>2. /\ \A i \in A(t) : i \in Nat /\ i + 1 \in A(q) /\ t[i] = q[i + 1]
      /\ \A i \in A(q) : i \in Nat /\ (i # 1 => i - 1 \in A(t) /\ i - 1 + 1 = i)
  BY <1>1
<1>3. CASE A(t) = {}
  <2>1. Heard(k, t, b) <=> b \in k
    BY <1>3 DEF Heard
  <2>2. CASE q[1].base = b
    <3>1. A(q) = {1}
      BY <1>1, <1>2, <1>3, <2>2
    <3>2. Heard(l, q, b) <=> q[1].op = "SUBSCRIBE"
      BY <3>1 DEF Heard
    <3> QED
      BY <1>1, <2>1, <2>2, <3>2 DEF t
  <2>3. CASE q[1].base # b
    <3>1. A(q) = {}
      BY <1>1, <1>2, <1>3, <2>3
    <3>2. Heard(l, q, b) <=> b \in l
      BY <3>1 DEF Heard
    <3> QED
      BY <1>1, <2>1, <2>3, <3>2 DEF t
  <2> QED
    BY <2>2, <2>3
<1>4. CASE A(t) # {}
  <2>0. A(q) # {}
    BY <1>2, <1>4
  <2>1. ASSUME NEW i \in A(t), \A j \in A(t) : j <= i, t[i].op = "SUBSCRIBE"
        PROVE  Heard(l, q, b)
    <3>1. i + 1 \in A(q) /\ q[i + 1].op = "SUBSCRIBE"
      BY <1>2, <2>1
    <3>2. \A j \in A(q) : j <= i + 1
      BY <1>2, <2>1
    <3> QED
      BY <2>0, <3>1, <3>2 DEF Heard
  <2>2. ASSUME NEW i \in A(q), \A j \in A(q) : j <= i, q[i].op = "SUBSCRIBE"
        PROVE  Heard(k, t, b)
    <3>1. PICK j \in A(t) : TRUE
      BY <1>4
    <3>2. j + 1 <= i /\ j \in Nat /\ j >= 1
      BY <1>1, <1>2, <2>2
    <3>3. i # 1
      BY <1>2, <3>2
    <3>4. i - 1 \in A(t) /\ t[i - 1].op = "SUBSCRIBE"
      BY <1>2, <2>2, <3>3
    <3>5. \A m \in A(t) : m <= i - 1
      BY <1>2, <2>2
    <3> QED
      BY <1>4, <3>4, <3>5 DEF Heard
  <2>3. Heard(k, t, b) => \E i \in A(t) : (\A j \in A(t) : j <= i) /\ t[i].op = "SUBSCRIBE"
    BY <1>4 DEF Heard
  <2>4. Heard(l, q, b) => \E i \in A(q) : (\A j \in A(q) : j <= i) /\ q[i].op = "SUBSCRIBE"
    BY <2>0 DEF Heard
  <2> QED
    BY <2>1, <2>2, <2>3, <2>4 DEF t
<1> QED
  BY <1>3, <1>4

\* A finite set as a sequence: each element once.
LEMMA SetAsSeq ==
    ASSUME NEW S, IsFiniteSet(S)
    PROVE  /\ SetToSeq(S) \in Seq(S)
           /\ \A x \in S : \E i \in 1 .. Len(SetToSeq(S)) : SetToSeq(S)[i] = x
           /\ \A i, j \in 1 .. Len(SetToSeq(S)) : SetToSeq(S)[i] = SetToSeq(S)[j] => i = j
<1> DEFINE n == Cardinality(S)  f == SetToSeq(S)
<1>1. n \in Nat
  BY FS_CardinalityType
<1>2. \E h \in [1..n -> S] : IsInjective(h)
  <2>1. ExistsBijection(1..n, S)
    BY FS_CardinalityType
  <2> QED
    BY <2>1 DEF ExistsBijection, Bijection, Injection, IsInjective
<1>3. f \in [1..n -> S] /\ IsInjective(f)
  BY <1>2 DEF SetToSeq
<1> HIDE DEF f
<1>4. f \in Injection(1..n, S)
  BY <1>3 DEF Injection
<1>5. Cardinality(1..n) = n
  BY <1>1, FS_Interval
<1>6. f \in Surjection(1..n, S)
  BY <1>4, <1>5, FS_Injection DEF n
<1> HIDE DEF n
<1>7. f \in Seq(S) /\ Len(f) = n
  BY <1>1, <1>3
<1>8. \A x \in S : \E i \in 1..n : f[i] = x
  BY <1>6 DEF Surjection
<1>9. \A i, j \in 1..n : f[i] = f[j] => i = j
  BY <1>3 DEF IsInjective
<1> QED
  BY <1>7, <1>8, <1>9 DEF f

\* Commands of one kind about each base of D decide about these bases.
LEMMA HeardAll ==
    ASSUME NEW l, NEW q \in Seq(SubCommand), NEW D \in SUBSET Base,
           NEW op \in {"SUBSCRIBE", "UNSUBSCRIBE"}
    PROVE  LET s == SetToSeq([op : {op}, base : D])
           IN /\ q \o s \in Seq(SubCommand)
              /\ \A b : Heard(l, q \o s, b) <=>
                          IF b \in D THEN op = "SUBSCRIBE" ELSE Heard(l, q, b)
<1> DEFINE C == [op : {op}, base : D]
           s == SetToSeq(C)
<1>1. IsFiniteSet(C)
  <2> DEFINE g == [d \in D |-> [op |-> op, base |-> d]]
  <2>1. IsFiniteSet(D)
    BY ConstantsOK, FS_Subset
  <2>2. g \in Surjection(D, C)
    BY DEF Surjection
  <2> QED
    BY <2>1, <2>2, FS_Surjection
<1>2. /\ s \in Seq(C) /\ \A x \in C : \E i \in 1 .. Len(s) : s[i] = x
      /\ \A i, j \in 1 .. Len(s) : s[i] = s[j] => i = j
  BY <1>1, SetAsSeq
<1> HIDE DEF s
<1>4. C \subseteq SubCommand
  BY DEF SubCommand
<1>a. \A T, U : T \subseteq U => \A f \in Seq(T) :
        f \in Seq(U) /\ \A i \in 1 .. Len(f) : f[i] \in T
  OBVIOUS
<1>3. s \in Seq(SubCommand) /\ \A i \in 1 .. Len(s) : s[i] \in C
  <2> HIDE DEF C
  <2> QED
    BY <1>2, <1>4, <1>a
<1>5. s \in Seq(SubCommand)
  BY <1>3
<1>6. q \o s \in Seq(SubCommand)
  BY <1>5
<1> DEFINE r == q \o s  n == Len(q)
<1>7. /\ n \in Nat /\ Len(s) \in Nat /\ DOMAIN q = 1 .. n /\ DOMAIN r = 1 .. n + Len(s)
      /\ \A i \in 1 .. n : r[i] = q[i]
      /\ \A i \in DOMAIN r : ~(i <= n) => i - n \in 1 .. Len(s) /\ r[i] = s[i - n]
      /\ \A i \in 1 .. Len(s) : i + n \in DOMAIN r /\ r[i + n] = s[i]
  BY <1>5
<1> HIDE DEF r, n
<1>8. ASSUME NEW b PROVE Heard(l, r, b) <=> IF b \in D THEN op = "SUBSCRIBE" ELSE Heard(l, q, b)
  <2> DEFINE A(t) == {i \in DOMAIN t : t[i].base = b}
  <2>1. CASE b \in D
    <3>1. PICK k \in 1 .. Len(s) : s[k] = [op |-> op, base |-> b]
      BY <1>2, <2>1
    <3>2. \A i \in 1 .. Len(s) : s[i].base = b => i = k
      <4>1. \A i \in 1 .. Len(s) : s[i].base = b => s[i] = [op |-> op, base |-> b]
        BY <1>3
      <4> QED
        BY <1>2, <3>1, <4>1
    <3>3. k + n \in A(r) /\ r[k + n].op = op
      BY <1>7, <3>1
    <3>4. ASSUME NEW j \in A(r) PROVE j <= k + n
      <4>1. CASE j <= n
        BY <1>7, <4>1
      <4>2. CASE ~(j <= n)
        <5>1. j - n \in 1 .. Len(s) /\ s[j - n].base = b
          BY <1>7, <4>2
        <5>2. j - n = k
          BY <3>2, <5>1
        <5> QED
          BY <1>7, <5>2
      <4> QED
        BY <4>1, <4>2
    <3>5. ASSUME NEW i \in A(r), \A j \in A(r) : j <= i PROVE i = k + n
      <4>1. i \in Nat /\ k \in Nat
        BY <1>7
      <4>2. i <= k + n /\ k + n <= i
        BY <3>3, <3>4, <3>5
      <4> QED
        BY <1>7, <4>1, <4>2
    <3> QED
      BY <2>1, <3>3, <3>4, <3>5 DEF Heard
  <2>2. CASE b \notin D
    <3>1. \A i \in 1 .. Len(s) : s[i].base # b
      BY <1>3, <2>2
    <3>2. A(r) = A(q)
      BY <1>7, <3>1
    <3>3. \A i \in A(q) : r[i] = q[i]
      BY <1>7
    <3> QED
      BY <2>2, <3>2, <3>3 DEF Heard
  <2> QED
    BY <2>1, <2>2
<1> QED
  BY <1>6, <1>8 DEF r, s

-----------------------------------------------------------------------------
(* Methods.                                                                *)

\* A map from some bases to sets of rovers.
LEMMA SubsType ==
    /\ \A f \in Subs : DOMAIN f \subseteq Base /\ f \in [DOMAIN f -> SUBSET Rover]
    /\ \A D \in SUBSET Base : [D -> SUBSET Rover] \subseteq Subs
BY DEF Subs

\* stop() ends the sessions of rs, and leaves the channels where it finds them.
LEMMA StopEffect ==
    ASSUME NEW n \in Node, NEW rs \in SUBSET Rover
    PROVE  LET m == stop(n, rs)
           IN /\ m \in Node /\ m.active = n.active /\ m.to_pub = n.to_pub /\ m.to_sub = n.to_sub
              /\ DOMAIN m.subs = DOMAIN n.subs
              /\ \A r \in Rover \ rs : /\ m.session[r] = n.session[r]
                                       /\ r \in Near => m.near[r] = n.near[r]
                                       /\ \A b : r \in SubsOf(m, b) <=> r \in SubsOf(n, b)
              /\ \A r \in rs : /\ m.session[r] = Fresh("stopped")
                               /\ r \in Near => m.near[r] = None
                               /\ \A b : r \in SubsOf(m, b) <=> r \in SubsOf(n, b) /\ Channel(n, r) # b
<1> DEFINE subs == [b \in DOMAIN n.subs |-> n.subs[b] \ {r \in rs : Channel(n, r) = b}]
           near == [r \in Near |-> IF r \in rs THEN None ELSE n.near[r]]
           cache == [r \in Near |-> IF r \in rs THEN None ELSE n.cache[r]]
           session == [r \in Rover |-> IF r \in rs THEN Fresh("stopped") ELSE n.session[r]]
           m == [n EXCEPT !.subs = subs, !.near = near, !.cache = cache, !.session = session]
<1>1. stop(n, rs) = m
  BY DEF stop, Node
<1>2. DOMAIN n.subs \subseteq Base /\ n.subs \in [DOMAIN n.subs -> SUBSET Rover] /\ n.subs \in Subs
  BY SubsType DEF Node
<1>3. subs \in Subs /\ DOMAIN subs = DOMAIN n.subs
  <2>1. subs \in [DOMAIN n.subs -> SUBSET Rover]
    BY <1>2
  <2> QED
    BY <1>2, <2>1, SubsType
<1>4. near \in [Near -> Base \cup {NearMount, None}] /\ cache \in [Near -> Place \cup {None}]
  BY DEF Node
<1>5. session \in [Rover -> Session]
  <2>1. Fresh("stopped") \in Session
    BY DEF Fresh, Session
  <2> QED
    BY <2>1 DEF Node
<1>6. \A r \in Rover \ rs : session[r] = n.session[r] /\ (r \in Near => near[r] = n.near[r])
  OBVIOUS
<1>7. \A r \in rs : session[r] = Fresh("stopped") /\ (r \in Near => near[r] = None)
  OBVIOUS
<1>8. \A b \in DOMAIN n.subs : subs[b] = n.subs[b] \ {r \in rs : Channel(n, r) = b}
  OBVIOUS
<1> HIDE DEF subs, near, cache, session
<1>9. /\ m \in Node /\ m.active = n.active /\ m.to_pub = n.to_pub /\ m.to_sub = n.to_sub
      /\ m.subs = subs /\ m.near = near /\ m.session = session
  BY <1>3, <1>4, <1>5 DEF Node
<1> HIDE DEF m
<1>10. \A b : SubsOf(m, b) = SubsOf(n, b) \ {r \in rs : Channel(n, r) = b}
  BY <1>3, <1>8, <1>9 DEF SubsOf
<1> QED
  BY <1>1, <1>3, <1>6, <1>7, <1>9, <1>10

\* It leaves the other rovers where they are, and finds those it stops.
LEMMA StopPlaced ==
    ASSUME NEW n \in Node, NEW rs \in SUBSET Rover,
           \A r \in Rover \ rs : Placed(n, r), \A r \in rs : Found(n, r)
    PROVE  \A r \in Rover : Placed(stop(n, rs), r)
<1> DEFINE m == stop(n, rs)
<1>0. None \notin Base
  BY NamesDiffer
<1> SUFFICES ASSUME NEW r \in Rover PROVE Placed(m, r)
  OBVIOUS
<1>1. CASE r \in rs
  <2>1. /\ m.session[r] = Fresh("stopped") /\ (r \in Near => m.near[r] = None)
        /\ \A b \in Base : r \notin SubsOf(m, b)
    BY <1>1, StopEffect DEF Found
  <2>2. ~Running(m, r) /\ m.session[r].alias_mpt = None
    BY <2>1 DEF Running, Fresh
  <2> HIDE DEF m
  <2> QED
    BY <1>0, <2>1, <2>2 DEF Placed
<1>2. CASE r \notin rs
  <2>1. /\ m.session[r] = n.session[r] /\ (r \in Near => m.near[r] = n.near[r])
        /\ \A b : r \in SubsOf(m, b) <=> r \in SubsOf(n, b)
    BY <1>2, StopEffect
  <2>2. Placed(n, r)
    BY <1>2
  <2> HIDE DEF m
  <2> QED
    BY <2>1, <2>2 DEF Placed, Running
<1> QED
  BY <1>1, <1>2

\* A rover that has its place is found.
LEMMA PlacedFound ==
    ASSUME NEW n, NEW r \in Rover, Placed(n, r) PROVE Found(n, r)
BY NamesDiffer DEF Placed, Found, Channel

\* CasterSubscribeCallback changes what the session was told.
LEMMA OkEffect ==
    ASSUME NEW n \in Node, NEW r \in Rover, NEW b \in Base \cup {NearMount}
    PROVE  LET m == Ok(n, r, b)
           IN /\ m \in Node /\ \A v \in Rover \ {r} : m.session[v] = n.session[v]
              /\ m.session[r].state = n.session[r].state /\ m.session[r].alias_mpt = b
              /\ m.session[r].mount_point = n.session[r].mount_point
              /\ m.near = n.near /\ m.subs = n.subs /\ m.to_sub = n.to_sub
              /\ m.active = n.active /\ m.to_pub = n.to_pub
<1> DEFINE s == [n.session[r] EXCEPT !.alias_mpt = b, !.fed = FALSE]
           m == [n EXCEPT !.session = [n.session EXCEPT ![r] = s]]
<1>0. n.session \in [Rover -> Session]
  BY DEF Node
<1>1. s \in Session /\ s.state = n.session[r].state /\ s.alias_mpt = b
      /\ s.mount_point = n.session[r].mount_point
  BY <1>0 DEF Session
<1>2. Ok(n, r, b) = m
  BY <1>0 DEF Ok, Node, Session
<1> HIDE DEF s
<1>3. [n.session EXCEPT ![r] = s] \in [Rover -> Session]
      /\ \A v \in Rover \ {r} : [n.session EXCEPT ![r] = s][v] = n.session[v]
      /\ [n.session EXCEPT ![r] = s][r] = s
  BY <1>0, <1>1
<1> DEFINE session == [n.session EXCEPT ![r] = s]
<1> HIDE DEF session
<1>4. /\ m \in Node /\ m.session = session /\ m.near = n.near /\ m.subs = n.subs
      /\ m.to_sub = n.to_sub /\ m.active = n.active /\ m.to_pub = n.to_pub
  BY <1>3 DEF Node, session
<1> QED
  BY <1>1, <1>2, <1>3, <1>4 DEF session

\* The rover enters no other channel than b, where it is expected.
Joining(n, r, b) ==
    /\ Running(n, r) /\ \A c \in Base : r \notin SubsOf(n, c)
    /\ \A v \in Rover \ {r} : Placed(n, v)
    /\ r \in Near => n.near[r] = b

LEMMA Entered ==
    ASSUME NEW n \in Node, NEW r \in Rover, NEW b \in Base, Joining(n, r, b),
           NEW k \in Node, k.session = n.session, k.near = n.near,
           \A c \in Base : SubsOf(k, c) = SubsOf(n, c) \cup (IF c = b THEN {r} ELSE {})
    PROVE  \A v \in Rover : Placed(Ok(k, r, b), v)
<1> DEFINE m == Ok(k, r, b)
<1>0. None \notin Base
  BY NamesDiffer
<1>1. /\ \A v \in Rover \ {r} : m.session[v] = n.session[v]
      /\ m.session[r].state = "running" /\ m.session[r].alias_mpt = b
      /\ m.near = n.near /\ \A c : SubsOf(m, c) = SubsOf(k, c)
  BY OkEffect DEF Joining, Running, SubsOf
<1> HIDE DEF m
<1>2. Placed(m, r)
  <2>1. Running(m, r)
    BY <1>1 DEF Running
  <2>2. \A c \in Base : r \in SubsOf(m, c) <=> c = b
    BY <1>1 DEF Joining
  <2>3. r \in Near => m.near[r] = b
    BY <1>1 DEF Joining
  <2> QED
    BY <1>1, <2>1, <2>2, <2>3 DEF Placed
<1>3. ASSUME NEW v \in Rover \ {r} PROVE Placed(m, v)
  <2>1. Placed(n, v) /\ m.session[v] = n.session[v] /\ (v \in Near => m.near[v] = n.near[v])
    BY <1>1 DEF Joining
  <2>2. \A c \in Base : v \in SubsOf(m, c) <=> v \in SubsOf(n, c)
    BY <1>1
  <2> QED
    BY <2>1, <2>2 DEF Placed, Running
<1> QED
  BY <1>2, <1>3 DEF m

\* sub_base_channel puts the rover where it belongs or stops it, and Redis is told of
\* a channel that is new.
LEMMA SubBaseEffect ==
    ASSUME NEW n \in Node, NEW r \in Rover, NEW b \in Base, Joining(n, r, b)
    PROVE  LET m == sub_base_channel(n, r, b)
           IN /\ m \in Node /\ \A v \in Rover : Placed(m, v)
              /\ \A l, up : Listens(l, n.to_sub, n.subs, up) => Listens(l, m.to_sub, m.subs, up)
<1> DEFINE m == sub_base_channel(n, r, b)
<1>0. /\ n.subs \in Subs /\ DOMAIN n.subs \subseteq Base
      /\ n.subs \in [DOMAIN n.subs -> SUBSET Rover] /\ n.to_sub \in Seq(SubCommand)
  BY SubsType DEF Node
<1>1. CASE b \notin n.active
  <2>1. m = stop(n, {r})
    BY <1>1 DEF sub_base_channel
  <2>2. Found(n, r)
    BY DEF Joining, Found
  <2>3. \A v \in Rover : Placed(m, v)
    BY <2>1, <2>2, StopPlaced DEF Joining
  <2>4. m \in Node /\ m.to_sub = n.to_sub /\ DOMAIN m.subs = DOMAIN n.subs
    BY <2>1, StopEffect
  <2> HIDE DEF m
  <2> QED
    BY <2>3, <2>4 DEF Listens, m
<1>2. CASE b \in n.active /\ b \in DOMAIN n.subs
  <2> DEFINE subs == [n.subs EXCEPT ![b] = @ \cup {r}]
             k == [n EXCEPT !.subs = subs]
  <2>1. m = Ok(k, r, b)
    BY <1>2 DEF sub_base_channel, Node
  <2>2. subs \in [DOMAIN n.subs -> SUBSET Rover]
    BY <1>0
  <2>3. subs \in Subs /\ DOMAIN subs = DOMAIN n.subs
    BY <1>0, <2>2, SubsType
  <2>4. \A c \in DOMAIN n.subs : subs[c] = n.subs[c] \cup (IF c = b THEN {r} ELSE {})
    BY <1>0
  <2> HIDE DEF subs
  <2>5. /\ k \in Node /\ k.session = n.session /\ k.near = n.near
        /\ k.subs = subs /\ k.to_sub = n.to_sub
    BY <2>3 DEF Node
  <2> HIDE DEF k
  <2>6. \A c \in Base : SubsOf(k, c) = SubsOf(n, c) \cup (IF c = b THEN {r} ELSE {})
    BY <1>2, <2>3, <2>4, <2>5 DEF SubsOf
  <2>7. \A v \in Rover : Placed(m, v)
    BY <2>1, <2>5, <2>6, Entered
  <2>8. m \in Node /\ m.to_sub = n.to_sub /\ m.subs = subs
    BY <2>1, <2>5, OkEffect
  <2> HIDE DEF m
  <2> QED
    BY <2>3, <2>7, <2>8 DEF Listens, m
<1>3. CASE b \in n.active /\ b \notin DOMAIN n.subs
  <2> DEFINE subs == [c \in DOMAIN n.subs \cup {b} |-> IF c = b THEN {r} ELSE n.subs[c]]
             cmd == [op |-> "SUBSCRIBE", base |-> b]
             k == [n EXCEPT !.subs = subs, !.to_sub = Append(n.to_sub, cmd)]
  <2>1. m = Ok(k, r, b)
    BY <1>3 DEF sub_base_channel, Node
  <2>2. subs \in [DOMAIN n.subs \cup {b} -> SUBSET Rover]
    BY <1>0
  <2>3. subs \in Subs /\ DOMAIN subs = DOMAIN n.subs \cup {b}
    BY <1>0, <2>2, SubsType
  <2>4. \A c \in DOMAIN subs : subs[c] = IF c = b THEN {r} ELSE n.subs[c]
    BY <2>3
  <2> HIDE DEF subs
  <2>5. cmd \in SubCommand /\ cmd.op = "SUBSCRIBE" /\ cmd.base = b
    BY DEF SubCommand
  <2> HIDE DEF cmd
  <2>a. Append(n.to_sub, cmd) \in Seq(SubCommand)
    BY <1>0, <2>5
  <2>6. /\ k \in Node /\ k.session = n.session /\ k.near = n.near
        /\ k.subs = subs /\ k.to_sub = Append(n.to_sub, cmd)
    BY <2>3, <2>a DEF Node
  <2> HIDE DEF k
  <2>7. \A c \in Base : SubsOf(k, c) = SubsOf(n, c) \cup (IF c = b THEN {r} ELSE {})
    BY <1>3, <2>3, <2>4, <2>6 DEF SubsOf
  <2>8. \A v \in Rover : Placed(m, v)
    BY <2>1, <2>6, <2>7, Entered
  <2>9. m \in Node /\ m.to_sub = Append(n.to_sub, cmd) /\ m.subs = subs
    BY <2>1, <2>6, OkEffect
  <2> HIDE DEF m
  <2>10. \A l, c : Heard(l, m.to_sub, c) <=> IF c = b THEN TRUE ELSE Heard(l, n.to_sub, c)
    BY <1>0, <2>5, <2>9, HeardAppend
  <2>11. \A l, up : Listens(l, n.to_sub, n.subs, up) => Listens(l, m.to_sub, m.subs, up)
    BY <2>3, <2>9, <2>10 DEF Listens
  <2> QED
    BY <2>8, <2>9, <2>11 DEF m
<1> QED
  BY <1>1, <1>2, <1>3

\* Where the first active base is, if there is one.
LEMMA FirstActiveEffect ==
    ASSUME NEW S \in SUBSET Base, NEW list \in Seq(Base), FirstActive(S, list) # 0
    PROVE  FirstActive(S, list) \in DOMAIN list /\ list[FirstActive(S, list)] \in S
<1> DEFINE at == {i \in DOMAIN list : list[i] \in S}
           less == OpToRel(<, Nat)
<1>1. at \subseteq Nat /\ at # {}
  BY DEF FirstActive
<1>2. \E i \in at : \A j \in at : ~(<<j, i>> \in less)
  BY <1>1, NatLessThanWellFounded, WFMin
<1>3. \A i, j \in Nat : j < i => <<j, i>> \in less
  BY DEF OpToRel
<1>4. \E i \in at : \A j \in at : i <= j
  <2> HIDE DEF at, less
  <2>1. PICK i \in at : \A j \in at : ~(<<j, i>> \in less)
    BY <1>2
  <2>2. ASSUME NEW j \in at PROVE i <= j
    <3>1. ~(<<j, i>> \in less) /\ i \in Nat /\ j \in Nat
      BY <1>1, <2>1
    <3>2. ~(j < i)
      BY <1>3, <3>1
    <3> QED
      BY <3>1, <3>2
  <2> QED
    BY <2>2
<1> QED
  BY <1>1, <1>4 DEF FirstActive

\* Sub_Raw_Data of a client that is in no channel.
LEMMA SubRawEffect ==
    ASSUME NEW n \in Node, NEW r \in Client, NEW m \in Base \cup Alias,
           Running(n, r), \A c \in Base : r \notin SubsOf(n, c), \A v \in Rover \ {r} : Placed(n, v)
    PROVE  LET p == Sub_Raw_Data(n, r, m)
           IN /\ p \in Node /\ \A v \in Rover : Placed(p, v)
              /\ \A l, up : Listens(l, n.to_sub, n.subs, up) => Listens(l, p.to_sub, p.subs, up)
<1> DEFINE p == Sub_Raw_Data(n, r, m)
<1>1. r \in Rover /\ \A b : Joining(n, r, b)
  BY NamesDiffer DEF Rover, Joining
<1>2. CASE m \notin Alias
  BY <1>1, <1>2, SubBaseEffect DEF Sub_Raw_Data
<1>3. CASE m \in Alias
  <2> DEFINE i == FirstActive(n.active, Sources[m])
  <2>0. Sources[m] \in Seq(Base) /\ n.active \in SUBSET Base
    BY <1>3, ConstantsOK DEF Node, Alias
  <2>1. p = IF i = 0 THEN stop(n, {r}) ELSE sub_base_channel(n, r, Sources[m][i])
    BY <1>3 DEF Sub_Raw_Data, sub_alias_channel
  <2>2. CASE i = 0
    <3>1. p = stop(n, {r})
      BY <2>1, <2>2
    <3>2. \A v \in Rover : Placed(p, v)
      BY <1>1, <3>1, StopPlaced DEF Found
    <3>3. p \in Node /\ p.to_sub = n.to_sub /\ DOMAIN p.subs = DOMAIN n.subs
      BY <1>1, <3>1, StopEffect
    <3> HIDE DEF p
    <3> QED
      BY <3>2, <3>3 DEF Listens, p
  <2>3. CASE i # 0
    <3>1. Sources[m][i] \in Base
      BY <2>0, <2>3, FirstActiveEffect
    <3>2. p = sub_base_channel(n, r, Sources[m][i])
      BY <2>1, <2>3
    <3> HIDE DEF i, p
    <3> QED
      BY <1>1, <3>1, <3>2, SubBaseEffect DEF p
  <2> QED
    BY <2>2, <2>3
<1> QED
  BY <1>2, <1>3

\* What a place depends on.
LEMMA PlacedKept ==
    ASSUME NEW n, NEW m, NEW r \in Rover, Placed(n, r),
           r \in Near => m.near[r] = n.near[r],
           m.session[r].state = n.session[r].state,
           m.session[r].alias_mpt = n.session[r].alias_mpt,
           \A b \in Base : r \in SubsOf(m, b) <=> r \in SubsOf(n, b)
    PROVE  Placed(m, r)
BY DEF Placed, Running

\* sub_near_channel notes that the rover waits, and says so or asks Redis.
LEMMA SubNearEffect ==
    ASSUME NEW n \in Node, NEW r \in Near, Running(n, r), \A v \in Rover : Placed(n, v),
           NEW channel, NEW p \in Place \cup {None}, p = None => n.near[r] = None
    PROVE  LET m == sub_near_channel(n, r, channel, p)
           IN /\ m \in Node /\ \A v \in Rover : Placed(m, v)
              /\ m.to_sub = n.to_sub /\ DOMAIN m.subs = DOMAIN n.subs
<1> DEFINE m == sub_near_channel(n, r, channel, p)
<1>0. r \in Rover /\ NearMount \notin Base /\ None \notin Base
  BY NamesDiffer DEF Rover
<1>1. CASE channel # NearMount
  <2>1. m = stop(n, {r})
    BY <1>1 DEF sub_near_channel
  <2>2. \A v \in Rover : Placed(m, v)
    BY <1>0, <2>1, PlacedFound, StopPlaced
  <2>3. m \in Node /\ m.to_sub = n.to_sub /\ DOMAIN m.subs = DOMAIN n.subs
    BY <1>0, <2>1, StopEffect
  <2> QED
    BY <2>2, <2>3
<1>2. CASE channel = NearMount
  <2> DEFINE near == [n.near EXCEPT ![r] = IF @ = None THEN NearMount ELSE @]
             k == [n EXCEPT !.near = near]
             cmd == [op |-> "radius", key |-> r, place |-> p]
  <2>1. m = IF p = None THEN Ok(k, r, NearMount) ELSE [k EXCEPT !.to_pub = Append(n.to_pub, cmd)]
    BY <1>2 DEF sub_near_channel, Node
  <2>2. near \in [Near -> Base \cup {NearMount, None}]
    BY DEF Node
  <2>3. /\ \A v \in Near \ {r} : near[v] = n.near[v]
        /\ near[r] = IF n.near[r] = None THEN NearMount ELSE n.near[r]
    BY DEF Node
  <2> HIDE DEF near
  <2>4. /\ k \in Node /\ k.near = near /\ k.session = n.session /\ k.subs = n.subs
        /\ k.to_sub = n.to_sub /\ k.to_pub = n.to_pub
    BY <2>2 DEF Node
  <2> HIDE DEF k
  <2>5. /\ \A v \in Rover \ {r} : /\ k.session[v] = n.session[v]
                                  /\ v \in Near => k.near[v] = n.near[v]
        /\ k.session[r] = n.session[r]
        /\ \A b : SubsOf(k, b) = SubsOf(n, b)
        /\ \A b \in Base : k.near[r] = b <=> n.near[r] = b
    BY <1>0, <2>3, <2>4 DEF SubsOf
  <2>6. \A v \in Rover \ {r} : Placed(k, v)
    BY <2>5, PlacedKept
  <2>7. Placed(k, r)
    <3>1. Placed(n, r) /\ Running(k, r)
      BY <1>0, <2>5 DEF Running
    <3> QED
      BY <2>5, <3>1 DEF Placed, Running
  <2>8. CASE p = None
    <3>1. m = Ok(k, r, NearMount)
      BY <2>1, <2>8
    <3>2. /\ m \in Node /\ m.near = k.near /\ m.subs = k.subs /\ m.to_sub = k.to_sub
          /\ \A v \in Rover \ {r} : m.session[v] = k.session[v]
          /\ m.session[r].state = k.session[r].state /\ m.session[r].alias_mpt = NearMount
      BY <1>0, <2>4, <3>1, OkEffect
    <3> HIDE DEF m
    <3>3. \A b : SubsOf(m, b) = SubsOf(k, b)
      BY <3>2 DEF SubsOf
    <3>4. \A v \in Rover \ {r} : Placed(m, v)
      BY <2>6, <3>2, <3>3, PlacedKept
    <3>5. Placed(m, r)
      <4>1. n.near[r] = None /\ near[r] = NearMount
        BY <2>3, <2>8
      <4>2. \A b \in Base : n.near[r] # b /\ k.near[r] # b /\ m.near[r] # b
        BY <1>0, <2>4, <3>2, <4>1
      <4>3. Running(m, r) /\ Running(k, r)
        BY <2>5, <3>2 DEF Running
      <4>4. \A b \in Base : r \notin SubsOf(m, b)
        BY <2>7, <3>3, <4>2, <4>3 DEF Placed
      <4> QED
        BY <1>0, <3>2, <4>2, <4>3, <4>4 DEF Placed
    <3> QED
      BY <2>4, <3>2, <3>4, <3>5 DEF m
  <2>9. CASE p # None
    <3>1. m = [k EXCEPT !.to_pub = Append(n.to_pub, cmd)]
      BY <2>1, <2>9
    <3>2. cmd \in PubCommand
      BY <2>9 DEF PubCommand
    <3> HIDE DEF cmd
    <3>3. Append(n.to_pub, cmd) \in Seq(PubCommand)
      BY <3>2 DEF Node
    <3>4. /\ m \in Node /\ m.near = k.near /\ m.subs = k.subs /\ m.to_sub = k.to_sub
          /\ m.session = k.session
      BY <2>4, <3>1, <3>3 DEF Node
    <3> HIDE DEF m
    <3>5. \A b : SubsOf(m, b) = SubsOf(k, b)
      BY <3>4 DEF SubsOf
    <3>6. \A v \in Rover : Placed(m, v)
      BY <2>6, <2>7, <3>4, <3>5, PlacedKept
    <3> QED
      BY <2>4, <3>4, <3>6 DEF m
  <2> QED
    BY <2>8, <2>9
<1> QED
  BY <1>1, <1>2

\* A nearest-base rover that is moved has left the channel it was in.
LEMMA MoveEffect ==
    ASSUME NEW n \in Node, NEW r \in Near, n.near[r] # None, \A v \in Rover : Placed(n, v),
           NEW b \in Base
    PROVE  LET m == Move(n, r, b)
           IN /\ m \in Node /\ \A v \in Rover : Placed(m, v)
              /\ \A l, up : Listens(l, n.to_sub, n.subs, up) => Listens(l, m.to_sub, m.subs, up)
<1> DEFINE left == [c \in DOMAIN n.subs |-> n.subs[c] \ (IF c = n.near[r] THEN {r} ELSE {})]
           near == [n.near EXCEPT ![r] = b]
           k == [n EXCEPT !.subs = left, !.near = near]
<1>0. r \in Rover /\ Placed(n, r) /\ Running(n, r)
  BY DEF Rover, Placed
<1>1. Move(n, r, b) = sub_base_channel(k, r, b)
  BY DEF Move, Node
<1>2. DOMAIN n.subs \subseteq Base /\ n.subs \in [DOMAIN n.subs -> SUBSET Rover] /\ n.subs \in Subs
  BY SubsType DEF Node
<1>3. left \in Subs /\ DOMAIN left = DOMAIN n.subs
  <2>1. left \in [DOMAIN n.subs -> SUBSET Rover]
    BY <1>2
  <2> QED
    BY <1>2, <2>1, SubsType
<1>4. \A c \in DOMAIN n.subs : left[c] = n.subs[c] \ (IF c = n.near[r] THEN {r} ELSE {})
  OBVIOUS
<1>5. near \in [Near -> Base \cup {NearMount, None}] /\ near[r] = b
      /\ \A v \in Near \ {r} : near[v] = n.near[v]
  BY DEF Node
<1> HIDE DEF left, near
<1>6. k \in Node /\ k.near = near /\ k.subs = left /\ k.session = n.session /\ k.to_sub = n.to_sub
  BY <1>3, <1>5 DEF Node
<1> HIDE DEF k
<1>7. \A c \in Base : SubsOf(k, c) = SubsOf(n, c) \ (IF c = n.near[r] THEN {r} ELSE {})
  BY <1>3, <1>4, <1>6 DEF SubsOf
<1>8. \A v \in Rover \ {r} : Placed(k, v)
  BY <1>5, <1>6, <1>7, PlacedKept
<1>9. \A c \in Base : r \notin SubsOf(k, c)
  <2>1. \A c \in Base : r \in SubsOf(n, c) => n.near[r] = c
    BY <1>0 DEF Placed
  <2> QED
    BY <1>7, <2>1
<1>10. Joining(k, r, b)
  BY <1>0, <1>5, <1>6, <1>8, <1>9 DEF Joining, Running
<1>11. \A l, up : Listens(l, n.to_sub, n.subs, up) => Listens(l, k.to_sub, k.subs, up)
  BY <1>3, <1>6 DEF Listens
<1> QED
  BY <1>0, <1>1, <1>6, <1>10, <1>11, SubBaseEffect

\* Channels without rovers are given up at Redis too.
LEMMA ReleaseEffect ==
    ASSUME NEW n \in Node, \A v \in Rover : Placed(n, v),
           NEW D \in SUBSET DOMAIN n.subs, \A b \in D : n.subs[b] = {}
    PROVE  LET m == Release(n, D)
           IN /\ m \in Node /\ \A v \in Rover : Placed(m, v)
              /\ \A l, up : Listens(l, n.to_sub, n.subs, up) => Listens(l, m.to_sub, m.subs, up)
<1> DEFINE subs == [b \in DOMAIN n.subs \ D |-> n.subs[b]]
           q == n.to_sub \o SetToSeq([op : {"UNSUBSCRIBE"}, base : D])
           m == [n EXCEPT !.subs = subs, !.to_sub = q]
<1>0. DOMAIN n.subs \subseteq Base /\ n.subs \in [DOMAIN n.subs -> SUBSET Rover] /\ n.subs \in Subs
      /\ n.to_sub \in Seq(SubCommand)
  BY SubsType DEF Node
<1>1. Release(n, D) = m
  BY DEF Release, Node
<1>2. subs \in Subs /\ DOMAIN subs = DOMAIN n.subs \ D /\ \A b \in DOMAIN subs : subs[b] = n.subs[b]
  <2>1. subs \in [DOMAIN n.subs \ D -> SUBSET Rover]
    BY <1>0
  <2> QED
    BY <1>0, <2>1, SubsType
<1>3. /\ q \in Seq(SubCommand)
      /\ \A l, b : Heard(l, q, b) <=> IF b \in D THEN FALSE ELSE Heard(l, n.to_sub, b)
  <2>1. "UNSUBSCRIBE" \in {"SUBSCRIBE", "UNSUBSCRIBE"} /\ D \in SUBSET Base
    BY <1>0
  <2>2. /\ q \in Seq(SubCommand)
        /\ \A l : \A b : Heard(l, q, b) <=>
                          IF b \in D THEN "UNSUBSCRIBE" = "SUBSCRIBE" ELSE Heard(l, n.to_sub, b)
    BY <1>0, <2>1, HeardAll
  <2> QED
    BY <2>2
<1> HIDE DEF subs, q
<1>4. m \in Node /\ m.subs = subs /\ m.to_sub = q /\ m.session = n.session /\ m.near = n.near
  BY <1>2, <1>3 DEF Node
<1> HIDE DEF m
<1>5. \A b : SubsOf(m, b) = SubsOf(n, b)
  BY <1>2, <1>4 DEF SubsOf
<1>6. \A v \in Rover : Placed(m, v)
  BY <1>4, <1>5, PlacedKept
<1>7. \A l, up : Listens(l, n.to_sub, n.subs, up) => Listens(l, m.to_sub, m.subs, up)
  BY <1>2, <1>3, <1>4 DEF Listens
<1> QED
  BY <1>1, <1>4, <1>6, <1>7

\* Whatever was lost, all channels of the map are subscribed to again.
LEMMA ResubscribeEffect ==
    ASSUME NEW n \in Node, \A v \in Rover : Placed(n, v)
    PROVE  LET m == init_sub_context(n)
           IN /\ m \in Node /\ \A v \in Rover : Placed(m, v)
              /\ \A l, up : Listens(l, n.to_sub, n.subs, up) => Listens(l, m.to_sub, m.subs, TRUE)
<1> DEFINE D == DOMAIN n.subs
           q == n.to_sub \o SetToSeq([op : {"SUBSCRIBE"}, base : D])
           m == [n EXCEPT !.to_sub = q]
<1>0. D \in SUBSET Base /\ n.to_sub \in Seq(SubCommand)
  BY SubsType DEF Node
<1>1. init_sub_context(n) = m
  BY DEF init_sub_context, Node
<1>2. /\ q \in Seq(SubCommand)
      /\ \A l, b : Heard(l, q, b) <=> IF b \in D THEN TRUE ELSE Heard(l, n.to_sub, b)
  <2>1. "SUBSCRIBE" \in {"SUBSCRIBE", "UNSUBSCRIBE"}
    OBVIOUS
  <2>2. /\ q \in Seq(SubCommand)
        /\ \A l : \A b : Heard(l, q, b) <=>
                          IF b \in D THEN "SUBSCRIBE" = "SUBSCRIBE" ELSE Heard(l, n.to_sub, b)
    <3> DEFINE p == n.to_sub
    <3>1. p \in Seq(SubCommand)
      BY <1>0
    <3> HIDE DEF D, p
    <3>2. ASSUME NEW l
          PROVE  LET s == SetToSeq([op : {"SUBSCRIBE"}, base : D])
                 IN /\ p \o s \in Seq(SubCommand)
                    /\ \A b : Heard(l, p \o s, b) <=>
                          IF b \in D THEN "SUBSCRIBE" = "SUBSCRIBE" ELSE Heard(l, p, b)
      BY <1>0, <2>1, <3>1, HeardAll
    <3> QED
      BY <3>2 DEF p
  <2> QED
    BY <2>2
<1> HIDE DEF q
<1>3. m \in Node /\ m.subs = n.subs /\ m.to_sub = q /\ m.session = n.session /\ m.near = n.near
  BY <1>2 DEF Node
<1> HIDE DEF m
<1>4. \A b : SubsOf(m, b) = SubsOf(n, b)
  BY <1>3 DEF SubsOf
<1>5. \A v \in Rover : Placed(m, v)
  BY <1>3, <1>4, PlacedKept
<1>6. \A l, up : Listens(l, n.to_sub, n.subs, up) => Listens(l, m.to_sub, m.subs, TRUE)
  BY <1>0, <1>2, <1>3 DEF Listens
<1> QED
  BY <1>1, <1>3, <1>5, <1>6

\* The rovers of bases that are not active are stopped, empty channels released.
LEMMA CheckActiveEffect ==
    ASSUME NEW n \in Node, \A v \in Rover : Placed(n, v)
    PROVE  LET m == check_active_base_channel(n)
           IN /\ m \in Node /\ \A v \in Rover : Placed(m, v)
              /\ \A l, up : Listens(l, n.to_sub, n.subs, up) => Listens(l, m.to_sub, m.subs, up)
<1> DEFINE gone == UNION {SubsOf(n, b) : b \in DOMAIN n.subs \ n.active}
           D == {b \in DOMAIN n.subs : n.subs[b] = {}}
           k == stop(n, gone)
<1>0. DOMAIN n.subs \subseteq Base /\ n.subs \in [DOMAIN n.subs -> SUBSET Rover]
  BY SubsType DEF Node
<1>1. gone \in SUBSET Rover
  BY <1>0 DEF SubsOf
<1> HIDE DEF gone
<1>2. k \in Node /\ k.to_sub = n.to_sub /\ DOMAIN k.subs = DOMAIN n.subs
  BY <1>1, StopEffect
<1>3. \A v \in Rover : Placed(k, v)
  BY <1>1, PlacedFound, StopPlaced
<1>4. \A b \in D : k.subs[b] = {}
  <2>1. k.subs \in [DOMAIN k.subs -> SUBSET Rover]
    BY <1>2, SubsType DEF Node
  <2>2. ASSUME NEW b \in D PROVE k.subs[b] = {}
    <3>1. b \in DOMAIN k.subs /\ SubsOf(n, b) = {} /\ SubsOf(k, b) = k.subs[b]
      BY <1>2 DEF SubsOf
    <3>2. \A v \in Rover : v \notin SubsOf(k, b)
      BY <1>1, <3>1, StopEffect
    <3> QED
      BY <2>1, <3>1, <3>2
  <2> QED
    BY <2>2
<1>5. D \in SUBSET DOMAIN k.subs
  BY <1>2
<1>6. check_active_base_channel(n) = Release(k, D)
  BY DEF check_active_base_channel, gone
<1> HIDE DEF D, k
<1>7. \A l, up : Listens(l, n.to_sub, n.subs, up) => Listens(l, k.to_sub, k.subs, up)
  BY <1>2 DEF Listens
<1> QED
  BY <1>2, <1>3, <1>4, <1>5, <1>6, <1>7, ReleaseEffect

-----------------------------------------------------------------------------
(* Steps.                                                                  *)

\* A step between registered rovers and the maps, Redis apart.
LEMMA RoverStep ==
    ASSUME SubInv,
           NEW r \in Rover, CasterRegisterCallback(r) \/ pub_rover_channel(r) \/ EventCallback(r)
    PROVE  /\ node' \in Node /\ \A v \in Rover : Placed(node', v)
           /\ Listens(listening, node'.to_sub, node'.subs, sub_up)
<1> DEFINE Goal(m) == /\ m \in Node /\ \A v \in Rover : Placed(m, v)
                      /\ Listens(listening, m.to_sub, m.subs, sub_up)
<1>0. /\ node \in Node /\ \A v \in Rover : Placed(node, v)
      /\ Listens(listening, node.to_sub, node.subs, sub_up)
  BY DEF SubInv
<1>1. ASSUME NEW n \in Node, NEW v \in Rover, \A w \in Rover : Placed(n, w),
             Listens(listening, n.to_sub, n.subs, sub_up)
      PROVE  Goal(stop(n, {v}))
  <2>1. {v} \in SUBSET Rover /\ Found(n, v)
    BY <1>1, PlacedFound
  <2> DEFINE m == stop(n, {v})
  <2>2. \A w \in Rover : Placed(m, w)
    BY <1>1, <2>1, StopPlaced
  <2>3. m \in Node /\ m.to_sub = n.to_sub /\ DOMAIN m.subs = DOMAIN n.subs
    BY <2>1, StopEffect
  <2> HIDE DEF m
  <2>4. Listens(listening, m.to_sub, m.subs, sub_up)
    BY <1>1, <2>3 DEF Listens
  <2> QED
    BY <2>2, <2>3, <2>4 DEF m
<1>2. CASE EventCallback(r)
  BY <1>0, <1>1, <1>2 DEF EventCallback
<1>3. CASE pub_rover_channel(r)
  <2>1. PICK p \in Place : node' = sub_near_channel([node EXCEPT !.cache[r] = p], r, node.near[r], p)
    BY <1>3 DEF pub_rover_channel
  <2> DEFINE cache == [node.cache EXCEPT ![r] = p]
             n == [node EXCEPT !.cache = cache]
  <2>2. node' = sub_near_channel(n, r, node.near[r], p)
    BY <1>0, <2>1 DEF Node
  <2>3. r \in Near /\ Running(node, r)
    BY <1>3 DEF pub_rover_channel
  <2>4. cache \in [Near -> Place \cup {None}]
    BY <1>0, <2>3 DEF Node
  <2> HIDE DEF cache
  <2>5. /\ n \in Node /\ n.near = node.near /\ n.session = node.session /\ n.subs = node.subs
        /\ n.to_sub = node.to_sub
    BY <1>0, <2>4 DEF Node
  <2> HIDE DEF n
  <2>6. Running(n, r) /\ \A v \in Rover : Placed(n, v)
    <3>1. \A b : SubsOf(n, b) = SubsOf(node, b)
      BY <2>5 DEF SubsOf
    <3> QED
      BY <1>0, <2>3, <2>5, <3>1, PlacedKept DEF Running
  <2>7. p # None
    BY NamesDiffer
  <2> DEFINE m == sub_near_channel(n, r, node.near[r], p)
  <2>8. /\ m \in Node /\ \A v \in Rover : Placed(m, v)
        /\ m.to_sub = n.to_sub /\ DOMAIN m.subs = DOMAIN n.subs
    BY <2>3, <2>5, <2>6, <2>7, SubNearEffect
  <2> HIDE DEF m
  <2>9. Listens(listening, m.to_sub, m.subs, sub_up)
    BY <1>0, <2>5, <2>8 DEF Listens
  <2> QED
    BY <2>2, <2>8, <2>9 DEF m
<1>4. CASE CasterRegisterCallback(r)
  <2>1. PICK mpt \in IF r \in Near THEN {NearMount} ELSE Base \cup Alias :
           LET n == [node EXCEPT !.session[r] =
                         [@ EXCEPT !.state = "running", !.mount_point = mpt]] IN
           \/ r \in Client /\ node' = Sub_Raw_Data(n, r, mpt)
           \/ node' = stop(n, {r})
           \/ /\ r \in Near /\ Room
              /\ \E p \in Place \cup {None} : node' = sub_near_channel(n, r, mpt, p)
    BY <1>4 DEF CasterRegisterCallback
  <2> DEFINE s == [node.session[r] EXCEPT !.state = "running", !.mount_point = mpt]
             session == [node.session EXCEPT ![r] = s]
             n == [node EXCEPT !.session = session]
  <2>2. \/ r \in Client /\ node' = Sub_Raw_Data(n, r, mpt)
        \/ node' = stop(n, {r})
        \/ r \in Near /\ \E p \in Place \cup {None} : node' = sub_near_channel(n, r, mpt, p)
    BY <1>0, <2>1 DEF Node
  <2>3. node.session[r].state = "registering" /\ node.session \in [Rover -> Session]
    BY <1>0, <1>4 DEF CasterRegisterCallback, Node
  <2>4. /\ s \in Session /\ s.state = "running" /\ s.alias_mpt = node.session[r].alias_mpt
    BY <2>3 DEF Session
  <2> HIDE DEF s
  <2>5. session \in [Rover -> Session] /\ session[r] = s
        /\ \A v \in Rover \ {r} : session[v] = node.session[v]
    BY <2>3, <2>4
  <2> HIDE DEF session
  <2>6. /\ n \in Node /\ n.near = node.near /\ n.session = session /\ n.subs = node.subs
        /\ n.to_sub = node.to_sub
    BY <1>0, <2>5 DEF Node
  <2> HIDE DEF n
  <2>7. \A b : SubsOf(n, b) = SubsOf(node, b)
    BY <2>6 DEF SubsOf
  <2>8. \A v \in Rover \ {r} : Placed(n, v)
    BY <1>0, <2>5, <2>6, <2>7, PlacedKept
  <2>9. Running(n, r) /\ (\A c \in Base : r \notin SubsOf(n, c)) /\ (r \in Near => n.near[r] = None)
    BY <1>0, <2>3, <2>4, <2>5, <2>6, <2>7 DEF Placed, Running
  <2>10. Listens(listening, n.to_sub, n.subs, sub_up)
    BY <1>0, <2>6 DEF Listens
  <2>11. CASE r \in Client /\ node' = Sub_Raw_Data(n, r, mpt)
    <3>1. r \notin Near
      BY <2>11, NamesDiffer
    <3>2. mpt \in Base \cup Alias
      BY <3>1
    <3> QED
      BY <2>6, <2>8, <2>9, <2>10, <2>11, <3>2, SubRawEffect
  <2>12. CASE node' = stop(n, {r})
    <3>1. {r} \in SUBSET Rover /\ Found(n, r)
      BY <2>9 DEF Found
    <3> DEFINE m == stop(n, {r})
    <3>2. \A w \in Rover : Placed(m, w)
      BY <2>6, <2>8, <3>1, StopPlaced
    <3>3. m \in Node /\ m.to_sub = n.to_sub /\ DOMAIN m.subs = DOMAIN n.subs
      BY <2>6, <3>1, StopEffect
    <3> HIDE DEF m
    <3>4. Listens(listening, m.to_sub, m.subs, sub_up)
      BY <2>10, <3>3 DEF Listens
    <3> QED
      BY <2>12, <3>2, <3>3, <3>4 DEF m
  <2>13. ASSUME r \in Near, NEW p \in Place \cup {None}, node' = sub_near_channel(n, r, mpt, p)
         PROVE  Goal(node')
    <3> DEFINE m == sub_near_channel(n, r, mpt, p)
    <3>1. Placed(n, r)
      <4>1. None \notin Base
        BY NamesDiffer
      <4>2. \A b \in Base : s.alias_mpt # b
        BY <1>0, <2>4, <2>6, <2>9, <2>13, <4>1 DEF Placed
      <4> QED
        BY <2>5, <2>6, <2>9, <2>13, <4>1, <4>2 DEF Placed
    <3>2. \A v \in Rover : Placed(n, v)
      BY <2>8, <3>1
    <3>3. /\ m \in Node /\ \A v \in Rover : Placed(m, v)
          /\ m.to_sub = n.to_sub /\ DOMAIN m.subs = DOMAIN n.subs
      BY <2>6, <2>9, <2>13, <3>2, SubNearEffect
    <3> HIDE DEF m
    <3>4. Listens(listening, m.to_sub, m.subs, sub_up)
      BY <2>10, <3>3 DEF Listens
    <3> QED
      BY <2>13, <3>3, <3>4 DEF m
  <2> QED
    BY <2>2, <2>11, <2>12, <2>13
<1> QED
  BY <1>2, <1>3, <1>4

\* Redis executes a command of the pub connection, or answers arrive.
LEMMA PubStep ==
    ASSUME SubInv,
           \/ TimeoutCallback \/ Execute \/ Redis_Pub_Disconnect_Cb
           \/ Redis_Update_Active_Base_Callback \/ Redis_Geo_Radius_Callback
    PROVE  /\ node' \in Node /\ \A v \in Rover : Placed(node', v)
           /\ Listens(listening, node'.to_sub, node'.subs, sub_up)
           /\ geo' \in SUBSET Base /\ replies' \in Seq(Reply)
<1>0. /\ node \in Node /\ \A v \in Rover : Placed(node, v)
      /\ Listens(listening, node.to_sub, node.subs, sub_up)
      /\ online \in SUBSET Base /\ geo \in SUBSET Base /\ replies \in Seq(Reply)
  BY DEF SubInv
<1>1. ASSUME NEW q \in Seq(PubCommand), NEW m, m = [node EXCEPT !.to_pub = q]
      PROVE  /\ m \in Node /\ \A v \in Rover : Placed(m, v)
             /\ m.near = node.near /\ m.active = node.active
             /\ m.to_sub = node.to_sub /\ m.subs = node.subs
             /\ Listens(listening, m.to_sub, m.subs, sub_up)
  <2>1. /\ m \in Node /\ m.near = node.near /\ m.session = node.session
        /\ m.to_sub = node.to_sub /\ m.subs = node.subs /\ m.active = node.active
    BY <1>0, <1>1 DEF Node
  <2>2. \A b : SubsOf(m, b) = SubsOf(node, b)
    BY <2>1 DEF SubsOf
  <2>3. \A v \in Rover : Placed(m, v)
    BY <1>0, <2>1, <2>2, PlacedKept
  <2> QED
    BY <1>0, <2>1, <2>3
<1>2. Refresh \in Seq(PubCommand)
  BY DEF Refresh, PubCommand
<1>3. CASE TimeoutCallback
  BY <1>0, <1>1, <1>2, <1>3 DEF TimeoutCallback, UnchangedCluster, UnchangedConnections
<1>4. CASE Redis_Pub_Disconnect_Cb
  <2>1. replies' = <<>> /\ geo' = geo /\ node' = [node EXCEPT !.to_pub = Refresh]
    BY <1>4 DEF Redis_Pub_Disconnect_Cb, UnchangedCluster
  <2> QED
    BY <1>0, <1>1, <1>2, <2>1
<1>5. CASE Execute
  <2> DEFINE c == Head(node.to_pub)
  <2>1. node.to_pub \in Seq(PubCommand) /\ node.to_pub # <<>>
        /\ node' = [node EXCEPT !.to_pub = Tail(@)]
    BY <1>0, <1>5 DEF Execute, Node
  <2>2. Tail(node.to_pub) \in Seq(PubCommand) /\ c \in PubCommand
    BY <2>1
  <2>3. geo' \in SUBSET Base /\ replies' \in Seq(Reply)
    <3>1. CASE c.op = "online" /\ geo' = geo
               /\ replies' = Append(replies, [op |-> "online", set |-> online])
      <4>1. [op |-> "online", set |-> online] \in Reply
        BY <1>0 DEF Reply
      <4> QED
        BY <1>0, <3>1, <4>1
    <3>2. CASE c.op = "radius" /\ geo' = geo
               /\ replies' = Append(replies, [op |-> "radius", key |-> c.key, place |-> c.place,
                                              known |-> geo \cap ToSet(Closest[c.place])])
      <4>1. c.key \in Near /\ c.place \in Place
        BY <2>2, <3>2 DEF PubCommand
      <4>2. [op |-> "radius", key |-> c.key, place |-> c.place,
             known |-> geo \cap ToSet(Closest[c.place])] \in Reply
        BY <1>0, <4>1 DEF Reply
      <4> QED
        BY <1>0, <3>2, <4>2
    <3>3. CASE c.op = "remove" /\ geo' = geo \ {c.base} /\ UNCHANGED replies
      BY <1>0, <3>3
    <3> QED
      BY <1>5, <3>1, <3>2, <3>3 DEF Execute
  <2> QED
    BY <1>1, <2>1, <2>2, <2>3
<1>6. ASSUME NEW op, Answered(op)
      PROVE  /\ geo' = geo /\ replies' \in Seq(Reply)
             /\ Head(replies) \in Reply /\ Head(replies).op = op
  <2>1. replies # <<>> /\ Head(replies).op = op /\ replies' = Tail(replies) /\ geo' = geo
    BY <1>6 DEF Answered, UnchangedCluster
  <2>2. \A T : \A q \in Seq(T) : q # <<>> => Head(q) \in T /\ Tail(q) \in Seq(T)
    OBVIOUS
  <2> QED
    BY <1>0, <2>1, <2>2
<1>7. CASE Redis_Update_Active_Base_Callback
  <2> DEFINE n == Refilled(node, Head(replies).set)
  <2>1. Answered("online") /\ node' = check_active_base_channel(n)
    BY <1>7 DEF Redis_Update_Active_Base_Callback
  <2>2. Head(replies).set \in SUBSET Base
    BY <1>6, <2>1 DEF Reply
  <2>3. /\ n \in Node /\ n.near = node.near /\ n.session = node.session
        /\ n.to_sub = node.to_sub /\ n.subs = node.subs
    BY <1>0, <2>2 DEF Refilled, Node
  <2> HIDE DEF n
  <2>4. \A b : SubsOf(n, b) = SubsOf(node, b)
    BY <2>3 DEF SubsOf
  <2>5. \A v \in Rover : Placed(n, v)
    BY <1>0, <2>3, <2>4, PlacedKept
  <2>6. /\ node' \in Node /\ \A v \in Rover : Placed(node', v)
        /\ Listens(listening, node'.to_sub, node'.subs, sub_up)
    BY <1>0, <2>1, <2>3, <2>5, CheckActiveEffect
  <2> QED
    BY <1>0, <1>6, <2>1, <2>6
<1>8. CASE Redis_Geo_Radius_Callback
  <2> DEFINE r == Head(replies).key
             list == Closest[Head(replies).place]
             known == Head(replies).known
             S == node.active \cap known
             i == FirstActive(S, list)
             passed == {list[j] : j \in {j \in DOMAIN list : i = 0 \/ j < i}} \cap known
             q == node.to_pub \o SetToSeq([op : {"remove"}, base : passed])
             n == [node EXCEPT !.to_pub = q]
  <2>1. /\ Answered("radius")
        /\ node' = IF node.near[r] = None THEN node
                   ELSE IF i = 0 THEN NoneFound(n, r)
                   ELSE IF list[i] = node.near[r] THEN n
                   ELSE Move(n, r, list[i])
    BY <1>0, <1>8 DEF Redis_Geo_Radius_Callback, Node
  <2>2. r \in Near /\ Head(replies).place \in Place /\ known \in SUBSET Base
    <3>1. \A a \in Reply : a.op = "radius" =>
            a.key \in Near /\ a.place \in Place /\ a.known \in SUBSET Base
      BY DEF Reply
    <3>2. Head(replies) \in Reply /\ Head(replies).op = "radius"
      BY <1>6, <2>1
    <3> QED
      BY <3>1, <3>2
  <2>3. list \in Seq(Base) /\ S \in SUBSET Base
    BY <1>0, <2>2, ConstantsOK DEF Place, Node
  <2>4. i # 0 => list[i] \in Base
    <3> HIDE DEF list, S
    <3>1. i # 0 => list[i] \in S
      BY <2>3, FirstActiveEffect
    <3> QED
      BY <2>3, <3>1
  <2>5. q \in Seq(PubCommand)
    <3> DEFINE C == [op : {"remove"}, base : passed]
    <3>1. IsFiniteSet(passed)
      BY <2>2, ConstantsOK, FS_Subset
    <3> HIDE DEF passed
    <3>2. IsFiniteSet(C)
      <4> DEFINE g == [d \in passed |-> [op |-> "remove", base |-> d]]
      <4>1. g \in Surjection(passed, C)
        BY DEF Surjection
      <4> QED
        BY <3>1, <4>1, FS_Surjection
    <3>3. passed \subseteq Base
      BY <2>2 DEF passed
    <3>4. C \subseteq PubCommand
      BY <3>3 DEF PubCommand
    <3> HIDE DEF C
    <3>5. SetToSeq(C) \in Seq(C)
      BY <3>2, SetAsSeq
    <3>6. \A T, U : T \subseteq U => \A p \in Seq(U), s \in Seq(T) : p \o s \in Seq(U)
      OBVIOUS
    <3>7. node.to_pub \in Seq(PubCommand)
      BY <1>0 DEF Node
    <3> QED
      BY <3>4, <3>5, <3>6, <3>7 DEF C
  <2> HIDE DEF r, list, i, q
  <2>6. /\ n \in Node /\ \A v \in Rover : Placed(n, v)
        /\ n.near = node.near /\ n.to_sub = node.to_sub /\ n.subs = node.subs
        /\ Listens(listening, n.to_sub, n.subs, sub_up)
    BY <1>1, <2>5
  <2> HIDE DEF n
  <2> DEFINE Goal == /\ node' \in Node /\ \A v \in Rover : Placed(node', v)
                     /\ Listens(listening, node'.to_sub, node'.subs, sub_up)
  <2>7. ASSUME node.near[r] = None PROVE Goal
    BY <1>0, <2>1, <2>7
  <2>8. ASSUME node.near[r] # None, i = 0 PROVE Goal
    <3> DEFINE m == stop(n, {r})
    <3>1. node' = m /\ {r} \in SUBSET Rover
      BY <2>1, <2>2, <2>8 DEF NoneFound, Rover
    <3>2. \A w \in Rover : Placed(m, w)
      BY <2>6, <3>1, PlacedFound, StopPlaced
    <3>3. m \in Node /\ m.to_sub = n.to_sub /\ DOMAIN m.subs = DOMAIN n.subs
      BY <2>6, <3>1, StopEffect
    <3> HIDE DEF m
    <3>4. Listens(listening, m.to_sub, m.subs, sub_up)
      BY <2>6, <3>3 DEF Listens
    <3> QED
      BY <3>1, <3>2, <3>3, <3>4
  <2>9. ASSUME node.near[r] # None, i # 0, list[i] = node.near[r] PROVE Goal
    <3>1. node' = n
      BY <2>1, <2>9
    <3> QED
      BY <2>6, <3>1
  <2>10. ASSUME node.near[r] # None, i # 0, list[i] # node.near[r] PROVE Goal
    <3> DEFINE b == list[i]  m == Move(n, r, b)
    <3>1. node' = m /\ b \in Base /\ n.near[r] # None
      BY <2>1, <2>4, <2>6, <2>10
    <3> HIDE DEF b
    <3>2. /\ m \in Node /\ \A v \in Rover : Placed(m, v)
          /\ \A l, up : Listens(l, n.to_sub, n.subs, up) => Listens(l, m.to_sub, m.subs, up)
      BY <2>2, <2>6, <3>1, MoveEffect
    <3> HIDE DEF m
    <3> QED
      BY <2>6, <3>1, <3>2
  <2>11. Goal
    BY <2>7, <2>8, <2>9, <2>10
  <2> QED
    BY <1>0, <1>6, <2>1, <2>11
<1> QED
  BY <1>3, <1>4, <1>5, <1>7, <1>8

\* The sub connection.
LEMMA SubStep ==
    ASSUME SubInv, ExecuteSub \/ Redis_Sub_Disconnect_Cb \/ Redis_Sub_Connect_Cb
    PROVE  /\ node' \in Node /\ \A v \in Rover : Placed(node', v)
           /\ Listens(listening', node'.to_sub, node'.subs, sub_up')
           /\ listening' \in SUBSET Base
<1>0. /\ node \in Node /\ \A v \in Rover : Placed(node, v)
      /\ Listens(listening, node.to_sub, node.subs, sub_up)
      /\ listening \in SUBSET Base /\ sub_up \in BOOLEAN
      /\ node.to_sub \in Seq(SubCommand) /\ DOMAIN node.subs \subseteq Base
  BY SubsType DEF SubInv, Node
<1>1. ASSUME NEW q \in Seq(SubCommand), node' = [node EXCEPT !.to_sub = q]
      PROVE  /\ node' \in Node /\ \A v \in Rover : Placed(node', v)
             /\ node'.to_sub = q /\ node'.subs = node.subs
  <2>1. /\ node' \in Node /\ node'.near = node.near /\ node'.session = node.session
        /\ node'.to_sub = q /\ node'.subs = node.subs
    BY <1>0, <1>1 DEF Node
  <2>2. \A b : SubsOf(node', b) = SubsOf(node, b)
    BY <2>1 DEF SubsOf
  <2>3. \A v \in Rover : Placed(node', v)
    BY <1>0, <2>1, <2>2, PlacedKept
  <2> QED
    BY <2>1, <2>3
<1>2. CASE ExecuteSub
  <2> DEFINE q == node.to_sub  c == Head(q)
  <2>1. /\ sub_up' = sub_up /\ q # <<>> /\ node' = [node EXCEPT !.to_sub = Tail(q)]
        /\ listening' = IF c.op = "SUBSCRIBE" THEN listening \cup {c.base} ELSE listening \ {c.base}
    BY <1>2 DEF ExecuteSub
  <2>2. Tail(q) \in Seq(SubCommand) /\ c \in SubCommand
    BY <1>0, <2>1
  <2>3. c.base \in Base
    BY <2>2 DEF SubCommand
  <2>4. \A b : b \in listening' <=> IF c.base = b THEN c.op = "SUBSCRIBE" ELSE b \in listening
    BY <2>1
  <2>5. \A b : Heard(listening', Tail(q), b) <=> Heard(listening, q, b)
    BY <1>0, <2>1, <2>4, HeardTail
  <2>6. /\ node' \in Node /\ \A v \in Rover : Placed(node', v)
        /\ node'.to_sub = Tail(q) /\ node'.subs = node.subs
    BY <1>1, <2>1, <2>2
  <2>7. listening' \in SUBSET Base
    BY <1>0, <2>1, <2>3
  <2> QED
    BY <1>0, <2>1, <2>5, <2>6, <2>7 DEF Listens
<1>3. CASE Redis_Sub_Disconnect_Cb
  <2>1. /\ sub_up' = FALSE /\ listening' = {} /\ node' = [node EXCEPT !.to_sub = <<>>]
    BY <1>3 DEF Redis_Sub_Disconnect_Cb
  <2>2. <<>> \in Seq(SubCommand)
    OBVIOUS
  <2>3. \A b : ~Heard({}, <<>>, b)
    BY DEF Heard
  <2>4. /\ node' \in Node /\ \A v \in Rover : Placed(node', v)
        /\ node'.to_sub = <<>> /\ node'.subs = node.subs
    BY <1>1, <2>1, <2>2
  <2> QED
    BY <2>1, <2>3, <2>4 DEF Listens
<1>4. CASE Redis_Sub_Connect_Cb
  <2>1. sub_up' = TRUE /\ listening' = listening /\ node' = init_sub_context(node)
    BY <1>4 DEF Redis_Sub_Connect_Cb
  <2> QED
    BY <1>0, <2>1, ResubscribeEffect
<1> QED
  BY <1>2, <1>3, <1>4

\* Data arrive, which changes no place.
LEMMA DataStep ==
    ASSUME SubInv, NEW b \in Base, Redis_SUB_Base_Callback(b)
    PROVE  /\ node' \in Node /\ \A v \in Rover : Placed(node', v)
           /\ node'.to_sub = node.to_sub /\ node'.subs = node.subs
<1> DEFINE session == [r \in Rover |-> IF r \in SubsOf(node, b)
                                        THEN [node.session[r] EXCEPT !.fed = TRUE]
                                        ELSE node.session[r]]
<1>0. node \in Node /\ (\A v \in Rover : Placed(node, v)) /\ node.session \in [Rover -> Session]
  BY DEF SubInv, Node
<1>1. node' = [node EXCEPT !.session = session]
  BY <1>0 DEF Redis_SUB_Base_Callback, Node
<1>2. /\ session \in [Rover -> Session]
      /\ \A r \in Rover : /\ session[r].state = node.session[r].state
                          /\ session[r].alias_mpt = node.session[r].alias_mpt
  BY <1>0 DEF Session
<1> HIDE DEF session
<1>3. /\ node' \in Node /\ node'.near = node.near /\ node'.session = session
      /\ node'.to_sub = node.to_sub /\ node'.subs = node.subs
  BY <1>0, <1>1, <1>2 DEF Node
<1>4. \A c : SubsOf(node', c) = SubsOf(node, c)
  BY <1>3 DEF SubsOf
<1>5. \A v \in Rover : Placed(node', v)
  BY <1>0, <1>2, <1>3, <1>4, PlacedKept
<1> QED
  BY <1>3, <1>5

\* Every step keeps the invariant.
LEMMA SubInvStep == SubInv /\ [Next]_vars => SubInv'
<1> SUFFICES ASSUME SubInv, [Next]_vars PROVE SubInv'
  OBVIOUS
<1>0. /\ online \in SUBSET Base /\ geo \in SUBSET Base /\ node \in Node
      /\ replies \in Seq(Reply) /\ sub_up \in BOOLEAN /\ listening \in SUBSET Base
      /\ changes \in 0 .. MaxChanges /\ pub_drops \in Nat /\ sub_drops \in Nat
      /\ pub_drops + sub_drops <= MaxDrops
      /\ \A r \in Rover : Placed(node, r)
      /\ Listens(listening, node.to_sub, node.subs, sub_up)
      /\ MaxChanges \in Nat /\ MaxDrops \in Nat
  BY ConstantsOK DEF SubInv
<1>1. ASSUME NEW r \in Rover, CasterRegisterCallback(r) \/ pub_rover_channel(r) \/ EventCallback(r)
      PROVE  SubInv'
  <2>1. UNCHANGED <<online, geo, changes, replies, sub_up, listening, pub_drops, sub_drops>>
    BY <1>1 DEF CasterRegisterCallback, pub_rover_channel, EventCallback, UnchangedCluster,
         UnchangedConnections
  <2>2. /\ node' \in Node /\ \A v \in Rover : Placed(node', v)
        /\ Listens(listening, node'.to_sub, node'.subs, sub_up)
    BY <1>1, RoverStep
  <2> QED
    BY <1>0, <2>1, <2>2 DEF SubInv
<1>2. CASE \E b \in Base : Redis_SUB_Base_Callback(b)
  <2>1. UNCHANGED <<online, geo, changes, replies, sub_up, listening, pub_drops, sub_drops>>
    BY <1>2 DEF Redis_SUB_Base_Callback, UnchangedCluster, UnchangedConnections
  <2>2. /\ node' \in Node /\ \A v \in Rover : Placed(node', v)
        /\ node'.to_sub = node.to_sub /\ node'.subs = node.subs
    BY <1>2, DataStep
  <2> QED
    BY <1>0, <2>1, <2>2 DEF SubInv
<1>3. ASSUME NEW b \in Base, BaseChanges(b) \/ set_base_coord_info(b) PROVE SubInv'
  <2>1. UNCHANGED <<node, replies, sub_up, listening, pub_drops, sub_drops>>
    BY <1>3 DEF BaseChanges, set_base_coord_info, UnchangedNode, UnchangedConnections
  <2>2. online' \in SUBSET Base /\ geo' \in SUBSET Base /\ changes' \in 0 .. MaxChanges
    BY <1>0, <1>3 DEF BaseChanges, set_base_coord_info
  <2> QED
    BY <1>0, <2>1, <2>2 DEF SubInv
<1>4. CASE \/ TimeoutCallback \/ Execute \/ Redis_Pub_Disconnect_Cb
           \/ Redis_Update_Active_Base_Callback \/ Redis_Geo_Radius_Callback
  <2>1. /\ node' \in Node /\ \A v \in Rover : Placed(node', v)
        /\ Listens(listening, node'.to_sub, node'.subs, sub_up)
        /\ geo' \in SUBSET Base /\ replies' \in Seq(Reply)
    BY <1>4, PubStep
  <2>2. UNCHANGED <<online, changes, sub_up, listening, sub_drops>>
    BY <1>4 DEF TimeoutCallback, Execute, Redis_Pub_Disconnect_Cb, Answered,
         Redis_Update_Active_Base_Callback, Redis_Geo_Radius_Callback,
         UnchangedCluster, UnchangedConnections
  <2>3. \/ pub_drops' = pub_drops
        \/ pub_drops' = pub_drops + 1 /\ pub_drops + sub_drops < MaxDrops
    BY <1>4 DEF TimeoutCallback, Execute, Redis_Pub_Disconnect_Cb, Answered,
         Redis_Update_Active_Base_Callback, Redis_Geo_Radius_Callback,
         UnchangedConnections
  <2>4. pub_drops' \in Nat /\ pub_drops' + sub_drops <= MaxDrops
    BY <1>0, <2>3
  <2> QED
    BY <1>0, <2>1, <2>2, <2>4 DEF SubInv
<1>5. CASE ExecuteSub \/ Redis_Sub_Disconnect_Cb \/ Redis_Sub_Connect_Cb
  <2>1. /\ node' \in Node /\ \A v \in Rover : Placed(node', v)
        /\ Listens(listening', node'.to_sub, node'.subs, sub_up')
        /\ listening' \in SUBSET Base
    BY <1>5, SubStep
  <2>2. UNCHANGED <<online, geo, changes, replies, pub_drops>> /\ sub_up' \in BOOLEAN
    BY <1>0, <1>5 DEF ExecuteSub, Redis_Sub_Disconnect_Cb, Redis_Sub_Connect_Cb, UnchangedCluster
  <2>3. \/ sub_drops' = sub_drops
        \/ sub_drops' = sub_drops + 1 /\ pub_drops + sub_drops < MaxDrops
    BY <1>5 DEF ExecuteSub, Redis_Sub_Disconnect_Cb, Redis_Sub_Connect_Cb
  <2>4. sub_drops' \in Nat /\ pub_drops + sub_drops' <= MaxDrops
    BY <1>0, <2>3
  <2> QED
    BY <1>0, <2>1, <2>2, <2>4 DEF SubInv
<1>6. CASE UNCHANGED vars
  BY <1>0, <1>6 DEF vars, SubInv
<1> QED
  BY <1>1, <1>2, <1>3, <1>4, <1>5, <1>6 DEF Next

\* At first no rover is anywhere.
LEMMA SubInvInit == Init => SubInv
<1> SUFFICES ASSUME Init PROVE SubInv
  OBVIOUS
<1> USE DEF Init
<1>0. MaxChanges \in Nat /\ MaxDrops \in Nat /\ None \notin Base
  BY ConstantsOK, NamesDiffer
<1>1. Fresh("registering") \in Session /\ Fresh("registering").alias_mpt = None
      /\ Fresh("registering").state = "registering"
  BY DEF Fresh, Session
<1>2. node.subs \in Subs /\ DOMAIN node.subs = {}
  <2>1. [b \in {} |-> {}] \in [{} -> SUBSET Rover]
    OBVIOUS
  <2> QED
    BY <2>1, SubsType
<1>3. node \in Node
  BY <1>1, <1>2 DEF Node
<1>4. \A r \in Rover : Placed(node, r)
  BY <1>0, <1>1, <1>2 DEF Placed, SubsOf, Running
<1>5. Listens(listening, node.to_sub, node.subs, sub_up)
  BY <1>2 DEF Listens, Heard
<1>6. online \in SUBSET Base /\ geo \in SUBSET Base /\ listening \in SUBSET Base
  OBVIOUS
<1>7. replies \in Seq(Reply) /\ sub_up \in BOOLEAN
  OBVIOUS
<1>8. changes \in 0 .. MaxChanges /\ pub_drops \in Nat /\ sub_drops \in Nat
      /\ pub_drops + sub_drops <= MaxDrops
  BY <1>0
<1> QED
  BY <1>3, <1>4, <1>5, <1>6, <1>7, <1>8 DEF SubInv

\* The invariant of the following theorems.
LEMMA SubInvAlways == Spec => []SubInv
BY SubInvInit, SubInvStep, PTL DEF Spec

-----------------------------------------------------------------------------

\* The state keeps its types.
THEOREM SubTypeCorrect == Spec => []TypeOK
<1>1. SubInv => TypeOK
  <2> SUFFICES ASSUME SubInv PROVE TypeOK
    OBVIOUS
  <2>1. MaxDrops \in Nat
    BY ConstantsOK
  <2>2. {pub_drops, sub_drops} \subseteq 0 .. MaxDrops
    BY <2>1 DEF SubInv
  <2>3. DOMAIN node.subs \subseteq Base /\ \A b \in DOMAIN node.subs : node.subs[b] \subseteq Rover
    BY SubsType DEF SubInv, Node
  <2> QED
    BY <2>2, <2>3 DEF SubInv, TypeOK, Node
<1> QED
  BY <1>1, SubInvAlways, PTL

\* _base_sub_map and the map of nearest-base rovers hold the pointers of sessions that
\* run: stop() finds every entry of the session, whatever name it asked for, however
\* often it was moved, and whatever answers were lost.
THEOREM SubscribersRunAlways == Spec => []SubscribersRun
<1>1. SubInv => SubscribersRun
  <2> SUFFICES ASSUME SubInv PROVE SubscribersRun
    OBVIOUS
  <2>1. \A b \in Base : SubsOf(node, b) \subseteq Rover
    BY SubsType DEF SubInv, Node, SubsOf
  <2> QED
    BY <2>1 DEF SubInv, SubscribersRun, Placed, Rover
<1> QED
  BY <1>1, SubInvAlways, PTL

\* Data of two bases are never mixed: a session is in the channel of the base that it
\* was told, and in no other.
THEOREM OneBaseAlways == Spec => []OneBase
<1>1. SubInv => OneBase
  BY DEF SubInv, OneBase, Placed
<1> QED
  BY <1>1, SubInvAlways, PTL

\* The node subscribes at Redis to the channels of its map and to no others, after any
\* losses of the sub connection.
THEOREM ListensToMapAlways == Spec => []ListensToMap
<1>1. SubInv => ListensToMap
  <2>1. \A b : WillListen(b) <=> Heard(listening, node.to_sub, b)
    BY DEF WillListen, Heard
  <2> QED
    BY <2>1 DEF SubInv, ListensToMap, Listens
<1> QED
  BY <1>1, SubInvAlways, PTL

=============================================================================
