------------------------- MODULE SessionLifecycleProofs -------------------------
(***************************************************************************)
(* Who frees a socket, to which sessions AUTH and CASTER keep pointers and *)
(* how the limit of an account is kept.                                    *)
(***************************************************************************)
EXTENDS SessionLifecycle, TLAPS, FiniteSetTheorems

\* How many elements of q are in S: none, one, or (2) more.
Count(q, S) ==
    IF \A i \in DOMAIN q : q[i] \notin S THEN 0
    ELSE IF \A i, j \in DOMAIN q : q[i] \in S /\ q[j] \in S => i = j THEN 1
    ELSE 2
Num(b) == IF b THEN 1 ELSE 0

\* What is under way at a node.  A verification or a request for a connection is
\* only ever under way at the node that accepted it.
Message == [cmd : {"VERIFY", "LIST", "DEL", "KICK"}, conn : Conn]
           \cup [cmd : {"ADD"}, conn : Conn, stamp : Nat]
Result == [cmd : {"VERIFY"}, conn : Conn, ok : BOOLEAN]
          \cup [cmd : {"LIST"}, conn : Conn, recs : [Conn -> Nat]]
Here(n) == {c \in Conn : At[c] = n}
Home(T, n) == {m \in T : m.cmd = "VERIFY" => m.conn \in Here(n)}
RequestHere(n) == [op : {"CREATE", "DESTROY"}, conn : Here(n)]

AskVerify(c) == {Cmd(c, "VERIFY")}
ToldVerify(c) == {a \in Result : a.cmd = "VERIFY" /\ a.conn = c}
ToDo(op, c) == {[op |-> op, conn |-> c]}

\* Pipelines and answers, and the number of verifications of c in them.
Pipes == {p \in [Node -> [Context -> Seq(Message)]] :
             \A n \in Node : p[n]["auth"] \in Seq(Home(Message, n))}
Results == {a \in [Node -> [Context -> Seq(Result)]] :
               \A n \in Node : a[n]["auth"] \in Seq(Home(Result, n))}
Queues == {q \in [Node -> Seq(Request)] : \A n \in Node : q[n] \in Seq(RequestHere(n))}
Asking(p, c) == Count(p[At[c]]["auth"], AskVerify(c))
Telling(a, c) == Count(a[At[c]]["auth"], ToldVerify(c))
Doing(q, op, c) == Count(q[At[c]], ToDo(op, c))

Types ==
    /\ peer \in [Conn -> {"new", "up", "gone"}]
    /\ bev \in SUBSET Conn /\ listening \in SUBSET Conn
    /\ session \in [Conn -> {"none", "starting", "running", "stopped"}]
    /\ logins \in SUBSET Conn /\ registered \in SUBSET Conn
    /\ queue \in Queues
    /\ up \in [Node -> BOOLEAN]
    /\ pipe \in Pipes /\ answers \in Results
    /\ rec \in [Context -> [Conn -> Nat]] /\ clock \in Nat

\* A socket that is held has one owner, counted with everything that would become
\* one, and a stopped session one request to be destroyed.
Owned(c) ==
    /\ Num(c \in listening) + Asking(pipe, c) + Telling(answers, c) + Doing(queue, "CREATE", c)
         + Num(session[c] # "none") = Num(c \in bev)
    /\ Doing(queue, "DESTROY", c) = Num(session[c] = "stopped")
    /\ peer[c] = "new" => c \notin bev
LoggedIn(c) == c \in logins <=> session[c] \in {"starting", "running"}
\* Nothing is left of a process that ended but its commands.
Dead(n) ==
    /\ queue[n] = <<>> /\ answers[n]["auth"] = <<>>
    /\ \A c \in Here(n) : session[c] = "none" /\ c \notin listening

SessInv ==
    /\ Types
    /\ \A c \in Conn : LoggedIn(c) /\ (up[At[c]] => Owned(c))
    /\ \A n \in Node : up[n] \/ Dead(n)

-----------------------------------------------------------------------------
(* Counts.                                                                 *)

LEMMA CountType == \A q, S : Count(q, S) \in {0, 1, 2}
BY DEF Count

\* What is added is counted.
LEMMA CountConcat ==
    ASSUME NEW T, NEW q \in Seq(T), NEW s \in Seq(T), NEW S
    PROVE  /\ Count(s, S) = 0 => Count(q \o s, S) = Count(q, S)
           /\ Count(q, S) = 0 => Count(q \o s, S) = Count(s, S)
<1> DEFINE r == q \o s  n == Len(q)
<1>1. /\ n \in Nat /\ Len(s) \in Nat /\ DOMAIN q = 1 .. n /\ DOMAIN r = 1 .. n + Len(s)
      /\ DOMAIN s = 1 .. Len(s)
      /\ \A i \in DOMAIN q : i \in DOMAIN r /\ r[i] = q[i]
      /\ \A i \in DOMAIN r : ~(i <= n) => i - n \in DOMAIN s /\ r[i] = s[i - n]
      /\ \A i \in DOMAIN s : i + n \in DOMAIN r /\ r[i + n] = s[i]
  OBVIOUS
<1> HIDE DEF r, n
<1>2. ASSUME Count(s, S) = 0 PROVE Count(r, S) = Count(q, S)
  <2>1. \A i \in DOMAIN s : s[i] \notin S
    BY <1>2 DEF Count
  <2>2. \A i \in DOMAIN r : r[i] \in S => i \in DOMAIN q
    BY <1>1, <2>1
  <2> QED
    BY <1>1, <2>2 DEF Count
<1>3. ASSUME Count(q, S) = 0 PROVE Count(r, S) = Count(s, S)
  <2>1. \A i \in DOMAIN q : q[i] \notin S
    BY <1>3 DEF Count
  <2>2. \A i \in DOMAIN r : r[i] \in S => i - n \in DOMAIN s /\ s[i - n] \in S /\ i \in Nat
    BY <1>1, <2>1
  <2>3. \A i \in DOMAIN s : i + n \in DOMAIN r /\ r[i + n] = s[i] /\ i \in Nat
    BY <1>1
  <2>4. (\A i \in DOMAIN r : r[i] \notin S) <=> (\A i \in DOMAIN s : s[i] \notin S)
    BY <2>2, <2>3
  <2>5. ASSUME \A i, j \in DOMAIN r : r[i] \in S /\ r[j] \in S => i = j
        PROVE  \A i, j \in DOMAIN s : s[i] \in S /\ s[j] \in S => i = j
    <3> SUFFICES ASSUME NEW i \in DOMAIN s, NEW j \in DOMAIN s, s[i] \in S, s[j] \in S PROVE i = j
      OBVIOUS
    <3>1. i + n = j + n
      BY <2>3, <2>5
    <3> QED
      BY <1>1, <2>3, <3>1
  <2>6. ASSUME \A i, j \in DOMAIN s : s[i] \in S /\ s[j] \in S => i = j
        PROVE  \A i, j \in DOMAIN r : r[i] \in S /\ r[j] \in S => i = j
    <3> SUFFICES ASSUME NEW i \in DOMAIN r, NEW j \in DOMAIN r, r[i] \in S, r[j] \in S PROVE i = j
      OBVIOUS
    <3>1. i - n = j - n
      BY <2>2, <2>6
    <3> QED
      BY <1>1, <2>2, <3>1
  <2> QED
    BY <2>4, <2>5, <2>6 DEF Count
<1> QED
  BY <1>2, <1>3 DEF r

\* One element.
LEMMA CountOne ==
    ASSUME NEW T, NEW x \in T, NEW S
    PROVE  <<x>> \in Seq(T) /\ Count(<<x>>, S) = Num(x \in S)
<1>1. /\ <<x>> \in Seq(T) /\ DOMAIN <<x>> = {1} /\ <<x>>[1] = x
  OBVIOUS
<1> QED
  BY <1>1 DEF Count, Num

LEMMA CountAppend ==
    ASSUME NEW T, NEW q \in Seq(T), NEW x \in T, NEW S
    PROVE  /\ Append(q, x) \in Seq(T)
           /\ x \notin S => Count(Append(q, x), S) = Count(q, S)
           /\ Count(q, S) = 0 => Count(Append(q, x), S) = Num(x \in S)
<1> DEFINE s == <<x>>
<1>1. Append(q, x) = q \o s /\ Append(q, x) \in Seq(T)
  OBVIOUS
<1>2. s \in Seq(T) /\ Count(s, S) = Num(x \in S)
  BY CountOne
<1> HIDE DEF s
<1>3. /\ Count(s, S) = 0 => Count(q \o s, S) = Count(q, S)
      /\ Count(q, S) = 0 => Count(q \o s, S) = Count(s, S)
  BY <1>2, CountConcat
<1> QED
  BY <1>1, <1>2, <1>3 DEF Num

\* What is taken is counted no more.
LEMMA CountTail ==
    ASSUME NEW T, NEW q \in Seq(T), q # <<>>, NEW S
    PROVE  /\ Tail(q) \in Seq(T) /\ Head(q) \in T
           /\ Head(q) \notin S => Count(Tail(q), S) = Count(q, S)
           /\ Head(q) \in S => Count(q, S) # 0 /\ (Count(q, S) = 1 => Count(Tail(q), S) = 0)
<1> DEFINE t == Tail(q)
<1>1. /\ Len(q) \in Nat \ {0} /\ DOMAIN q = 1 .. Len(q) /\ DOMAIN t = 1 .. Len(q) - 1
      /\ Head(q) = q[1] /\ 1 \in DOMAIN q /\ t \in Seq(T) /\ Head(q) \in T
      /\ \A i \in DOMAIN t : i + 1 \in DOMAIN q /\ t[i] = q[i + 1] /\ i \in Nat /\ i # 0
      /\ \A i \in DOMAIN q : i # 1 => i - 1 \in DOMAIN t /\ q[i] = t[i - 1] /\ i \in Nat
  OBVIOUS
<1> HIDE DEF t
<1>2. ASSUME Head(q) \notin S PROVE Count(t, S) = Count(q, S)
  <2>1. \A i \in DOMAIN q : q[i] \in S => i # 1
    BY <1>1, <1>2
  <2>2. (\A i \in DOMAIN q : q[i] \notin S) <=> (\A i \in DOMAIN t : t[i] \notin S)
    BY <1>1, <2>1
  <2>3. ASSUME \A i, j \in DOMAIN q : q[i] \in S /\ q[j] \in S => i = j
        PROVE  \A i, j \in DOMAIN t : t[i] \in S /\ t[j] \in S => i = j
    <3> SUFFICES ASSUME NEW i \in DOMAIN t, NEW j \in DOMAIN t, t[i] \in S, t[j] \in S PROVE i = j
      OBVIOUS
    <3>1. i + 1 = j + 1 /\ i \in Nat /\ j \in Nat
      BY <1>1, <2>3
    <3> QED
      BY <3>1
  <2>4. ASSUME \A i, j \in DOMAIN t : t[i] \in S /\ t[j] \in S => i = j
        PROVE  \A i, j \in DOMAIN q : q[i] \in S /\ q[j] \in S => i = j
    <3> SUFFICES ASSUME NEW i \in DOMAIN q, NEW j \in DOMAIN q, q[i] \in S, q[j] \in S PROVE i = j
      OBVIOUS
    <3>1. i - 1 = j - 1 /\ i \in Nat /\ j \in Nat
      BY <1>1, <2>1, <2>4
    <3> QED
      BY <3>1
  <2> QED
    BY <2>2, <2>3, <2>4 DEF Count
<1>3. ASSUME Head(q) \in S PROVE Count(q, S) # 0 /\ (Count(q, S) = 1 => Count(t, S) = 0)
  <2>1. Count(q, S) # 0
    BY <1>1, <1>3 DEF Count
  <2>2. ASSUME Count(q, S) = 1 PROVE Count(t, S) = 0
    <3>1. \A i, j \in DOMAIN q : q[i] \in S /\ q[j] \in S => i = j
      BY <2>2 DEF Count
    <3>2. ASSUME NEW i \in DOMAIN t PROVE t[i] \notin S
      <4>1. i + 1 \in DOMAIN q /\ t[i] = q[i + 1] /\ i + 1 # 1
        BY <1>1
      <4> QED
        BY <1>1, <1>3, <3>1, <4>1
    <3> QED
      BY <3>2 DEF Count
  <2> QED
    BY <2>1, <2>2
<1> QED
  BY <1>1, <1>2, <1>3 DEF t

-----------------------------------------------------------------------------
(* Pipelines, answers and the queue.                                       *)

Silent == {m \in Message : m.cmd # "VERIFY"}

\* Commands that verify nothing change no count of verifications.
LEMMA WithEffect ==
    ASSUME ConstantsOK, NEW p \in Pipes, NEW n \in Node, NEW k \in Context, NEW s \in Seq(Silent)
    PROVE  /\ With(p, n, k, s) \in Pipes
           /\ \A c \in Conn : Asking(With(p, n, k, s), c) = Asking(p, c)
<1> DEFINE w == With(p, n, k, s)
<1>1. /\ p \in [Node -> [Context -> Seq(Message)]] /\ p[n]["auth"] \in Seq(Home(Message, n))
      /\ s \in Seq(Message) /\ s \in Seq(Home(Message, n)) /\ "auth" \in Context
      /\ \A m \in Node : p[m]["auth"] \in Seq(Home(Message, m))
  <2>1. Silent \subseteq Message /\ Silent \subseteq Home(Message, n)
    BY DEF Silent, Home
  <2> QED
    BY <2>1 DEF Pipes, Context
<1>2. /\ w = [p EXCEPT ![n] = [p[n] EXCEPT ![k] = p[n][k] \o s]]
      /\ w[n][k] = p[n][k] \o s
      /\ k # "auth" => w[n]["auth"] = p[n]["auth"]
      /\ \A m \in Node : m # n => w[m] = p[m]
  BY <1>1 DEF With
<1>3. w \in [Node -> [Context -> Seq(Message)]]
  <2>1. p[n][k] \o s \in Seq(Message) /\ p[n] \in [Context -> Seq(Message)]
    BY <1>1
  <2> QED
    BY <1>1, <1>2, <2>1
<1>4. w[n]["auth"] \in Seq(Home(Message, n))
  BY <1>1, <1>2
<1>5. w \in Pipes
  BY <1>1, <1>2, <1>3, <1>4 DEF Pipes
<1>6. ASSUME NEW c \in Conn PROVE Asking(w, c) = Asking(p, c)
  <2>1. CASE At[c] = n /\ k = "auth"
    <3> DEFINE q == p[n]["auth"]  S == AskVerify(c)
    <3>1. \A i \in DOMAIN s : s[i] \notin S
      BY DEF Silent, AskVerify, Cmd
    <3>2. Count(s, S) = 0
      BY <3>1 DEF Count
    <3>3. q \in Seq(Message)
      BY <1>1
    <3> HIDE DEF q, S
    <3>4. Count(q \o s, S) = Count(q, S)
      BY <1>1, <3>2, <3>3, CountConcat
    <3> QED
      BY <1>2, <2>1, <3>4 DEF Asking, q, S
  <2>2. CASE ~(At[c] = n /\ k = "auth")
    <3>1. At[c] \in Node
      BY DEF ConstantsOK
    <3> QED
      BY <1>2, <2>2, <3>1 DEF Asking
  <2> QED
    BY <2>1, <2>2
<1> QED
  BY <1>5, <1>6

\* A request enters the queue of the node of its connection.
LEMMA PushEffect ==
    ASSUME ConstantsOK, queue \in Queues, NEW op \in {"CREATE", "DESTROY"}, NEW c \in Conn,
           Push(op, c)
    PROVE  /\ queue' \in Queues
           /\ \A m \in Node : m # At[c] => queue'[m] = queue[m]
           /\ \A o, d : d \in Conn /\ (o # op \/ d # c) => Doing(queue', o, d) = Doing(queue, o, d)
           /\ Doing(queue, op, c) = 0 => Doing(queue', op, c) = 1
<1> DEFINE n == At[c]  x == [op |-> op, conn |-> c]  q == queue[n]
<1>1. /\ n \in Node /\ x \in Request /\ x \in RequestHere(n)
      /\ queue \in [Node -> Seq(Request)] /\ \A m \in Node : queue[m] \in Seq(RequestHere(m))
      /\ queue' = [queue EXCEPT ![n] = Append(q, x)]
      /\ \A d \in Conn : At[d] \in Node
  BY DEF ConstantsOK, Push, Queues, Request, RequestHere, Here
<1>2. /\ q \in Seq(RequestHere(n)) /\ q \in Seq(Request) /\ queue'[n] = Append(q, x)
      /\ \A m \in Node : m # n => queue'[m] = queue[m]
  BY <1>1
<1>3. x.op = op /\ x.conn = c
  OBVIOUS
<1> HIDE DEF n, x, q
<1>4. Append(q, x) \in Seq(Request) /\ Append(q, x) \in Seq(RequestHere(n))
  BY <1>1, <1>2
<1>5. queue' \in Queues
  BY <1>1, <1>2, <1>4 DEF Queues
<1>6. ASSUME NEW o, NEW d \in Conn, o # op \/ d # c PROVE Doing(queue', o, d) = Doing(queue, o, d)
  <2>1. CASE At[d] = n
    <3>1. x \notin ToDo(o, d)
      BY <1>3, <1>6 DEF ToDo
    <3>2. Count(Append(q, x), ToDo(o, d)) = Count(q, ToDo(o, d))
      BY <1>1, <1>2, <3>1, CountAppend
    <3> QED
      BY <1>2, <2>1, <3>2 DEF Doing, q
  <2>2. CASE At[d] # n
    BY <1>1, <1>2, <2>2 DEF Doing
  <2> QED
    BY <2>1, <2>2
<1>7. ASSUME Doing(queue, op, c) = 0 PROVE Doing(queue', op, c) = 1
  <2>1. x \in ToDo(op, c) /\ Count(q, ToDo(op, c)) = 0
    BY <1>7 DEF ToDo, x, Doing, q, n
  <2>2. Count(Append(q, x), ToDo(op, c)) = 1
    BY <1>1, <1>2, <2>1, CountAppend DEF Num
  <2> QED
    BY <1>2, <2>2 DEF Doing, n
<1> QED
  BY <1>2, <1>5, <1>6, <1>7 DEF n

\* The first request leaves it.
LEMMA PopEffect ==
    ASSUME ConstantsOK, queue \in Queues, NEW n \in Node, queue[n] # <<>>,
           queue' = [queue EXCEPT ![n] = Tail(@)]
    PROVE  LET x == Head(queue[n]) IN
           /\ queue' \in Queues
           /\ \A m \in Node : m # n => queue'[m] = queue[m]
           /\ x.op \in {"CREATE", "DESTROY"} /\ x.conn \in Conn /\ At[x.conn] = n
           /\ \A o, d : d \in Conn /\ (o # x.op \/ d # x.conn)
                        => Doing(queue', o, d) = Doing(queue, o, d)
           /\ Doing(queue, x.op, x.conn) # 0
           /\ Doing(queue, x.op, x.conn) = 1 => Doing(queue', x.op, x.conn) = 0
<1> DEFINE q == queue[n]  x == Head(q)
<1>1. /\ queue \in [Node -> Seq(Request)] /\ \A m \in Node : queue[m] \in Seq(RequestHere(m))
      /\ \A d \in Conn : At[d] \in Node
  BY DEF ConstantsOK, Queues
<1>2. /\ q \in Seq(RequestHere(n)) /\ q \in Seq(Request) /\ queue'[n] = Tail(q) /\ q # <<>>
      /\ \A m \in Node : m # n => queue'[m] = queue[m]
  BY <1>1
<1> HIDE DEF q
<1>3. /\ x \in RequestHere(n) /\ Tail(q) \in Seq(Request) /\ Tail(q) \in Seq(RequestHere(n))
  BY <1>2
<1>4. /\ x.op \in {"CREATE", "DESTROY"} /\ x.conn \in Conn /\ At[x.conn] = n
      /\ x = [op |-> x.op, conn |-> x.conn]
  BY <1>3 DEF RequestHere, Here
<1> HIDE DEF x
<1>5. queue' \in Queues
  BY <1>1, <1>2, <1>3 DEF Queues
<1>6. ASSUME NEW o, NEW d \in Conn, o # x.op \/ d # x.conn
      PROVE  Doing(queue', o, d) = Doing(queue, o, d)
  <2>1. CASE At[d] = n
    <3>1. x \notin ToDo(o, d)
      BY <1>6 DEF ToDo
    <3>2. Count(Tail(q), ToDo(o, d)) = Count(q, ToDo(o, d))
      BY <1>2, <3>1, CountTail DEF x
    <3> QED
      BY <1>2, <2>1, <3>2 DEF Doing, q
  <2>2. CASE At[d] # n
    BY <1>1, <1>2, <2>2 DEF Doing
  <2> QED
    BY <2>1, <2>2
<1>7. Doing(queue, x.op, x.conn) # 0 /\ (Doing(queue, x.op, x.conn) = 1 => Doing(queue', x.op, x.conn) = 0)
  <2>1. x \in ToDo(x.op, x.conn)
    BY <1>4 DEF ToDo
  <2> DEFINE S == ToDo(x.op, x.conn)
  <2> HIDE DEF S
  <2>2. Count(q, S) # 0 /\ (Count(q, S) = 1 => Count(Tail(q), S) = 0)
    BY <1>2, <2>1, CountTail DEF x, S
  <2> QED
    BY <1>2, <1>4, <2>2 DEF Doing, q, S
<1> QED
  BY <1>2, <1>4, <1>5, <1>6, <1>7 DEF x, q

\* The kicks of a set of connections are in some order.
LEMMA KickSeq ==
    ASSUME ConstantsOK, NEW V, V \subseteq Conn
    PROVE  /\ SetToSeq({Cmd(v, "KICK") : v \in V}) \in Seq(Silent)
           /\ SetToSeq({Cmd(v, "KICK") : v \in V}) \in Seq({Cmd(v, "KICK") : v \in V})
<1> DEFINE K == {Cmd(v, "KICK") : v \in V}
           f == [v \in V |-> Cmd(v, "KICK")]
<1>1. IsFiniteSet(V)
  BY FS_Subset DEF ConstantsOK
<1>2. f \in Surjection(V, K)
  <2>1. f \in [V -> K] /\ \A m \in K : \E v \in V : f[v] = m
    OBVIOUS
  <2> QED
    BY <2>1 DEF Surjection
<1>3. K \subseteq Silent
  BY DEF Cmd, Silent, Message
<1> HIDE DEF K, f
<1>4. IsFiniteSet(K)
  BY <1>1, <1>2, FS_Surjection
<1>5. Cardinality(K) \in Nat /\ ExistsBijection(1 .. Cardinality(K), K)
  BY <1>4, FS_CardinalityType
<1>6. \E g \in [1 .. Cardinality(K) -> K] : IsInjective(g)
  BY <1>5 DEF ExistsBijection, Bijection, Injection
<1>7. SetToSeq(K) \in [1 .. Cardinality(K) -> K]
  BY <1>6 DEF SetToSeq
<1>8. SetToSeq(K) \in Seq(Silent) /\ SetToSeq(K) \in Seq(K)
  <2>1. PICK m, s : m = Cardinality(K) /\ s = SetToSeq(K)
    OBVIOUS
  <2>2. m \in Nat /\ s \in [1 .. m -> K] /\ s \in [1 .. m -> Silent]
    BY <1>3, <1>5, <1>7, <2>1
  <2>3. s \in Seq(K) /\ s \in Seq(Silent)
    BY <2>2
  <2> QED
    BY <2>1, <2>3
<1> QED
  BY <1>8 DEF K

\* An answer leaves, and verifies the connection it was for or none.
LEMMA HandleEffect ==
    ASSUME ConstantsOK, answers \in Results, NEW n \in Node, NEW k \in Context, NEW x, Handles(n, k, x)
    PROVE  LET a == Head(answers[n][k]) IN
           /\ answers' \in Results /\ a \in Result /\ a.cmd = x
           /\ k = "auth" /\ x = "VERIFY" => At[a.conn] = n
           /\ \A m \in Node : answers[m]["auth"] = <<>> => answers'[m]["auth"] = <<>>
           /\ \A c \in Conn : ~(k = "auth" /\ x = "VERIFY" /\ c = a.conn)
                              => Telling(answers', c) = Telling(answers, c)
           /\ k = "auth" /\ x = "VERIFY" =>
                /\ Telling(answers, a.conn) # 0
                /\ Telling(answers, a.conn) = 1 => Telling(answers', a.conn) = 0
<1> DEFINE q == answers[n][k]  a == Head(q)  t == Tail(q)
<1>1. /\ answers \in [Node -> [Context -> Seq(Result)]] /\ "auth" \in Context
      /\ \A m \in Node : answers[m]["auth"] \in Seq(Home(Result, m))
      /\ q \in Seq(Result) /\ q # <<>> /\ a.cmd = x
      /\ answers' = [answers EXCEPT ![n] = [answers[n] EXCEPT ![k] = t]]
  BY DEF Results, Context, Handles
<1>2. /\ answers'[n][k] = t
      /\ k # "auth" => answers'[n]["auth"] = answers[n]["auth"]
      /\ \A m \in Node : m # n => answers'[m] = answers[m]
  BY <1>1
<1>3. /\ t \in Seq(Result) /\ a \in Result
      /\ k = "auth" => t \in Seq(Home(Result, n)) /\ a \in Home(Result, n)
  BY <1>1
<1>4. answers' \in [Node -> [Context -> Seq(Result)]]
  BY <1>1, <1>3
<1>5. answers' \in Results
  BY <1>1, <1>2, <1>3, <1>4 DEF Results
<1>6. k = "auth" /\ x = "VERIFY" => At[a.conn] = n
  BY <1>1, <1>3 DEF Home, Here
<1>7. a.conn \in Conn
  BY <1>3 DEF Result
<1> HIDE DEF q, a, t
<1>8. ASSUME NEW c \in Conn, ~(k = "auth" /\ x = "VERIFY" /\ c = a.conn)
      PROVE  Telling(answers', c) = Telling(answers, c)
  <2>1. CASE At[c] = n /\ k = "auth"
    <3>1. a \notin ToldVerify(c)
      BY <1>1, <1>8, <2>1 DEF ToldVerify
    <3>2. Count(t, ToldVerify(c)) = Count(q, ToldVerify(c))
      BY <1>1, <3>1, CountTail DEF a, t
    <3> QED
      BY <1>2, <2>1, <3>2 DEF Telling, q
  <2>2. CASE ~(At[c] = n /\ k = "auth")
    <3>1. At[c] \in Node
      BY DEF ConstantsOK
    <3> QED
      BY <1>2, <2>2, <3>1 DEF Telling
  <2> QED
    BY <2>1, <2>2
<1>9. ASSUME k = "auth", x = "VERIFY"
      PROVE  /\ Telling(answers, a.conn) # 0
             /\ Telling(answers, a.conn) = 1 => Telling(answers', a.conn) = 0
  <2> DEFINE S == ToldVerify(a.conn)
  <2>1. a \in S
    BY <1>1, <1>3, <1>9 DEF ToldVerify
  <2> HIDE DEF S
  <2>2. Count(q, S) # 0 /\ (Count(q, S) = 1 => Count(t, S) = 0)
    BY <1>1, <2>1, CountTail DEF a, t
  <2> QED
    BY <1>2, <1>6, <1>9, <2>2 DEF Telling, q, S
<1>10. ASSUME NEW m \in Node, answers[m]["auth"] = <<>> PROVE answers'[m]["auth"] = <<>>
  BY <1>1, <1>2, <1>10 DEF q
<1> QED
  BY <1>1, <1>3, <1>5, <1>6, <1>8, <1>9, <1>10 DEF a, q

\* A command leaves a pipeline.
LEMMA ExecuteEffect ==
    ASSUME ConstantsOK, pipe \in Pipes, NEW n \in Node, NEW k \in Context, NEW X, Executes(n, k, X)
    PROVE  LET m == Head(pipe[n][k]) IN
           /\ pipe' \in Pipes /\ m \in Message /\ m.cmd \in X
           /\ k = "auth" /\ m.cmd = "VERIFY" => At[m.conn] = n
           /\ \A c \in Conn : ~(k = "auth" /\ m.cmd = "VERIFY" /\ c = m.conn)
                              => Asking(pipe', c) = Asking(pipe, c)
           /\ k = "auth" /\ m.cmd = "VERIFY" =>
                /\ Asking(pipe, m.conn) # 0
                /\ Asking(pipe, m.conn) = 1 => Asking(pipe', m.conn) = 0
<1> DEFINE q == pipe[n][k]  m == Head(q)  t == Tail(q)
<1>1. /\ pipe \in [Node -> [Context -> Seq(Message)]] /\ "auth" \in Context
      /\ \A i \in Node : pipe[i]["auth"] \in Seq(Home(Message, i))
      /\ q \in Seq(Message) /\ q # <<>> /\ m.cmd \in X
      /\ pipe' = [pipe EXCEPT ![n] = [pipe[n] EXCEPT ![k] = t]]
  BY DEF Pipes, Context, Executes
<1>2. /\ pipe'[n][k] = t
      /\ k # "auth" => pipe'[n]["auth"] = pipe[n]["auth"]
      /\ \A i \in Node : i # n => pipe'[i] = pipe[i]
  BY <1>1
<1>3. /\ t \in Seq(Message) /\ m \in Message
      /\ k = "auth" => t \in Seq(Home(Message, n)) /\ m \in Home(Message, n)
  BY <1>1
<1>4. pipe' \in [Node -> [Context -> Seq(Message)]]
  BY <1>1, <1>3
<1>5. pipe' \in Pipes
  BY <1>1, <1>2, <1>3, <1>4 DEF Pipes
<1>6. k = "auth" /\ m.cmd = "VERIFY" => At[m.conn] = n
  BY <1>1, <1>3 DEF Home, Here
<1>7. m.cmd = "VERIFY" => m = Cmd(m.conn, "VERIFY") /\ m.conn \in Conn
  BY <1>3 DEF Message, Cmd
<1> HIDE DEF q, m, t
<1>8. ASSUME NEW c \in Conn, ~(k = "auth" /\ m.cmd = "VERIFY" /\ c = m.conn)
      PROVE  Asking(pipe', c) = Asking(pipe, c)
  <2>1. CASE At[c] = n /\ k = "auth"
    <3>1. m \notin AskVerify(c)
      BY <1>8, <2>1 DEF AskVerify, Cmd
    <3>2. Count(t, AskVerify(c)) = Count(q, AskVerify(c))
      BY <1>1, <3>1, CountTail DEF m, t
    <3> QED
      BY <1>2, <2>1, <3>2 DEF Asking, q
  <2>2. CASE ~(At[c] = n /\ k = "auth")
    <3>1. At[c] \in Node
      BY DEF ConstantsOK
    <3> QED
      BY <1>2, <2>2, <3>1 DEF Asking
  <2> QED
    BY <2>1, <2>2
<1>9. ASSUME k = "auth", m.cmd = "VERIFY"
      PROVE  /\ Asking(pipe, m.conn) # 0
             /\ Asking(pipe, m.conn) = 1 => Asking(pipe', m.conn) = 0
  <2> DEFINE S == AskVerify(m.conn)
  <2>1. m \in S
    BY <1>7, <1>9 DEF AskVerify
  <2> HIDE DEF S
  <2>2. Count(q, S) # 0 /\ (Count(q, S) = 1 => Count(t, S) = 0)
    BY <1>1, <2>1, CountTail DEF m, t
  <2> QED
    BY <1>2, <1>6, <1>9, <2>2 DEF Asking, q, S
<1> QED
  BY <1>1, <1>3, <1>5, <1>6, <1>8, <1>9 DEF m, q

\* An answer arrives at a process that is there to take it.
LEMMA AnswerEffect ==
    ASSUME ConstantsOK, answers \in Results, NEW n \in Node, NEW k \in Context,
           NEW a \in Result, k = "auth" => a \in Home(Result, n), Answers(n, k, <<a>>)
    PROVE  /\ answers' \in Results
           /\ \A m \in Node : up[m] \/ (answers[m]["auth"] = <<>> => answers'[m]["auth"] = <<>>)
           /\ \A c \in Conn : ~(k = "auth" /\ a.cmd = "VERIFY" /\ c = a.conn)
                              => Telling(answers', c) = Telling(answers, c)
           /\ k = "auth" /\ a.cmd = "VERIFY" /\ up[n] /\ Telling(answers, a.conn) = 0
                => Telling(answers', a.conn) = 1
<1>1. CASE ~up[n]
  BY <1>1 DEF Answers
<1>2. CASE up[n]
  <2> DEFINE q == answers[n][k]  t == Append(q, a)
  <2>1. /\ answers \in [Node -> [Context -> Seq(Result)]] /\ "auth" \in Context
        /\ \A m \in Node : answers[m]["auth"] \in Seq(Home(Result, m))
        /\ q \in Seq(Result)
        /\ answers' = [answers EXCEPT ![n] = [answers[n] EXCEPT ![k] = q \o <<a>>]]
    BY <1>2 DEF Results, Context, Answers
  <2>2. q \o <<a>> = t
    BY <2>1
  <2>3. /\ t \in Seq(Result) /\ (k = "auth" => t \in Seq(Home(Result, n)))
    BY <2>1
  <2>4. /\ answers'[n][k] = t
        /\ k # "auth" => answers'[n]["auth"] = answers[n]["auth"]
        /\ \A m \in Node : m # n => answers'[m] = answers[m]
    BY <2>1, <2>2
  <2>5. answers' \in [Node -> [Context -> Seq(Result)]]
    BY <2>1, <2>2, <2>3
  <2>6. answers' \in Results
    BY <2>1, <2>3, <2>4, <2>5 DEF Results
  <2>7. k = "auth" /\ a.cmd = "VERIFY" => At[a.conn] = n /\ a.conn \in Conn
    BY DEF Home, Here
  <2> HIDE DEF q
  <2>8. ASSUME NEW c \in Conn, ~(k = "auth" /\ a.cmd = "VERIFY" /\ c = a.conn)
        PROVE  Telling(answers', c) = Telling(answers, c)
    <3>1. CASE At[c] = n /\ k = "auth"
      <4>1. a \notin ToldVerify(c)
        BY <2>8, <3>1 DEF ToldVerify
      <4>2. Count(t, ToldVerify(c)) = Count(q, ToldVerify(c))
        BY <2>1, <4>1, CountAppend
      <4> QED
        BY <2>4, <3>1, <4>2 DEF Telling, q
    <3>2. CASE ~(At[c] = n /\ k = "auth")
      <4>1. At[c] \in Node
        BY DEF ConstantsOK
      <4> QED
        BY <2>4, <3>2, <4>1 DEF Telling
    <3> QED
      BY <3>1, <3>2
  <2>9. ASSUME k = "auth", a.cmd = "VERIFY", Telling(answers, a.conn) = 0
        PROVE  Telling(answers', a.conn) = 1
    <3> DEFINE S == ToldVerify(a.conn)
    <3>1. a \in S
      BY <2>9 DEF ToldVerify
    <3> HIDE DEF S
    <3>2. Count(q, S) = 0
      BY <2>7, <2>9 DEF Telling, q, S
    <3>3. Count(t, S) = 1
      BY <2>1, <3>1, <3>2, CountAppend DEF Num
    <3> QED
      BY <2>4, <2>7, <2>9, <3>3 DEF Telling, S
  <2> QED
    BY <2>4, <2>6, <2>8, <2>9, <1>2
<1> QED
  BY <1>1, <1>2

-----------------------------------------------------------------------------
(* What callbacks do to sessions.                                          *)

Ends(c) ==
    /\ session' = [session EXCEPT ![c] = "stopped"]
    /\ logins' = logins \ {c} /\ registered' \in SUBSET Conn /\ Push("DESTROY", c)
\* Nothing, going online, or ending a session.
Moves ==
    \/ registered' \in SUBSET Conn /\ UNCHANGED <<session, logins, queue>>
    \/ \E c \in Conn : /\ session[c] = "starting" /\ session' = [session EXCEPT ![c] = "running"]
                       /\ UNCHANGED <<logins, registered, queue>>
    \/ \E c \in Conn : session[c] \in {"starting", "running"} /\ Ends(c)
\* Neither commands nor answers about verifications come or go, but that a
\* command may become an answer.
WiresKept ==
    /\ pipe' \in Pipes /\ answers' \in Results
    /\ \A n \in Node : up[n] \/ (answers[n]["auth"] = <<>> => answers'[n]["auth"] = <<>>)
    /\ \A c \in Conn : up[At[c]] => Asking(pipe', c) + Telling(answers', c)
                                    = Asking(pipe, c) + Telling(answers, c)
SocketsKept ==
    /\ peer' \in [Conn -> {"new", "up", "gone"}]
    /\ \A c \in Conn : peer'[c] = "new" => peer[c] = "new"
    /\ UNCHANGED <<bev, listening, up>>
    /\ rec' \in [Context -> [Conn -> Nat]] /\ clock' \in Nat

LEMMA CountsType ==
    /\ \A p, c : Asking(p, c) \in {0, 1, 2} /\ Telling(p, c) \in {0, 1, 2}
    /\ \A q, o, c : Doing(q, o, c) \in {0, 1, 2}
    /\ \A b : Num(b) \in {0, 1}
BY CountType DEF Asking, Telling, Doing, Num

\* Who owns a socket owns it alone.
LEMMA OneOwner ==
    ASSUME NEW c, Owned(c)
    PROVE  \/ /\ c \notin bev /\ c \notin listening /\ session[c] = "none"
              /\ Asking(pipe, c) = 0 /\ Telling(answers, c) = 0 /\ Doing(queue, "CREATE", c) = 0
           \/ /\ c \in bev /\ c \in listening /\ session[c] = "none"
              /\ Asking(pipe, c) = 0 /\ Telling(answers, c) = 0 /\ Doing(queue, "CREATE", c) = 0
           \/ /\ c \in bev /\ c \notin listening /\ session[c] = "none"
              /\ Asking(pipe, c) + Telling(answers, c) = 1 /\ Doing(queue, "CREATE", c) = 0
           \/ /\ c \in bev /\ c \notin listening /\ session[c] = "none"
              /\ Asking(pipe, c) = 0 /\ Telling(answers, c) = 0 /\ Doing(queue, "CREATE", c) = 1
           \/ /\ c \in bev /\ c \notin listening /\ session[c] # "none"
              /\ Asking(pipe, c) = 0 /\ Telling(answers, c) = 0 /\ Doing(queue, "CREATE", c) = 0
<1> DEFINE l == Num(c \in listening)  a == Asking(pipe, c)  t == Telling(answers, c)
           q == Doing(queue, "CREATE", c)  s == Num(session[c] # "none")  b == Num(c \in bev)
<1>1. /\ l = 1 <=> c \in listening
      /\ s = 1 <=> session[c] # "none"
      /\ b = 1 <=> c \in bev
  BY DEF Num
<1>2. /\ l \in {0, 1} /\ a \in {0, 1, 2} /\ t \in {0, 1, 2} /\ q \in {0, 1, 2} /\ s \in {0, 1}
      /\ b \in {0, 1} /\ l + a + t + q + s = b
  BY CountsType DEF Owned
<1> HIDE DEF l, a, t, q, s, b
<1>3. \/ b = 0 /\ l = 0 /\ a = 0 /\ t = 0 /\ q = 0 /\ s = 0
      \/ b = 1 /\ l = 1 /\ a = 0 /\ t = 0 /\ q = 0 /\ s = 0
      \/ b = 1 /\ l = 0 /\ a + t = 1 /\ q = 0 /\ s = 0
      \/ b = 1 /\ l = 0 /\ a = 0 /\ t = 0 /\ q = 1 /\ s = 0
      \/ b = 1 /\ l = 0 /\ a = 0 /\ t = 0 /\ q = 0 /\ s = 1
  BY <1>2
<1> QED
  BY <1>1, <1>3 DEF a, t, q

LEMMA MovesPreserve ==
    ASSUME ConstantsOK, SessInv, SocketsKept, WiresKept, Moves
    PROVE  SessInv'
<1> USE DEF SocketsKept
<1>0. /\ session \in [Conn -> {"none", "starting", "running", "stopped"}]
      /\ queue \in Queues /\ logins \in SUBSET Conn /\ \A c \in Conn : At[c] \in Node
      /\ \A c \in Conn : ~up[At[c]] => session[c] = "none"
  BY DEF SessInv, Types, Dead, Here, ConstantsOK
<1> DEFINE Goal ==
      /\ session' \in [Conn -> {"none", "starting", "running", "stopped"}]
      /\ logins' \in SUBSET Conn /\ registered' \in SUBSET Conn /\ queue' \in Queues
      /\ \A c \in Conn : /\ LoggedIn(c)'
                         /\ session'[c] = "none" <=> session[c] = "none"
                         /\ Doing(queue', "CREATE", c) = Doing(queue, "CREATE", c)
                         /\ up[At[c]] => Doing(queue', "DESTROY", c) = Num(session'[c] = "stopped")
      /\ \A n \in Node : ~up[n] => queue'[n] = <<>>
<1>1. Goal
  <2>1. CASE registered' \in SUBSET Conn /\ UNCHANGED <<session, logins, queue>>
    BY <1>0, <2>1 DEF SessInv, Dead, LoggedIn, Owned
  <2>2. ASSUME NEW c \in Conn, session[c] = "starting", session' = [session EXCEPT ![c] = "running"],
               UNCHANGED <<logins, registered, queue>>
        PROVE Goal
    <3>1. registered' \in SUBSET Conn
      BY <2>2 DEF SessInv, Types
    <3>2. ASSUME NEW d \in Conn
          PROVE  /\ session'[d] = IF d = c THEN "running" ELSE session[d]
                 /\ LoggedIn(d)' /\ (session'[d] = "none" <=> session[d] = "none")
                 /\ (session'[d] = "stopped" <=> session[d] = "stopped")
      BY <1>0, <2>2 DEF SessInv, LoggedIn
    <3>3. ASSUME NEW d \in Conn, up[At[d]]
          PROVE  Doing(queue', "DESTROY", d) = Num(session'[d] = "stopped")
      BY <2>2, <3>2, <3>3 DEF SessInv, Owned, Num
    <3>4. /\ session' \in [Conn -> {"none", "starting", "running", "stopped"}]
          /\ logins' \in SUBSET Conn /\ queue' \in Queues
          /\ \A n \in Node : ~up[n] => queue'[n] = <<>>
      BY <1>0, <2>2 DEF SessInv, Dead
    <3> QED
      BY <2>2, <3>1, <3>2, <3>3, <3>4
  <2>3. ASSUME NEW c \in Conn, session[c] \in {"starting", "running"}, Ends(c)
        PROVE Goal
    <3>0. up[At[c]] /\ Doing(queue, "DESTROY", c) = 0
      <4>1. up[At[c]]
        BY <1>0, <2>3
      <4> QED
        BY <4>1, <2>3 DEF SessInv, Owned, Num
    <3>1. /\ queue' \in Queues
          /\ \A m \in Node : m # At[c] => queue'[m] = queue[m]
          /\ \A o, d : d \in Conn /\ (o # "DESTROY" \/ d # c) => Doing(queue', o, d) = Doing(queue, o, d)
          /\ Doing(queue', "DESTROY", c) = 1
      BY <1>0, <2>3, <3>0, PushEffect DEF Ends
    <3>2. ASSUME NEW d \in Conn
          PROVE  /\ session'[d] = IF d = c THEN "stopped" ELSE session[d]
                 /\ LoggedIn(d)' /\ (session'[d] = "none" <=> session[d] = "none")
                 /\ Doing(queue', "CREATE", d) = Doing(queue, "CREATE", d)
      BY <1>0, <2>3, <3>1 DEF SessInv, LoggedIn, Ends
    <3>3. ASSUME NEW d \in Conn, up[At[d]]
          PROVE  Doing(queue', "DESTROY", d) = Num(session'[d] = "stopped")
      <4>1. CASE d = c
        BY <3>1, <3>2, <4>1 DEF Num
      <4>2. CASE d # c
        BY <3>1, <3>2, <3>3, <4>2 DEF SessInv, Owned
      <4> QED
        BY <4>1, <4>2
    <3>4. \A n \in Node : ~up[n] => queue'[n] = <<>>
      BY <3>0, <3>1 DEF SessInv, Dead
    <3>5. /\ session' \in [Conn -> {"none", "starting", "running", "stopped"}]
          /\ logins' \in SUBSET Conn /\ registered' \in SUBSET Conn
      BY <1>0, <2>3 DEF Ends
    <3> QED
      BY <3>1, <3>2, <3>3, <3>4, <3>5
  <2> QED
    BY <2>1, <2>2, <2>3 DEF Moves
<1>2. Types'
  BY <1>1 DEF SessInv, Types, WiresKept
<1>3. ASSUME NEW c \in Conn, up[At[c]] PROVE Owned(c)'
  <2>1. /\ Asking(pipe', c) + Telling(answers', c) = Asking(pipe, c) + Telling(answers, c)
        /\ Num(session'[c] # "none") = Num(session[c] # "none")
        /\ Doing(queue', "CREATE", c) = Doing(queue, "CREATE", c)
        /\ peer'[c] = "new" => c \notin bev'
    BY <1>1, <1>3 DEF WiresKept, Num, SessInv, Owned
  <2>2. Num(c \in listening) + Asking(pipe, c) + Telling(answers, c) + Doing(queue, "CREATE", c)
           + Num(session[c] # "none") = Num(c \in bev)
    BY <1>3 DEF SessInv, Owned
  <2>3. Num(c \in listening') + Asking(pipe', c) + Telling(answers', c) + Doing(queue', "CREATE", c)
           + Num(session'[c] # "none") = Num(c \in bev')
    BY <2>1, <2>2, CountsType
  <2> QED
    BY <1>1, <1>3, <2>1, <2>3 DEF Owned
<1>4. ASSUME NEW n \in Node, ~up[n] PROVE Dead(n)'
  BY <1>1, <1>4 DEF SessInv, Dead, Here, WiresKept
<1> QED
  BY <1>1, <1>2, <1>3, <1>4 DEF SessInv

\* stop() ends a session or finds it ended, and only adds commands.
LEMMA StopMoves ==
    ASSUME ConstantsOK, Types, NEW c \in Conn, session[c] # "none", NEW p \in Pipes,
           NEW b \in BOOLEAN, Stop(c, p, b)
    PROVE  /\ Moves /\ pipe' \in Pipes
           /\ \A d \in Conn : Asking(pipe', d) = Asking(p, d)
<1>1. CASE session[c] = "stopped"
  BY <1>1 DEF Stop, Moves, objectVars, Types
<1>2. CASE session[c] # "stopped"
  <2> DEFINE q == With(p, At[c], "auth", add_logout_record(c))
             r == With(q, At[c], "core", withdraw_channel(c))
  <2>1. /\ At[c] \in Node /\ "auth" \in Context /\ "core" \in Context
        /\ add_logout_record(c) \in Seq(Silent) /\ withdraw_channel(c) \in Seq(Silent)
    <3>1. Cmd(c, "DEL") \in Silent
      BY DEF Cmd, Silent, Message
    <3> QED
      BY <3>1 DEF ConstantsOK, Context, add_logout_record, withdraw_channel
  <2>2. q \in Pipes /\ \A d \in Conn : Asking(q, d) = Asking(p, d)
    BY <2>1, WithEffect
  <2> HIDE DEF q
  <2>3. r \in Pipes /\ \A d \in Conn : Asking(r, d) = Asking(q, d)
    BY <2>1, <2>2, WithEffect
  <2>4. /\ session' = [session EXCEPT ![c] = "stopped"] /\ logins' = logins \ {c}
        /\ registered' = (IF b THEN registered \ {c} ELSE registered)
        /\ pipe' = (IF b THEN r ELSE q)
        /\ Push("DESTROY", c)
    BY <1>2 DEF Stop, Stopping, q
  <2>5. session[c] \in {"starting", "running"} /\ registered' \in SUBSET Conn
    BY <1>2, <2>4 DEF Types
  <2>6. Moves
    BY <2>4, <2>5 DEF Moves, Ends
  <2> QED
    BY <2>2, <2>3, <2>4, <2>6
<1> QED
  BY <1>1, <1>2

\* Nothing is told to the sockets.
LEMMA SocketsSame ==
    ASSUME Types, UNCHANGED <<socketVars, up, rec, clock>>
    PROVE  SocketsKept
BY DEF Types, SocketsKept, socketVars

LEMMA AddLoginCallbackPreserves ==
    ASSUME ConstantsOK, SessInv, NEW n \in Node, Redis_Add_Login_Callback(n)
    PROVE  SessInv'
<1> DEFINE a == Head(answers[n]["auth"])
           Kicks(V) == With(pipe, n, "auth", SetToSeq({Cmd(v, "KICK") : v \in V}))
<1>1. /\ Types /\ Handles(n, "auth", "LIST") /\ "auth" \in Context
      /\ UNCHANGED <<socketVars, up, rec, clock>>
      /\ \/ pipe' = Kicks({a.conn}) /\ UNCHANGED objectVars
         \/ \E V \in Victims(a.recs, Kind[a.conn] \in Protected) :
                \/ pipe' = Kicks(V) /\ UNCHANGED objectVars
                \/ AuthLoginOk(a.conn, Kicks(V))
  BY DEF Redis_Add_Login_Callback, SessInv, Context
<1>2. /\ answers' \in Results /\ a \in Result /\ a.cmd = "LIST"
      /\ \A m \in Node : answers[m]["auth"] = <<>> => answers'[m]["auth"] = <<>>
      /\ \A c \in Conn : Telling(answers', c) = Telling(answers, c)
  <2>1. "LIST" # "VERIFY" /\ answers \in Results
    BY <1>1 DEF Types
  <2> QED
    BY <1>1, <2>1, HandleEffect
<1>3. a.conn \in Conn
  BY <1>2 DEF Result
<1> HIDE DEF a
<1>4. \A V \in SUBSET Conn : /\ Kicks(V) \in Pipes
                             /\ \A c \in Conn : Asking(Kicks(V), c) = Asking(pipe, c)
  <2> TAKE V \in SUBSET Conn
  <2>1. SetToSeq({Cmd(v, "KICK") : v \in V}) \in Seq(Silent) /\ pipe \in Pipes
    BY <1>1, KickSeq DEF Types
  <2> QED
    BY <1>1, <2>1, WithEffect
<1>5. ASSUME NEW r, NEW b, NEW V \in Victims(r, b) PROVE V \in SUBSET Conn
  <2> DEFINE T == {t \in Erased(r, b) : Reported(r, b, t) # {}}
  <2>1. PICK f \in {g \in [T -> Conn] : \A t \in T : g[t] \in Reported(r, b, t)} :
           V = {f[t] : t \in T}
    BY DEF Victims
  <2> HIDE DEF T
  <2>2. f \in [T -> Conn]
    BY <2>1
  <2> QED
    BY <2>1, <2>2
<1> HIDE DEF Kicks
<1> DEFINE Goal == Moves /\ pipe' \in Pipes /\ \A c \in Conn : Asking(pipe', c) = Asking(pipe, c)
<1>6. Goal
  <2>1. ASSUME NEW V \in SUBSET Conn, pipe' = Kicks(V), UNCHANGED objectVars PROVE Goal
    BY <1>1, <1>4, <2>1 DEF Moves, objectVars, Types
  <2>2. ASSUME NEW V \in SUBSET Conn, AuthLoginOk(a.conn, Kicks(V)) PROVE Goal
    <3>1. CASE session[a.conn] = "none" /\ pipe' = Kicks(V) /\ UNCHANGED objectVars
      BY <2>1, <3>1
    <3>2. CASE session[a.conn] # "none" /\ Stop(a.conn, Kicks(V), FALSE)
      <4>1. Moves /\ pipe' \in Pipes /\ \A d \in Conn : Asking(pipe', d) = Asking(Kicks(V), d)
        BY <1>1, <1>3, <1>4, <3>2, StopMoves
      <4> QED
        BY <1>4, <4>1
    <3>3. CASE /\ registered' = registered \cup {a.conn}
               /\ pipe' = With(Kicks(V), At[a.conn], "core", register_channel(a.conn))
               /\ UNCHANGED <<session, logins, queue, woken>>
      <4>1. register_channel(a.conn) \in Seq(Silent) /\ At[a.conn] \in Node /\ "core" \in Context
        <5>1. /\ [cmd |-> "ADD", conn |-> a.conn, stamp |-> 1] \in Silent
              /\ Cmd(a.conn, "LIST") \in Silent
          BY <1>3 DEF Cmd, Silent, Message
        <5> QED
          BY <1>3, <5>1 DEF register_channel, ConstantsOK, Context
      <4>2. pipe' \in Pipes /\ \A d \in Conn : Asking(pipe', d) = Asking(Kicks(V), d)
        BY <1>4, <3>3, <4>1, WithEffect
      <4>3. Moves
        BY <1>1, <1>3, <3>3 DEF Moves, Types
      <4> QED
        BY <1>4, <4>2, <4>3
    <3> QED
      BY <2>2, <3>1, <3>2, <3>3 DEF AuthLoginOk
  <2> QED
    BY <1>1, <1>3, <1>5, <2>1, <2>2
<1>7. WiresKept
  BY <1>2, <1>6 DEF WiresKept
<1> QED
  BY <1>1, <1>6, <1>7, SocketsSame, MovesPreserve

LEMMA AuthBroadcastCallbackPreserves ==
    ASSUME ConstantsOK, SessInv, NEW n \in Node, Redis_Auth_Broadcast_Callback(n)
    PROVE  SessInv'
<1> DEFINE c == Head(bcast[n]["auth"])
<1>1. /\ Types /\ UNCHANGED <<socketVars, up, answers, rec, clock>>
      /\ \/ c \in logins /\ Stop(c, pipe, session[c] = "running")
         \/ UNCHANGED <<objectVars, pipe>>
  BY DEF Redis_Auth_Broadcast_Callback, SessInv
<1> HIDE DEF c
<1>2. Moves /\ pipe' \in Pipes /\ \A d \in Conn : Asking(pipe', d) = Asking(pipe, d)
  <2>1. CASE c \in logins /\ Stop(c, pipe, session[c] = "running")
    <3>1. c \in Conn /\ session[c] # "none" /\ pipe \in Pipes /\ (session[c] = "running") \in BOOLEAN
      BY <1>1, <2>1 DEF SessInv, Types, LoggedIn
    <3> QED
      BY <1>1, <2>1, <3>1, StopMoves
  <2>2. CASE UNCHANGED <<objectVars, pipe>>
    BY <1>1, <2>2 DEF objectVars, Moves, Types
  <2> QED
    BY <1>1, <2>1, <2>2
<1>3. WiresKept
  BY <1>1, <1>2 DEF WiresKept, Types
<1> QED
  BY <1>1, <1>2, <1>3, SocketsSame, MovesPreserve

LEMMA RegisterCallbackPreserves ==
    ASSUME ConstantsOK, SessInv, NEW n \in Node, Redis_Register_Callback(n)
    PROVE  SessInv'
<1> DEFINE a == Head(answers[n]["core"])
<1>1. /\ Types /\ Handles(n, "core", "LIST") /\ "core" \in Context
      /\ UNCHANGED <<socketVars, up, rec, clock>>
      /\ \/ /\ session[a.conn] = "starting" /\ session' = [session EXCEPT ![a.conn] = "running"]
            /\ UNCHANGED <<logins, registered, queue, woken, pipe>>
         \/ session[a.conn] = "starting" /\ Stop(a.conn, pipe, TRUE)
         \/ UNCHANGED <<objectVars, pipe>>
  BY DEF Redis_Register_Callback, SessInv, Context
<1>2. /\ answers' \in Results /\ a \in Result
      /\ \A m \in Node : answers[m]["auth"] = <<>> => answers'[m]["auth"] = <<>>
      /\ \A c \in Conn : Telling(answers', c) = Telling(answers, c)
  <2>1. "core" # "auth" /\ answers \in Results
    BY <1>1 DEF Types
  <2> QED
    BY <1>1, <2>1, HandleEffect
<1>3. a.conn \in Conn /\ pipe \in Pipes
  BY <1>1, <1>2 DEF Result, Types
<1> HIDE DEF a
<1>4. Moves /\ pipe' \in Pipes /\ \A d \in Conn : Asking(pipe', d) = Asking(pipe, d)
  <2>1. CASE /\ session[a.conn] = "starting" /\ session' = [session EXCEPT ![a.conn] = "running"]
             /\ UNCHANGED <<logins, registered, queue, woken, pipe>>
    BY <1>3, <2>1 DEF Moves
  <2>2. CASE session[a.conn] = "starting" /\ Stop(a.conn, pipe, TRUE)
    BY <1>1, <1>3, <2>2, StopMoves
  <2>3. CASE UNCHANGED <<objectVars, pipe>>
    BY <1>1, <2>3 DEF objectVars, Moves, Types
  <2> QED
    BY <1>1, <2>1, <2>2, <2>3
<1>5. WiresKept
  BY <1>2, <1>4 DEF WiresKept
<1> QED
  BY <1>1, <1>4, <1>5, SocketsSame, MovesPreserve

LEMMA BroadcastCallbackPreserves ==
    ASSUME ConstantsOK, SessInv, NEW n \in Node, Redis_Broadcast_Callback(n)
    PROVE  SessInv'
<1> DEFINE c == Head(bcast[n]["core"])
<1>1. /\ Types /\ UNCHANGED <<socketVars, up, answers, rec, clock>>
      /\ \/ c \in registered /\ session[c] # "none" /\ Stop(c, pipe, session[c] = "running")
         \/ UNCHANGED <<objectVars, pipe>>
  BY DEF Redis_Broadcast_Callback, SessInv, KickMap
<1> HIDE DEF c
<1>2. Moves /\ pipe' \in Pipes /\ \A d \in Conn : Asking(pipe', d) = Asking(pipe, d)
  <2>1. CASE c \in registered /\ session[c] # "none" /\ Stop(c, pipe, session[c] = "running")
    <3>1. c \in Conn /\ pipe \in Pipes /\ (session[c] = "running") \in BOOLEAN
      BY <1>1, <2>1 DEF Types
    <3> QED
      BY <1>1, <2>1, <3>1, StopMoves
  <2>2. CASE UNCHANGED <<objectVars, pipe>>
    BY <1>1, <2>2 DEF objectVars, Moves, Types
  <2> QED
    BY <1>1, <2>1, <2>2
<1>3. WiresKept
  BY <1>1, <1>2 DEF WiresKept, Types
<1> QED
  BY <1>1, <1>2, <1>3, SocketsSame, MovesPreserve

LEMMA EventCallbackPreserves ==
    ASSUME ConstantsOK, SessInv, NEW c \in Conn, EventCallback(c)
    PROVE  SessInv'
<1>1. /\ Types /\ pipe \in Pipes /\ session[c] # "none" /\ Stop(c, pipe, TRUE)
      /\ UNCHANGED <<socketVars, up, answers, rec, clock>>
  BY DEF EventCallback, Watched, SessInv, Types
<1>2. Moves /\ pipe' \in Pipes /\ \A d \in Conn : Asking(pipe', d) = Asking(pipe, d)
  BY <1>1, StopMoves
<1>3. WiresKept
  BY <1>1, <1>2 DEF WiresKept, Types
<1> QED
  BY <1>1, <1>2, <1>3, SocketsSame, MovesPreserve

-----------------------------------------------------------------------------
(* Redis, the HTTP API and the peers.                                      *)

\* A command that asks becomes an answer that tells.
LEMMA ExecVerifyPreserves ==
    ASSUME ConstantsOK, SessInv, NEW n \in Node, ExecVerify(n)
    PROVE  SessInv'
<1> DEFINE m == Head(pipe[n]["auth"])
<1>1. /\ Types /\ Executes(n, "auth", {"VERIFY"}) /\ "auth" \in Context
      /\ answers \in Results /\ pipe \in Pipes
      /\ UNCHANGED <<socketVars, objectVars, up, rec, clock>>
  BY DEF ExecVerify, Executes, SessInv, Context, Types
<1>2. /\ pipe' \in Pipes /\ m \in Message /\ m.cmd = "VERIFY" /\ At[m.conn] = n
      /\ \A c \in Conn : c # m.conn => Asking(pipe', c) = Asking(pipe, c)
      /\ Asking(pipe, m.conn) # 0 /\ (Asking(pipe, m.conn) = 1 => Asking(pipe', m.conn) = 0)
  BY <1>1, ExecuteEffect
<1>3. m.conn \in Conn
  BY <1>2 DEF Message
<1>4. PICK ok \in BOOLEAN : Answers(n, "auth", <<[cmd |-> "VERIFY", conn |-> m.conn, ok |-> ok]>>)
  BY DEF ExecVerify
<1> HIDE DEF m
<1> DEFINE a == [cmd |-> "VERIFY", conn |-> m.conn, ok |-> ok]
<1>5. a \in Result /\ a \in Home(Result, n) /\ a.cmd = "VERIFY" /\ a.conn = m.conn
  BY <1>2, <1>3 DEF Result, Home, Here
<1> HIDE DEF a
<1>6. /\ answers' \in Results
      /\ \A i \in Node : up[i] \/ (answers[i]["auth"] = <<>> => answers'[i]["auth"] = <<>>)
      /\ \A c \in Conn : c # m.conn => Telling(answers', c) = Telling(answers, c)
      /\ up[n] /\ Telling(answers, m.conn) = 0 => Telling(answers', m.conn) = 1
  <2>1. Answers(n, "auth", <<a>>)
    BY <1>4 DEF a
  <2> QED
    BY <1>1, <1>5, <2>1, AnswerEffect
<1>7. up[n] => Asking(pipe, m.conn) = 1 /\ Telling(answers, m.conn) = 0
  <2> SUFFICES ASSUME up[n] PROVE Asking(pipe, m.conn) = 1 /\ Telling(answers, m.conn) = 0
    OBVIOUS
  <2>1. Owned(m.conn)
    BY <1>2, <1>3 DEF SessInv
  <2>2. Asking(pipe, m.conn) \in {0, 1, 2} /\ Telling(answers, m.conn) \in {0, 1, 2}
    BY CountsType
  <2> QED
    BY <1>2, <2>1, <2>2, OneOwner
<1>8. WiresKept
  <2>1. ASSUME NEW c \in Conn, up[At[c]]
        PROVE  Asking(pipe', c) + Telling(answers', c) = Asking(pipe, c) + Telling(answers, c)
    <3>1. CASE c = m.conn
      BY <1>2, <1>6, <1>7, <2>1, <3>1
    <3>2. CASE c # m.conn
      BY <1>2, <1>6, <3>2
    <3> QED
      BY <3>1, <3>2
  <2> QED
    BY <1>2, <1>6, <2>1 DEF WiresKept
<1>9. Moves
  BY <1>1 DEF Moves, objectVars, Types
<1> QED
  BY <1>1, <1>8, <1>9, SocketsSame, MovesPreserve

LEMMA ExecListPreserves ==
    ASSUME ConstantsOK, SessInv, NEW n \in Node, NEW k \in Context, ExecList(n, k)
    PROVE  SessInv'
<1> DEFINE m == Head(pipe[n][k])
           a == [cmd |-> "LIST", conn |-> m.conn, recs |-> rec[k]]
<1>1. /\ Types /\ Executes(n, k, {"LIST"}) /\ answers \in Results /\ pipe \in Pipes
      /\ Answers(n, k, <<a>>)
      /\ UNCHANGED <<socketVars, objectVars, up, rec, clock>>
  BY DEF ExecList, Executes, SessInv, Types
<1>2. /\ pipe' \in Pipes /\ m \in Message
      /\ \A c \in Conn : Asking(pipe', c) = Asking(pipe, c)
  <2>1. m.cmd # "VERIFY"
    BY <1>1 DEF Executes
  <2> QED
    BY <1>1, <2>1, ExecuteEffect
<1>3. a \in Result /\ a \in Home(Result, n) /\ a.cmd # "VERIFY"
  <2>1. m.conn \in Conn /\ rec[k] \in [Conn -> Nat]
    BY <1>1, <1>2 DEF Message, Types
  <2> QED
    BY <2>1 DEF Result, Home
<1> HIDE DEF a, m
<1>4. /\ answers' \in Results
      /\ \A i \in Node : up[i] \/ (answers[i]["auth"] = <<>> => answers'[i]["auth"] = <<>>)
      /\ \A c \in Conn : Telling(answers', c) = Telling(answers, c)
  BY <1>1, <1>3, AnswerEffect
<1>5. WiresKept
  BY <1>2, <1>4 DEF WiresKept
<1>6. Moves
  BY <1>1 DEF Moves, objectVars, Types
<1> QED
  BY <1>1, <1>5, <1>6, SocketsSame, MovesPreserve

LEMMA ExecRecordPreserves ==
    ASSUME ConstantsOK, SessInv, NEW n \in Node, NEW k \in Context, ExecRecord(n, k)
    PROVE  SessInv'
<1> DEFINE m == Head(pipe[n][k])
<1>1. /\ Types /\ Executes(n, k, {"ADD", "DEL"}) /\ pipe \in Pipes
      /\ rec' = [rec EXCEPT ![k][m.conn] = IF m.cmd = "ADD" THEN m.stamp ELSE 0]
      /\ UNCHANGED <<socketVars, objectVars, up, answers, clock>>
  BY DEF ExecRecord, Executes, SessInv, Types
<1>2. /\ pipe' \in Pipes /\ m \in Message
      /\ \A c \in Conn : Asking(pipe', c) = Asking(pipe, c)
  <2>1. m.cmd # "VERIFY"
    BY <1>1 DEF Executes
  <2> QED
    BY <1>1, <2>1, ExecuteEffect
<1>3. m.conn \in Conn /\ (m.cmd = "ADD" => m.stamp \in Nat)
  BY <1>2 DEF Message
<1> HIDE DEF m
<1>4. rec' \in [Context -> [Conn -> Nat]]
  <2> DEFINE v == IF m.cmd = "ADD" THEN m.stamp ELSE 0
  <2>1. v \in Nat /\ rec \in [Context -> [Conn -> Nat]]
    BY <1>1, <1>3 DEF Types
  <2>2. rec' = [rec EXCEPT ![k] = [rec[k] EXCEPT ![m.conn] = v]]
    BY <1>1
  <2> HIDE DEF v
  <2> QED
    BY <1>3, <2>1, <2>2
<1>5. WiresKept
  BY <1>1, <1>2 DEF WiresKept, Types
<1>6. Moves
  BY <1>1 DEF Moves, objectVars, Types
<1>7. SocketsKept
  BY <1>1, <1>4 DEF SocketsKept, socketVars, Types
<1> QED
  BY <1>5, <1>6, <1>7, MovesPreserve

\* No socket, session, command or answer is touched.
LEMMA QuietPreserves ==
    ASSUME ConstantsOK, SessInv,
           UNCHANGED <<bev, listening, objectVars, up, pipe, answers, clock>>,
           peer' \in [Conn -> {"new", "up", "gone"}],
           \A c \in Conn : peer'[c] = "new" => peer[c] = "new",
           rec' \in [Context -> [Conn -> Nat]]
    PROVE  SessInv'
<1>1. Types
  BY DEF SessInv
<1>2. SocketsKept /\ WiresKept /\ Moves
  BY <1>1 DEF SocketsKept, WiresKept, Moves, objectVars, Types
<1> QED
  BY <1>2, MovesPreserve

LEMMA ExecKickPreserves ==
    ASSUME ConstantsOK, SessInv, NEW n \in Node, ExecKick(n)
    PROVE  SessInv'
<1>1. /\ Types /\ Executes(n, "auth", {"KICK"}) /\ pipe \in Pipes /\ "auth" \in Context
      /\ UNCHANGED <<socketVars, objectVars, up, answers, rec, clock>>
  BY DEF ExecKick, Executes, SessInv, Types, Context
<1>2. pipe' \in Pipes /\ \A c \in Conn : Asking(pipe', c) = Asking(pipe, c)
  <2>1. Head(pipe[n]["auth"]).cmd # "VERIFY"
    BY <1>1 DEF Executes
  <2> QED
    BY <1>1, <2>1, ExecuteEffect
<1>3. WiresKept /\ Moves
  BY <1>1, <1>2 DEF WiresKept, Moves, objectVars, Types
<1> QED
  BY <1>1, <1>3, SocketsSame, MovesPreserve

LEMMA OutsidePreserves ==
    ASSUME ConstantsOK, SessInv,
           \/ \E c \in Conn : HandleKick(c) \/ PeerCloses(c) \/ \E k \in Context : Expire(k, c)
           \/ \E n \in Node, k \in Context : LoseBroadcast(n, k)
    PROVE  SessInv'
<1>1. /\ peer \in [Conn -> {"new", "up", "gone"}] /\ rec \in [Context -> [Conn -> Nat]]
  BY DEF SessInv, Types
<1>2. ASSUME NEW c \in Conn, HandleKick(c) PROVE SessInv'
  BY <1>1, <1>2, QuietPreserves DEF HandleKick, socketVars
<1>3. ASSUME NEW c \in Conn, PeerCloses(c) PROVE SessInv'
  <2>1. /\ peer' \in [Conn -> {"new", "up", "gone"}]
        /\ \A d \in Conn : peer'[d] = "new" => peer[d] = "new"
    BY <1>1, <1>3 DEF PeerCloses
  <2> QED
    BY <1>1, <1>3, <2>1, QuietPreserves DEF PeerCloses, wireVars
<1>4. ASSUME NEW c \in Conn, NEW k \in Context, Expire(k, c) PROVE SessInv'
  <2>1. rec' = [rec EXCEPT ![k] = [rec[k] EXCEPT ![c] = 0]]
    BY <1>1, <1>4 DEF Expire
  <2>2. rec' \in [Context -> [Conn -> Nat]]
    BY <1>1, <2>1
  <2> QED
    BY <1>1, <1>4, <2>2, QuietPreserves DEF Expire, socketVars, wireVars
<1>5. ASSUME NEW n \in Node, NEW k \in Context, LoseBroadcast(n, k) PROVE SessInv'
  BY <1>1, <1>5, QuietPreserves DEF LoseBroadcast, socketVars
<1> QED
  BY <1>2, <1>3, <1>4, <1>5

-----------------------------------------------------------------------------
(* The phases of one connection.                                           *)

Same(c) ==
    /\ peer'[c] = peer[c] /\ session'[c] = session[c]
    /\ c \in bev' <=> c \in bev
    /\ c \in listening' <=> c \in listening
    /\ c \in logins' <=> c \in logins
    /\ Asking(pipe', c) = Asking(pipe, c) /\ Telling(answers', c) = Telling(answers, c)
    /\ \A op \in {"CREATE", "DESTROY"} : Doing(queue', op, c) = Doing(queue, op, c)

\* All that is to be shown is about the connection that changes.
LEMMA OneChanges ==
    ASSUME ConstantsOK, SessInv, Types', up' = up, NEW c \in Conn, up[At[c]],
           \A d \in Conn : d # c => Same(d), LoggedIn(c)', Owned(c)',
           \A n \in Node : n # At[c] => /\ queue'[n] = queue[n]
                                        /\ answers[n]["auth"] = <<>> => answers'[n]["auth"] = <<>>
    PROVE  SessInv'
<1>1. ASSUME NEW d \in Conn, d # c PROVE LoggedIn(d)' /\ (up[At[d]] => Owned(d)')
  <2>1. Same(d) /\ LoggedIn(d) /\ (up[At[d]] => Owned(d))
    BY <1>1 DEF SessInv
  <2>2. LoggedIn(d)'
    BY <2>1 DEF Same, LoggedIn
  <2>3. ASSUME up[At[d]] PROVE Owned(d)'
    <3>1. /\ Num(d \in listening') = Num(d \in listening) /\ Num(d \in bev') = Num(d \in bev)
          /\ Num(session'[d] # "none") = Num(session[d] # "none")
          /\ Num(session'[d] = "stopped") = Num(session[d] = "stopped")
      BY <2>1 DEF Same, Num
    <3> QED
      BY <2>1, <2>3, <3>1 DEF Same, Owned
  <2> QED
    BY <2>2, <2>3
<1>2. ASSUME NEW n \in Node, ~up[n] PROVE Dead(n)'
  <2>1. Dead(n) /\ n # At[c] /\ \A d \in Here(n) : d \in Conn /\ d # c
    BY <1>2 DEF SessInv, Here
  <2>2. \A d \in Here(n) : session'[d] = "none" /\ d \notin listening'
    BY <2>1 DEF Dead, Same
  <2>3. queue'[n] = <<>> /\ answers'[n]["auth"] = <<>>
    BY <2>1 DEF Dead
  <2> QED
    BY <2>2, <2>3 DEF Dead, Here
<1> QED
  BY <1>1, <1>2 DEF SessInv

LEMMA AcceptPreserves ==
    ASSUME ConstantsOK, SessInv, NEW c \in Conn, Accept(c)
    PROVE  SessInv'
<1>1. /\ Types /\ up[At[c]] /\ peer[c] = "new" /\ c \notin bev
      /\ peer' = [peer EXCEPT ![c] = "up"]
      /\ bev' = bev \cup {c} /\ listening' = listening \cup {c}
      /\ UNCHANGED <<session, logins, registered, queue, up, pipe, answers, rec, clock>>
  BY DEF Accept, SessInv, Owned, objectVars, wireVars
<1>2. Types'
  BY <1>1 DEF Types
<1>3. \A d \in Conn : d # c => Same(d)
  BY <1>1 DEF Same, Types
<1>4. LoggedIn(c)'
  BY <1>1 DEF SessInv, LoggedIn
<1>5. Owned(c)'
  <2>1. Owned(c)
    BY <1>1 DEF SessInv
  <2>2. Asking(pipe, c) = 0 /\ Telling(answers, c) = 0 /\ Doing(queue, "CREATE", c) = 0
        /\ Num(session[c] # "none") = 0
    BY <1>1, <2>1, OneOwner DEF Num
  <2>3. Num(c \in listening') = 1 /\ Num(c \in bev') = 1 /\ peer'[c] # "new"
    BY <1>1 DEF Num, Types
  <2> QED
    BY <1>1, <2>1, <2>2, <2>3 DEF Owned
<1> QED
  BY <1>1, <1>2, <1>3, <1>4, <1>5, OneChanges

\* A socket the listener has is the listener's alone.
LEMMA ListenerOwns ==
    ASSUME ConstantsOK, SessInv, NEW c \in Conn, c \in listening
    PROVE  /\ up[At[c]] /\ c \in bev /\ session[c] = "none" /\ peer[c] # "new"
           /\ Asking(pipe, c) = 0 /\ Telling(answers, c) = 0 /\ Doing(queue, "CREATE", c) = 0
           /\ Doing(queue, "DESTROY", c) = 0
<1>1. up[At[c]]
  BY DEF SessInv, Dead, Here, ConstantsOK
<1>2. Owned(c)
  BY <1>1 DEF SessInv
<1> QED
  <2>1. Doing(queue, "DESTROY", c) = Num(session[c] = "stopped") /\ (peer[c] = "new" => c \notin bev)
    BY <1>2 DEF Owned
  <2> QED
    BY <1>1, <1>2, <2>1, OneOwner DEF Num

LEMMA BevEventPreserves ==
    ASSUME ConstantsOK, SessInv, NEW c \in Conn, BevEventCallback(c)
    PROVE  SessInv'
<1>1. /\ Types /\ c \in listening
      /\ listening' = listening \ {c} /\ bev' = bev \ {c}
      /\ UNCHANGED <<peer, session, logins, registered, queue, up, pipe, answers, rec, clock>>
  BY DEF BevEventCallback, SessInv, objectVars, wireVars
<1>2. Types'
  BY <1>1 DEF Types
<1>3. \A d \in Conn : d # c => Same(d)
  BY <1>1 DEF Same
<1>4. LoggedIn(c)'
  BY <1>1 DEF SessInv, LoggedIn
<1>5. Owned(c)'
  BY <1>1, ListenerOwns DEF Owned, Num
<1> QED
  BY <1>1, <1>2, <1>3, <1>4, <1>5, ListenerOwns, OneChanges

\* A verification of a connection is asked for at its node.
LEMMA AskEffect ==
    ASSUME ConstantsOK, NEW p \in Pipes, NEW c \in Conn
    PROVE  LET w == With(p, At[c], "auth", <<Cmd(c, "VERIFY")>>) IN
           /\ w \in Pipes
           /\ \A d \in Conn : d # c => Asking(w, d) = Asking(p, d)
           /\ Asking(p, c) = 0 => Asking(w, c) = 1
<1> DEFINE n == At[c]  x == Cmd(c, "VERIFY")  q == p[n]["auth"]  t == Append(q, x)
           w == With(p, n, "auth", <<x>>)
<1>1. /\ n \in Node /\ "auth" \in Context
      /\ p \in [Node -> [Context -> Seq(Message)]] /\ q \in Seq(Message)
      /\ \A m \in Node : p[m]["auth"] \in Seq(Home(Message, m))
      /\ \A d \in Conn : At[d] \in Node
  BY DEF ConstantsOK, Pipes, Context
<1>2. x \in Message /\ x \in Home(Message, n)
  BY DEF Cmd, Message, Home, Here
<1>3. q \o <<x>> = t /\ t \in Seq(Message) /\ t \in Seq(Home(Message, n))
  BY <1>1, <1>2
<1>4. /\ w = [p EXCEPT ![n] = [p[n] EXCEPT !["auth"] = t]]
  BY <1>1, <1>3 DEF With
<1> HIDE DEF n, x, w, q
<1>5. /\ w[n]["auth"] = t /\ \A m \in Node : m # n => w[m] = p[m]
      /\ w \in [Node -> [Context -> Seq(Message)]]
  BY <1>1, <1>3, <1>4
<1>6. w \in Pipes
  BY <1>1, <1>3, <1>5 DEF Pipes
<1>7. ASSUME NEW d \in Conn, d # c PROVE Asking(w, d) = Asking(p, d)
  <2>1. CASE At[d] = n
    <3>1. x \notin AskVerify(d)
      BY <1>7 DEF AskVerify, Cmd, x
    <3>2. Count(t, AskVerify(d)) = Count(q, AskVerify(d))
      BY <1>1, <1>2, <3>1, CountAppend
    <3> QED
      BY <1>5, <2>1, <3>2 DEF Asking, q
  <2>2. CASE At[d] # n
    BY <1>1, <1>5, <2>2 DEF Asking
  <2> QED
    BY <2>1, <2>2
<1>8. ASSUME Asking(p, c) = 0 PROVE Asking(w, c) = 1
  <2>1. x \in AskVerify(c) /\ Count(q, AskVerify(c)) = 0
    BY <1>8 DEF AskVerify, x, Asking, q, n
  <2>2. Count(t, AskVerify(c)) = 1
    BY <1>1, <1>2, <2>1, CountAppend DEF Num
  <2> QED
    BY <1>5, <2>2 DEF Asking, n
<1> QED
  BY <1>6, <1>7, <1>8 DEF w, n, x

LEMMA BevReadPreserves ==
    ASSUME ConstantsOK, SessInv, NEW c \in Conn, BevReadCallback(c)
    PROVE  SessInv'
<1> DEFINE w == With(pipe, At[c], "auth", <<Cmd(c, "VERIFY")>>)
<1>1. /\ Types /\ pipe \in Pipes /\ c \in listening /\ listening' = listening \ {c}
      /\ \/ bev' = bev \ {c} /\ pipe' = pipe
         \/ bev' = bev /\ pipe' = w
      /\ UNCHANGED <<peer, session, logins, registered, queue, up, answers, rec, clock>>
  BY DEF BevReadCallback, SessInv, objectVars, Types
<1>2. /\ w \in Pipes /\ \A d \in Conn : d # c => Asking(w, d) = Asking(pipe, d)
      /\ Asking(pipe, c) = 0 => Asking(w, c) = 1
  BY <1>1, AskEffect
<1> HIDE DEF w
<1>3. Types'
  BY <1>1, <1>2 DEF Types
<1>4. \A d \in Conn : d # c => Same(d)
  BY <1>1, <1>2 DEF Same
<1>5. LoggedIn(c)'
  BY <1>1 DEF SessInv, LoggedIn
<1>6. Owned(c)'
  BY <1>1, <1>2, ListenerOwns DEF Owned, Num
<1> QED
  BY <1>1, <1>3, <1>4, <1>5, <1>6, ListenerOwns, OneChanges

LEMMA VerifyCallbackPreserves ==
    ASSUME ConstantsOK, SessInv, NEW n \in Node, Redis_Verify_Callback(n)
    PROVE  SessInv'
<1>0. PICK a, c : a = Head(answers[n]["auth"]) /\ c = a.conn
  OBVIOUS
<1>1. /\ Types /\ Handles(n, "auth", "VERIFY") /\ "auth" \in Context
      /\ answers[n]["auth"] # <<>> /\ answers \in Results /\ queue \in Queues
      /\ \/ Push("CREATE", c) /\ bev' = bev
         \/ bev' = bev \ {c} /\ queue' = queue
      /\ UNCHANGED <<peer, listening, session, logins, registered, up, pipe, rec, clock>>
  BY <1>0 DEF Redis_Verify_Callback, Verified, Handles, SessInv, Types, Context
<1>2. /\ answers' \in Results /\ a \in Result /\ At[c] = n
      /\ \A m \in Node : answers[m]["auth"] = <<>> => answers'[m]["auth"] = <<>>
      /\ \A d \in Conn : d # c => Telling(answers', d) = Telling(answers, d)
      /\ Telling(answers, c) # 0 /\ (Telling(answers, c) = 1 => Telling(answers', c) = 0)
  BY <1>0, <1>1, HandleEffect
<1>3. c \in Conn
  BY <1>0, <1>2 DEF Result
<1>4. up[n] /\ Owned(c) /\ LoggedIn(c)
  BY <1>1, <1>2, <1>3 DEF SessInv, Dead
<1>5. /\ c \in bev /\ c \notin listening /\ session[c] = "none" /\ peer[c] # "new"
      /\ Asking(pipe, c) = 0 /\ Telling(answers, c) = 1 /\ Doing(queue, "CREATE", c) = 0
      /\ Doing(queue, "DESTROY", c) = 0
  <2>1. Doing(queue, "DESTROY", c) = Num(session[c] = "stopped") /\ (peer[c] = "new" => c \notin bev)
    BY <1>4 DEF Owned
  <2>2. Asking(pipe, c) \in {0, 1, 2} /\ Telling(answers, c) \in {0, 1, 2}
    BY CountsType
  <2> QED
    BY <1>2, <1>4, <2>1, <2>2, OneOwner DEF Num
<1>6. /\ queue' \in Queues /\ \A m \in Node : m # At[c] => queue'[m] = queue[m]
      /\ \A o \in {"CREATE", "DESTROY"}, d \in Conn :
           o # "CREATE" \/ d # c => Doing(queue', o, d) = Doing(queue, o, d)
      /\ \/ Doing(queue', "CREATE", c) = 1 /\ bev' = bev
         \/ Doing(queue', "CREATE", c) = 0 /\ bev' = bev \ {c}
  <2>1. CASE Push("CREATE", c) /\ bev' = bev
    <3>1. /\ queue' \in Queues /\ \A m \in Node : m # At[c] => queue'[m] = queue[m]
          /\ \A o, d : d \in Conn /\ (o # "CREATE" \/ d # c) => Doing(queue', o, d) = Doing(queue, o, d)
          /\ Doing(queue, "CREATE", c) = 0 => Doing(queue', "CREATE", c) = 1
      BY <1>1, <1>3, <2>1, PushEffect
    <3> QED
      BY <1>5, <2>1, <3>1
  <2>2. CASE bev' = bev \ {c} /\ queue' = queue
    BY <1>1, <1>5, <2>2
  <2> QED
    BY <1>1, <2>1, <2>2
<1>7. Types'
  <2>1. bev' \in SUBSET Conn
    BY <1>1, <1>6 DEF Types
  <2> QED
    BY <1>1, <1>2, <1>6, <2>1 DEF Types
<1>8. \A d \in Conn : d # c => Same(d)
  BY <1>1, <1>2, <1>6 DEF Same
<1>9. LoggedIn(c)'
  BY <1>1, <1>4 DEF LoggedIn
<1>10. Owned(c)'
  <2>1. /\ c \notin listening' /\ session'[c] = "none" /\ peer'[c] # "new"
        /\ Asking(pipe', c) = 0 /\ Telling(answers', c) = 0 /\ Doing(queue', "DESTROY", c) = 0
    BY <1>1, <1>2, <1>3, <1>5, <1>6
  <2>2. Doing(queue', "CREATE", c) = Num(c \in bev')
    BY <1>5, <1>6 DEF Num
  <2>3. Num(c \in bev') \in Nat
    BY DEF Num
  <2> QED
    BY <2>1, <2>2, <2>3 DEF Owned, Num
<1> QED
  BY <1>1, <1>2, <1>3, <1>4, <1>6, <1>7, <1>8, <1>9, <1>10, OneChanges

LEMMA RequestPreserves ==
    ASSUME ConstantsOK, SessInv, NEW n \in Node, Request_Process_Cb(n)
    PROVE  SessInv'
<1>0. PICK x, c : x = Head(queue[n]) /\ c = x.conn
  OBVIOUS
<1>1. /\ Types /\ queue \in Queues /\ pipe \in Pipes /\ queue[n] # <<>>
      /\ queue' = [queue EXCEPT ![n] = Tail(@)]
      /\ \/ /\ x.op = "CREATE" /\ session' = [session EXCEPT ![c] = "starting"]
            /\ logins' = logins \cup {c} /\ pipe' = With(pipe, n, "auth", add_login_record(c))
            /\ clock' \in {clock, clock + 1} /\ bev' = bev
         \/ /\ x.op = "DESTROY" /\ session' = [session EXCEPT ![c] = "none"]
            /\ bev' = bev \ {c} /\ UNCHANGED <<logins, pipe, clock>>
      /\ UNCHANGED <<peer, listening, registered, up, answers, rec>>
  BY <1>0 DEF Request_Process_Cb, SessInv, Types
<1>2. /\ queue' \in Queues /\ \A m \in Node : m # n => queue'[m] = queue[m]
      /\ x.op \in {"CREATE", "DESTROY"} /\ c \in Conn /\ At[c] = n
      /\ \A o, d : d \in Conn /\ (o # x.op \/ d # c) => Doing(queue', o, d) = Doing(queue, o, d)
      /\ Doing(queue, x.op, c) # 0
      /\ Doing(queue, x.op, c) = 1 => Doing(queue', x.op, c) = 0
  <2> DEFINE y == Head(queue[n])
  <2>1. /\ queue' \in Queues /\ \A m \in Node : m # n => queue'[m] = queue[m]
        /\ y.op \in {"CREATE", "DESTROY"} /\ y.conn \in Conn /\ At[y.conn] = n
        /\ \A o, d : d \in Conn /\ (o # y.op \/ d # y.conn)
                     => Doing(queue', o, d) = Doing(queue, o, d)
        /\ Doing(queue, y.op, y.conn) # 0
        /\ Doing(queue, y.op, y.conn) = 1 => Doing(queue', y.op, y.conn) = 0
    BY <1>1, PopEffect
  <2>2. y = x /\ y.conn = c
    BY <1>0
  <2> HIDE DEF y
  <2> QED
    BY <2>1, <2>2
<1>3. up[n] /\ Owned(c) /\ LoggedIn(c)
  BY <1>1, <1>2 DEF SessInv, Dead
<1>4. CASE x.op = "CREATE"
  <2>1. /\ session' = [session EXCEPT ![c] = "starting"] /\ logins' = logins \cup {c}
        /\ pipe' = With(pipe, n, "auth", add_login_record(c))
        /\ clock' \in {clock, clock + 1} /\ bev' = bev
    BY <1>1, <1>4
  <2>2. /\ c \in bev /\ c \notin listening /\ session[c] = "none" /\ peer[c] # "new"
        /\ Asking(pipe, c) = 0 /\ Telling(answers, c) = 0
        /\ Doing(queue', "CREATE", c) = 0 /\ Doing(queue', "DESTROY", c) = 0
    <3>1. Doing(queue, "DESTROY", c) = Num(session[c] = "stopped") /\ (peer[c] = "new" => c \notin bev)
      BY <1>3 DEF Owned
    <3>2. \A o, d : d \in Conn /\ (o # x.op \/ d # c) => Doing(queue', o, d) = Doing(queue, o, d)
      BY <1>2
    <3> QED
      BY <1>2, <1>3, <1>4, <3>1, <3>2, OneOwner DEF Num
  <2>3. pipe' \in Pipes /\ \A d \in Conn : Asking(pipe', d) = Asking(pipe, d)
    <3>1. [cmd |-> "ADD", conn |-> c, stamp |-> clock] \in Silent /\ Cmd(c, "LIST") \in Silent
      BY <1>1, <1>2 DEF Types, Cmd, Silent, Message
    <3>2. add_login_record(c) \in Seq(Silent) /\ "auth" \in Context
      BY <3>1 DEF add_login_record, Context
    <3> QED
      BY <1>1, <2>1, <3>2, WithEffect
  <2>4. clock' \in Nat
    BY <1>1, <2>1 DEF Types
  <2>5. Types'
    <3>1. /\ session' \in [Conn -> {"none", "starting", "running", "stopped"}]
          /\ logins' \in SUBSET Conn
      BY <1>1, <1>2, <2>1 DEF Types
    <3> QED
      BY <1>1, <1>2, <2>1, <2>3, <2>4, <3>1 DEF Types
  <2>6. \A d \in Conn : d # c => Same(d)
    BY <1>1, <1>2, <2>1, <2>3 DEF Same, Types
  <2>7. session'[c] = "starting"
    BY <1>1, <1>2, <2>1 DEF Types
  <2>8. LoggedIn(c)'
    BY <2>1, <2>7 DEF LoggedIn
  <2>9. Owned(c)'
    BY <1>1, <1>2, <2>1, <2>2, <2>3, <2>7 DEF Owned, Num
  <2> QED
    BY <1>1, <1>2, <1>3, <2>5, <2>6, <2>8, <2>9, OneChanges
<1>5. CASE x.op = "DESTROY"
  <2>1. /\ session' = [session EXCEPT ![c] = "none"] /\ bev' = bev \ {c}
        /\ UNCHANGED <<logins, pipe, clock>>
    BY <1>1, <1>5
  <2>2. /\ session[c] = "stopped" /\ c \in bev /\ c \notin listening
        /\ Asking(pipe, c) = 0 /\ Telling(answers, c) = 0
        /\ Doing(queue', "CREATE", c) = 0 /\ Doing(queue', "DESTROY", c) = 0
    <3>1. Doing(queue, "DESTROY", c) = Num(session[c] = "stopped") /\ (peer[c] = "new" => c \notin bev)
      BY <1>3 DEF Owned
    <3>2. \A o, d : d \in Conn /\ (o # x.op \/ d # c) => Doing(queue', o, d) = Doing(queue, o, d)
      BY <1>2
    <3> QED
      BY <1>2, <1>3, <1>5, <3>1, <3>2, OneOwner DEF Num
  <2>3. session'[c] = "none"
    BY <1>1, <1>2, <2>1 DEF Types
  <2>4. Types'
    BY <1>1, <1>2, <2>1 DEF Types
  <2>5. \A d \in Conn : d # c => Same(d)
    BY <1>1, <1>2, <2>1 DEF Same, Types
  <2>6. LoggedIn(c)'
    BY <1>3, <2>1, <2>2, <2>3 DEF LoggedIn
  <2>7. Owned(c)'
    BY <1>1, <2>1, <2>2, <2>3 DEF Owned, Num
  <2> QED
    BY <1>1, <1>2, <1>3, <2>4, <2>5, <2>6, <2>7, OneChanges
<1> QED
  BY <1>2, <1>4, <1>5

\* A process that ends leaves its commands and nothing else.
LEMMA DiePreserves ==
    ASSUME ConstantsOK, SessInv, NEW n \in Node, Die(n)
    PROVE  SessInv'
<1>1. /\ Types /\ \A c \in Conn : At[c] \in Node
      /\ up' = [up EXCEPT ![n] = FALSE]
      /\ peer' = [c \in Conn |-> IF c \in Here(n) /\ peer[c] = "up" THEN "gone" ELSE peer[c]]
      /\ bev' = bev \ Here(n) /\ listening' = listening \ Here(n)
      /\ session' = [c \in Conn |-> IF c \in Here(n) THEN "none" ELSE session[c]]
      /\ logins' = logins \ Here(n) /\ registered' = registered \ Here(n)
      /\ queue' = [queue EXCEPT ![n] = <<>>]
      /\ answers' = [answers EXCEPT ![n] = [k \in Context |-> <<>>]]
      /\ UNCHANGED <<pipe, rec, clock>>
  BY DEF Die, Here, SessInv, ConstantsOK
<1>2. queue' \in Queues /\ answers' \in Results /\ pipe' \in Pipes
  <2>1. queue \in Queues /\ answers \in Results /\ pipe \in Pipes /\ "auth" \in Context
    BY <1>1 DEF Types, Context
  <2>2. /\ queue' \in [Node -> Seq(Request)] /\ \A m \in Node : queue'[m] \in Seq(RequestHere(m))
    BY <1>1, <2>1 DEF Queues
  <2>3. [k \in Context |-> <<>>] \in [Context -> Seq(Result)]
    OBVIOUS
  <2>4. /\ answers' \in [Node -> [Context -> Seq(Result)]]
        /\ \A m \in Node : answers'[m]["auth"] \in Seq(Home(Result, m))
    BY <1>1, <2>1, <2>3 DEF Results
  <2> QED
    BY <1>1, <2>1, <2>2, <2>4 DEF Queues, Results
<1>3. Types'
  BY <1>1, <1>2 DEF Types
<1>4. /\ \A m \in Node : up'[m] <=> up[m] /\ m # n
      /\ \A m \in Node : m # n => queue'[m] = queue[m] /\ answers'[m] = answers[m]
      /\ queue'[n] = <<>> /\ answers'[n]["auth"] = <<>>
  BY <1>1 DEF Types, Queues, Results, Context
<1>5. ASSUME NEW c \in Conn, At[c] # n PROVE Same(c)
  BY <1>1, <1>4, <1>5 DEF Same, Here, Asking, Telling, Doing
<1>6. ASSUME NEW c \in Conn PROVE LoggedIn(c)' /\ (up'[At[c]] => Owned(c)')
  <2>1. CASE At[c] = n
    <3>1. c \in Here(n)
      BY <2>1 DEF Here
    <3> QED
      BY <1>1, <1>4, <2>1, <3>1 DEF LoggedIn
  <2>2. CASE At[c] # n
    <3>1. Same(c) /\ LoggedIn(c) /\ (up'[At[c]] => Owned(c))
      BY <1>1, <1>4, <1>5, <2>2 DEF SessInv
    <3>2. /\ Num(c \in listening') = Num(c \in listening) /\ Num(c \in bev') = Num(c \in bev)
          /\ Num(session'[c] # "none") = Num(session[c] # "none")
          /\ Num(session'[c] = "stopped") = Num(session[c] = "stopped")
      BY <3>1 DEF Same, Num
    <3>3. up'[At[c]] => Owned(c)'
      BY <3>1, <3>2 DEF Same, Owned
    <3> QED
      BY <3>1, <3>3 DEF Same, LoggedIn
  <2> QED
    BY <2>1, <2>2
<1>7. ASSUME NEW m \in Node PROVE up'[m] \/ Dead(m)'
  <2>1. CASE m = n
    <3>1. \A c \in Here(n) : session'[c] = "none" /\ c \notin listening'
      BY <1>1 DEF Here
    <3> QED
      BY <1>4, <2>1, <3>1 DEF Dead, Here
  <2>2. CASE m # n
    <3>1. \A c \in Here(m) : c \in Conn /\ At[c] # n
      BY <2>2 DEF Here
    <3>2. \A c \in Here(m) : session'[c] = session[c] /\ (c \in listening' <=> c \in listening)
      BY <1>5, <3>1 DEF Same
    <3>3. up[m] \/ Dead(m)
      BY DEF SessInv
    <3> QED
      BY <1>4, <2>2, <3>2, <3>3 DEF Dead, Here
  <2> QED
    BY <2>1, <2>2
<1> QED
  BY <1>3, <1>6, <1>7 DEF SessInv

-----------------------------------------------------------------------------
(* The invariant.                                                          *)

LEMMA SessInvInit == ASSUME ConstantsOK, Init PROVE SessInv
<1>1. \A S : Count(<<>>, S) = 0
  BY DEF Count
<1>2. Types
  <2>1. \A T : <<>> \in Seq(T)
    OBVIOUS
  <2>2. queue \in Queues
    BY <2>1 DEF Init, Queues
  <2>3. pipe \in Pipes /\ answers \in Results
    <3>1. [k \in Context |-> <<>>] \in [Context -> Seq(Message)] /\ "auth" \in Context
      BY <2>1 DEF Context
    <3>2. [k \in Context |-> <<>>] \in [Context -> Seq(Result)]
      BY <2>1
    <3>3. pipe \in Pipes
      BY <2>1, <3>1 DEF Init, Pipes
    <3>4. answers \in Results
      BY <2>1, <3>1, <3>2 DEF Init, Results
    <3> QED
      BY <3>3, <3>4
  <2> QED
    BY <2>2, <2>3 DEF Init, Types
<1>3. ASSUME NEW c \in Conn PROVE LoggedIn(c) /\ Owned(c)
  <2>1. At[c] \in Node /\ "auth" \in Context
    BY DEF ConstantsOK, Context
  <2>2. /\ Asking(pipe, c) = 0 /\ Telling(answers, c) = 0
        /\ Doing(queue, "CREATE", c) = 0 /\ Doing(queue, "DESTROY", c) = 0
    BY <1>1, <2>1 DEF Init, Asking, Telling, Doing
  <2> QED
    BY <2>2 DEF Init, LoggedIn, Owned, Num
<1> QED
  BY <1>2, <1>3 DEF SessInv, Init

LEMMA SessInvStep == ASSUME ConstantsOK, SessInv, [Next]_vars PROVE SessInv'
<1>1. ASSUME NEW c \in Conn, Accept(c) PROVE SessInv'
  BY <1>1, AcceptPreserves
<1>2. ASSUME NEW c \in Conn, BevEventCallback(c) PROVE SessInv'
  BY <1>2, BevEventPreserves
<1>3. ASSUME NEW c \in Conn, BevReadCallback(c) PROVE SessInv'
  BY <1>3, BevReadPreserves
<1>4. ASSUME NEW c \in Conn, EventCallback(c) PROVE SessInv'
  BY <1>4, EventCallbackPreserves
<1>5. ASSUME NEW c \in Conn, HandleKick(c) \/ PeerCloses(c) \/ \E k \in Context : Expire(k, c)
      PROVE  SessInv'
  BY <1>5, OutsidePreserves
<1>6. ASSUME NEW n \in Node, Loop(n) PROVE SessInv'
  BY <1>6, VerifyCallbackPreserves, AddLoginCallbackPreserves, RegisterCallbackPreserves,
     AuthBroadcastCallbackPreserves, BroadcastCallbackPreserves, RequestPreserves DEF Loop
<1>7. ASSUME NEW n \in Node, Server(n) PROVE SessInv'
  BY <1>7, ExecVerifyPreserves, ExecKickPreserves, ExecRecordPreserves, ExecListPreserves DEF Server
<1>8. ASSUME NEW n \in Node, Crash(n) \/ DieOfUndefined(n) PROVE SessInv'
  BY <1>8, DiePreserves DEF Crash, DieOfUndefined
<1>9. ASSUME NEW n \in Node, \E k \in Context : LoseBroadcast(n, k) PROVE SessInv'
  BY <1>9, OutsidePreserves
<1>10. ASSUME UNCHANGED vars PROVE SessInv'
  <2>1. /\ peer \in [Conn -> {"new", "up", "gone"}] /\ rec \in [Context -> [Conn -> Nat]]
    BY DEF SessInv, Types
  <2> QED
    BY <1>10, <2>1, QuietPreserves DEF vars, socketVars, wireVars
<1> QED
  BY <1>1, <1>2, <1>3, <1>4, <1>5, <1>6, <1>7, <1>8, <1>9, <1>10 DEF Next

\* At every moment a socket, a verification, a request to create and a session
\* add up to one for each connection whose socket is held, and to none for the
\* others: the bookkeeping that ntrip_listener, process_queue and Carrier share.
THEOREM SessInvAlways == Spec => []SessInv
<1>1. Init => SessInv
  BY ConstantsOK, SessInvInit
<1>2. SessInv /\ [Next]_vars => SessInv'
  BY ConstantsOK, SessInvStep
<1> QED
  BY <1>1, <1>2, PTL DEF Spec

\* Every socket is freed by the one owner it has: listener, pending verification,
\* create request or session (connect_bev, process_queue, destroyObject).
THEOREM SocketOwnedAlways == Spec => []SocketOwned
<1>1. ASSUME SessInv PROVE SocketOwned
  <2> SUFFICES ASSUME NEW c \in Conn, up[At[c]]
               PROVE  Cardinality({o \in {"listener", "verify", "queue", "session"} :
                         \/ o = "listener" /\ c \in listening
                         \/ o = "verify" /\ c \in Verifying
                         \/ o = "queue" /\ c \in Queued("CREATE")
                         \/ o = "session" /\ session[c] # "none"}) = IF c \in bev THEN 1 ELSE 0
    BY DEF SocketOwned
  <2> DEFINE O == {o \in {"listener", "verify", "queue", "session"} :
                         \/ o = "listener" /\ c \in listening
                         \/ o = "verify" /\ c \in Verifying
                         \/ o = "queue" /\ c \in Queued("CREATE")
                         \/ o = "session" /\ session[c] # "none"}
  <2>1. At[c] \in Node /\ Types /\ Owned(c)
    BY <1>1, ConstantsOK DEF SessInv, ConstantsOK
  <2>2. c \in Verifying <=> Asking(pipe, c) # 0 \/ Telling(answers, c) # 0
    <3>1. (\E i \in DOMAIN pipe[At[c]]["auth"] : pipe[At[c]]["auth"][i] = Cmd(c, "VERIFY"))
            <=> Asking(pipe, c) # 0
      BY DEF Asking, Count, AskVerify
    <3>2. (\E i \in DOMAIN answers[At[c]]["auth"] :
               answers[At[c]]["auth"][i].cmd = "VERIFY" /\ answers[At[c]]["auth"][i].conn = c)
            <=> Telling(answers, c) # 0
      <4>1. \A i \in DOMAIN answers[At[c]]["auth"] : answers[At[c]]["auth"][i] \in Result
        BY <2>1 DEF Types, Results, Context
      <4> QED
        BY <4>1 DEF Telling, Count, ToldVerify
    <3> QED
      BY <3>1, <3>2 DEF Verifying
  <2>3. c \in Queued("CREATE") <=> Doing(queue, "CREATE", c) # 0
    BY DEF Queued, Doing, Count, ToDo
  <2>4. CASE c \notin bev
    <3>1. O = {}
      BY <2>1, <2>2, <2>3, <2>4, OneOwner
    <3> QED
      BY <2>4, <3>1, FS_EmptySet
  <2>5. CASE c \in bev
    <3>1. Asking(pipe, c) \in {0, 1, 2} /\ Telling(answers, c) \in {0, 1, 2}
      BY CountsType
    <3>2. \/ c \in listening /\ c \notin Verifying /\ c \notin Queued("CREATE") /\ session[c] = "none"
          \/ c \notin listening /\ c \in Verifying /\ c \notin Queued("CREATE") /\ session[c] = "none"
          \/ c \notin listening /\ c \notin Verifying /\ c \in Queued("CREATE") /\ session[c] = "none"
          \/ c \notin listening /\ c \notin Verifying /\ c \notin Queued("CREATE") /\ session[c] # "none"
      BY <2>1, <2>2, <2>3, <2>5, <3>1, OneOwner
    <3>3. O = {"listener"} \/ O = {"verify"} \/ O = {"queue"} \/ O = {"session"}
      BY <3>2
    <3> QED
      BY <2>5, <3>3, FS_Singleton
  <2> QED
    BY <2>4, <2>5
<1> QED
  BY <1>1, SessInvAlways, PTL

\* AUTH keeps pointers to sessions that have not stopped, and a stopped session
\* waits for the one request that destroys it (stop(), Request_Process_Cb).
THEOREM LoginsAreOnlineAlways == Spec => []LoginsAreOnline
<1>1. ASSUME SessInv PROVE LoginsAreOnline
  <2>1. logins = Online
    BY <1>1 DEF SessInv, Types, LoggedIn, Online
  <2>2. ASSUME NEW c \in Conn PROVE session[c] = "stopped" <=> c \in Queued("DESTROY")
    <3>1. c \in Queued("DESTROY") <=> Doing(queue, "DESTROY", c) # 0
      BY DEF Queued, Doing, Count, ToDo
    <3>2. CASE up[At[c]]
      BY <1>1, <3>1, <3>2 DEF SessInv, Owned, Num
    <3>3. CASE ~up[At[c]]
      <4>1. At[c] \in Node /\ c \in Here(At[c])
        BY ConstantsOK DEF ConstantsOK, Here
      <4>2. session[c] = "none" /\ queue[At[c]] = <<>>
        BY <1>1, <3>3, <4>1 DEF SessInv, Dead
      <4> QED
        BY <4>2 DEF Queued
    <3> QED
      BY <3>2, <3>3
  <2> QED
    BY <2>1, <2>2 DEF LoginsAreOnline, Queued
<1> QED
  BY <1>1, SessInvAlways, PTL

-----------------------------------------------------------------------------
(* Registration, for every login that no kick finds unanswered.           *)

\* What is on its way at a node is about its own connections; only kicks are
\* about those of others.
MessageHere(n) == {m \in Message : m.cmd = "KICK" \/ m.conn \in Here(n)}
ResultHere(n) == {a \in Result : a.conn \in Here(n)}
OwnPipes == {p \in [Node -> [Context -> Seq(Message)]] :
                \A n \in Node : \A k \in Context : p[n][k] \in Seq(MessageHere(n))}
OwnAnswers == {a \in [Node -> [Context -> Seq(Result)]] :
                  \A n \in Node : \A k \in Context : a[n][k] \in Seq(ResultHere(n))}
Bcasts == [Node -> [Context -> Seq(Conn)]]

\* The number of listings of records that c waits for.
AskList(c) == {Cmd(c, "LIST")}
ToldList(c) == {a \in Result : a.cmd = "LIST" /\ a.conn = c}
Asked(p, k, c) == Count(p[At[c]][k], AskList(c))
Told(a, k, c) == Count(a[At[c]][k], ToldList(c))
Lists(k, c) == Asked(pipe, k, c) + Told(answers, k, c)

\* Of what a login waits for there is one at a time, and its session waits with it:
\* first for the login records, not registered yet, then for the registrations.
Waits(c) ==
    /\ Lists("auth", c) + Lists("core", c) \in {0, 1}
    /\ Lists("auth", c) + Lists("core", c) # 0 => session[c] = "starting"
    /\ Lists("auth", c) # 0 => c \notin registered
    /\ c \in registered => session[c] \in {"starting", "running"}
RegOf(c) == c \in interrupted \/ ((c \in registered => up[At[c]]) /\ (up[At[c]] => Waits(c)))

RegInv ==
    /\ pipe \in OwnPipes /\ answers \in OwnAnswers
    /\ \A c \in Conn : RegOf(c)

\* CountConcat, for every set.
LEMMA Counted ==
    \A T, S : \A q, s \in Seq(T) :
        /\ Count(s, S) = 0 => Count(q \o s, S) = Count(q, S)
        /\ Count(q, S) = 0 => Count(q \o s, S) = Count(s, S)
BY CountConcat

\* What a command added to a pipeline changes of the counts in it.
LEMMA OwnAdd ==
    ASSUME ConstantsOK, NEW p \in OwnPipes, NEW n \in Node, NEW k \in Context,
           NEW s \in Seq(MessageHere(n))
    PROVE  LET w == With(p, n, k, s) IN
           /\ w \in OwnPipes
           /\ w[n][k] = p[n][k] \o s
           /\ \A m \in Node : \A j \in Context : m # n \/ j # k => w[m][j] = p[m][j]
<1> DEFINE w == With(p, n, k, s)
<1>1. /\ p \in [Node -> [Context -> Seq(Message)]] /\ p[n][k] \in Seq(MessageHere(n))
      /\ s \in Seq(Message) /\ p[n] \in [Context -> Seq(Message)]
      /\ \A m \in Node : \A j \in Context : p[m][j] \in Seq(MessageHere(m))
  <2>1. MessageHere(n) \subseteq Message
    BY DEF MessageHere
  <2> QED
    BY <2>1 DEF OwnPipes
<1>2. /\ w = [p EXCEPT ![n] = [p[n] EXCEPT ![k] = p[n][k] \o s]]
      /\ w[n][k] = p[n][k] \o s
      /\ \A m \in Node : \A j \in Context : m # n \/ j # k => w[m][j] = p[m][j]
  BY <1>1 DEF With
<1>3. w \in [Node -> [Context -> Seq(Message)]]
  <2>1. p[n][k] \o s \in Seq(Message)
    BY <1>1
  <2> QED
    BY <1>1, <1>2, <2>1
<1>4. w[n][k] \in Seq(MessageHere(n))
  BY <1>1, <1>2
<1>5. \A m \in Node : \A j \in Context : w[m][j] \in Seq(MessageHere(m))
  BY <1>1, <1>2, <1>4
<1>6. w \in OwnPipes
  BY <1>3, <1>5 DEF OwnPipes
<1> HIDE DEF w
<1> QED
  BY <1>2, <1>6 DEF w

\* Commands that list nothing do not change the count.
LEMMA OwnAddSilent ==
    ASSUME ConstantsOK, NEW p \in OwnPipes, NEW n \in Node, NEW k \in Context,
           NEW s \in Seq(MessageHere(n)), \A i \in DOMAIN s : s[i].cmd # "LIST"
    PROVE  /\ With(p, n, k, s) \in OwnPipes
           /\ \A d \in Conn : \A j \in Context : Asked(With(p, n, k, s), j, d) = Asked(p, j, d)
<1> DEFINE w == With(p, n, k, s)
<1>1. /\ w \in OwnPipes /\ w[n][k] = p[n][k] \o s
      /\ \A m \in Node : \A j \in Context : m # n \/ j # k => w[m][j] = p[m][j]
  BY OwnAdd
<1> HIDE DEF w
<1>2. p[n][k] \in Seq(MessageHere(n)) /\ \A d \in Conn : At[d] \in Node
  BY DEF OwnPipes, ConstantsOK
<1>3. \A d \in Conn : Count(s, AskList(d)) = 0
  BY DEF Count, AskList, Cmd
<1>4. ASSUME NEW d \in Conn PROVE Count(w[n][k], AskList(d)) = Count(p[n][k], AskList(d))
  <2> DEFINE X == AskList(d)
  <2>1. Count(s, X) = 0
    BY <1>3
  <2> HIDE DEF X
  <2>2. Count(p[n][k] \o s, X) = Count(p[n][k], X)
    BY <1>2, <2>1, CountConcat
  <2> QED
    BY <1>1, <2>2 DEF X
<1>5. ASSUME NEW d \in Conn, NEW j \in Context PROVE Asked(w, j, d) = Asked(p, j, d)
  BY <1>1, <1>2, <1>4 DEF Asked
<1> QED
  BY <1>1, <1>5 DEF w

\* A record is added and the records are listed.
LEMMA OwnAddList ==
    ASSUME ConstantsOK, NEW p \in OwnPipes, NEW c \in Conn, NEW k \in Context, NEW t \in Nat
    PROVE  LET w == With(p, At[c], k, <<[cmd |-> "ADD", conn |-> c, stamp |-> t], Cmd(c, "LIST")>>)
           IN /\ w \in OwnPipes
              /\ \A d \in Conn : \A j \in Context :
                   d # c \/ j # k => Asked(w, j, d) = Asked(p, j, d)
              /\ Asked(p, k, c) = 0 => Asked(w, k, c) = 1
<1> DEFINE x == [cmd |-> "ADD", conn |-> c, stamp |-> t]  y == Cmd(c, "LIST")  n == At[c]
           s == <<x, y>>
           w == With(p, n, k, s)
<1>1. n \in Node /\ \A d \in Conn : At[d] \in Node
  BY DEF ConstantsOK
<1>2. x \in MessageHere(n) /\ y \in MessageHere(n)
  BY DEF MessageHere, Message, Here, Cmd
<1>3. \A d \in Conn : x \notin AskList(d)
  BY DEF AskList, Cmd
<1>4. \A d \in Conn : y \in AskList(d) <=> d = c
  BY DEF AskList, Cmd
<1> HIDE DEF x, y
<1>5. s \in Seq(MessageHere(n)) /\ DOMAIN s = {1, 2} /\ s[1] = x /\ s[2] = y
  BY <1>2
<1>6. /\ \A d \in Conn : d # c => Count(s, AskList(d)) = 0
      /\ Count(s, AskList(c)) = 1
  BY <1>3, <1>4, <1>5 DEF Count
<1> HIDE DEF s
<1>7. /\ w \in OwnPipes /\ w[n][k] = p[n][k] \o s
      /\ \A m \in Node : \A j \in Context : m # n \/ j # k => w[m][j] = p[m][j]
  <2>1. n \in Node /\ s \in Seq(MessageHere(n))
    BY <1>1, <1>5
  <2> HIDE DEF n
  <2> QED
    BY <2>1, OwnAdd
<1> HIDE DEF w
<1>8. p[n][k] \in Seq(MessageHere(n))
  BY <1>1 DEF OwnPipes
<1>9. ASSUME NEW d \in Conn, d # c PROVE Count(w[n][k], AskList(d)) = Count(p[n][k], AskList(d))
  <2>1. Count(s, AskList(d)) = 0
    BY <1>6, <1>9
  <2> QED
    BY <1>5, <1>7, <1>8, <2>1, Counted
<1>10. Count(p[n][k], AskList(c)) = 0 => Count(w[n][k], AskList(c)) = 1
  BY <1>5, <1>6, <1>7, <1>8, Counted
<1>11. ASSUME NEW d \in Conn, NEW j \in Context, d # c \/ j # k PROVE Asked(w, j, d) = Asked(p, j, d)
  BY <1>1, <1>7, <1>9, <1>11 DEF Asked
<1>12. Asked(p, k, c) = 0 => Asked(w, k, c) = 1
  BY <1>10 DEF Asked, n
<1> QED
  BY <1>7, <1>11, <1>12 DEF w, s, x, y, n

\* Kicks, of connections of any node.
LEMMA OwnAddKicks ==
    ASSUME ConstantsOK, NEW p \in OwnPipes, NEW n \in Node, NEW V, V \subseteq Conn
    PROVE  LET w == With(p, n, "auth", SetToSeq({Cmd(v, "KICK") : v \in V})) IN
           /\ w \in OwnPipes
           /\ \A d \in Conn : \A j \in Context : Asked(w, j, d) = Asked(p, j, d)
<1> DEFINE K == {Cmd(v, "KICK") : v \in V}
           s == SetToSeq(K)
<1>1. "auth" \in Context
  BY DEF Context
<1>2. K \subseteq MessageHere(n) /\ \A m \in K : m.cmd = "KICK"
  BY DEF Cmd, MessageHere, Message
<1>3. s \in Seq(K)
  BY KickSeq
<1> HIDE DEF K
<1> HIDE DEF s
<1>4. s \in Seq(MessageHere(n)) /\ \A i \in DOMAIN s : s[i].cmd # "LIST"
  BY <1>2, <1>3
<1> QED
  BY <1>1, <1>4, OwnAddSilent DEF s, K

\* Redis takes the first command of a pipeline.
LEMMA OwnPop ==
    ASSUME ConstantsOK, pipe \in OwnPipes, NEW n \in Node, NEW k \in Context, NEW X,
           Executes(n, k, X)
    PROVE  LET m == Head(pipe[n][k]) IN
           /\ pipe' \in OwnPipes /\ m \in MessageHere(n) /\ m.cmd \in X
           /\ \A d \in Conn : \A j \in Context :
                m # Cmd(d, "LIST") \/ j # k => Asked(pipe', j, d) = Asked(pipe, j, d)
           /\ m.cmd = "LIST" => /\ Asked(pipe, k, m.conn) # 0
                                /\ Asked(pipe, k, m.conn) = 1 => Asked(pipe', k, m.conn) = 0
<1> DEFINE q == pipe[n][k]  m == Head(q)  t == Tail(q)
<1>1. /\ pipe \in [Node -> [Context -> Seq(Message)]]
      /\ \A i \in Node : \A j \in Context : pipe[i][j] \in Seq(MessageHere(i))
      /\ q \in Seq(MessageHere(n)) /\ q \in Seq(Message) /\ q # <<>> /\ m.cmd \in X
      /\ pipe' = [pipe EXCEPT ![n] = [pipe[n] EXCEPT ![k] = t]]
      /\ \A d \in Conn : At[d] \in Node
  BY DEF OwnPipes, Executes, ConstantsOK
<1>2. /\ pipe'[n][k] = t
      /\ \A i \in Node : \A j \in Context : i # n \/ j # k => pipe'[i][j] = pipe[i][j]
  BY <1>1
<1>3. /\ t \in Seq(Message) /\ t \in Seq(MessageHere(n)) /\ m \in MessageHere(n)
  BY <1>1
<1>4. pipe' \in [Node -> [Context -> Seq(Message)]]
  BY <1>1, <1>3
<1>5. pipe' \in OwnPipes
  BY <1>1, <1>2, <1>3, <1>4 DEF OwnPipes
<1>6. m.cmd = "LIST" => m.conn \in Conn /\ At[m.conn] = n /\ m = Cmd(m.conn, "LIST")
  BY <1>3 DEF MessageHere, Message, Here, Cmd
<1> HIDE DEF q, m, t
<1>7. ASSUME NEW S
      PROVE  /\ m \notin S => Count(t, S) = Count(q, S)
             /\ m \in S => Count(q, S) # 0 /\ (Count(q, S) = 1 => Count(t, S) = 0)
  BY <1>1, CountTail DEF m, t
<1>8. ASSUME NEW d \in Conn, NEW j \in Context, m # Cmd(d, "LIST") \/ j # k
      PROVE  Asked(pipe', j, d) = Asked(pipe, j, d)
  <2>1. m # Cmd(d, "LIST") => Count(t, AskList(d)) = Count(q, AskList(d))
    BY <1>7 DEF AskList
  <2>2. CASE At[d] = n /\ j = k
    BY <1>2, <1>8, <2>1, <2>2 DEF Asked, q
  <2>3. CASE ~(At[d] = n /\ j = k)
    BY <1>1, <1>2, <2>3 DEF Asked
  <2> QED
    BY <2>2, <2>3
<1>9. ASSUME m.cmd = "LIST"
      PROVE  /\ Asked(pipe, k, m.conn) # 0
             /\ Asked(pipe, k, m.conn) = 1 => Asked(pipe', k, m.conn) = 0
  <2>1. m \in AskList(m.conn)
    BY <1>6, <1>9 DEF AskList
  <2>2. /\ Count(q, AskList(m.conn)) # 0
        /\ Count(q, AskList(m.conn)) = 1 => Count(t, AskList(m.conn)) = 0
    BY <1>7, <2>1
  <2> QED
    BY <1>2, <1>6, <1>9, <2>2 DEF Asked, q
<1> QED
  BY <1>1, <1>3, <1>5, <1>8, <1>9 DEF m, q

\* A callback takes the first answer.
LEMMA OwnHandle ==
    ASSUME ConstantsOK, answers \in OwnAnswers, NEW n \in Node, NEW k \in Context, NEW x,
           Handles(n, k, x)
    PROVE  LET a == Head(answers[n][k]) IN
           /\ answers' \in OwnAnswers /\ a \in ResultHere(n) /\ a.cmd = x
           /\ \A d \in Conn : \A j \in Context :
                x # "LIST" \/ d # a.conn \/ j # k => Told(answers', j, d) = Told(answers, j, d)
           /\ x = "LIST" => /\ Told(answers, k, a.conn) # 0
                            /\ Told(answers, k, a.conn) = 1 => Told(answers', k, a.conn) = 0
<1> DEFINE q == answers[n][k]  a == Head(q)  t == Tail(q)
<1>1. /\ answers \in [Node -> [Context -> Seq(Result)]]
      /\ \A i \in Node : \A j \in Context : answers[i][j] \in Seq(ResultHere(i))
      /\ q \in Seq(ResultHere(n)) /\ q \in Seq(Result) /\ q # <<>> /\ a.cmd = x
      /\ answers' = [answers EXCEPT ![n] = [answers[n] EXCEPT ![k] = t]]
      /\ \A d \in Conn : At[d] \in Node
  BY DEF OwnAnswers, Handles, ConstantsOK
<1>2. /\ answers'[n][k] = t
      /\ \A i \in Node : \A j \in Context : i # n \/ j # k => answers'[i][j] = answers[i][j]
  BY <1>1
<1>3. /\ t \in Seq(Result) /\ t \in Seq(ResultHere(n)) /\ a \in ResultHere(n)
  BY <1>1
<1>4. answers' \in [Node -> [Context -> Seq(Result)]]
  BY <1>1, <1>3
<1>5. answers' \in OwnAnswers
  BY <1>1, <1>2, <1>3, <1>4 DEF OwnAnswers
<1>6. a.conn \in Conn /\ At[a.conn] = n /\ a \in Result
  BY <1>3 DEF ResultHere, Result, Here
<1> HIDE DEF q, a, t
<1>7. ASSUME NEW S
      PROVE  /\ a \notin S => Count(t, S) = Count(q, S)
             /\ a \in S => Count(q, S) # 0 /\ (Count(q, S) = 1 => Count(t, S) = 0)
  BY <1>1, CountTail DEF a, t
<1>8. ASSUME NEW d \in Conn, NEW j \in Context, x # "LIST" \/ d # a.conn \/ j # k
      PROVE  Told(answers', j, d) = Told(answers, j, d)
  <2>1. x # "LIST" \/ d # a.conn => Count(t, ToldList(d)) = Count(q, ToldList(d))
    <3>1. x # "LIST" \/ d # a.conn => a \notin ToldList(d)
      BY <1>1 DEF ToldList
    <3> QED
      BY <1>7, <3>1
  <2>2. CASE At[d] = n /\ j = k
    BY <1>2, <1>8, <2>1, <2>2 DEF Told, q
  <2>3. CASE ~(At[d] = n /\ j = k)
    BY <1>1, <1>2, <2>3 DEF Told
  <2> QED
    BY <2>2, <2>3
<1>9. ASSUME x = "LIST"
      PROVE  /\ Told(answers, k, a.conn) # 0
             /\ Told(answers, k, a.conn) = 1 => Told(answers', k, a.conn) = 0
  <2>1. a \in ToldList(a.conn)
    BY <1>1, <1>6, <1>9 DEF ToldList
  <2>2. /\ Count(q, ToldList(a.conn)) # 0
        /\ Count(q, ToldList(a.conn)) = 1 => Count(t, ToldList(a.conn)) = 0
    BY <1>7, <2>1
  <2> QED
    BY <1>2, <1>6, <2>2 DEF Told, q
<1> QED
  BY <1>1, <1>3, <1>5, <1>8, <1>9 DEF a, q

\* Redis answers a process that is there.
LEMMA OwnAnswer ==
    ASSUME ConstantsOK, answers \in OwnAnswers, NEW n \in Node, NEW k \in Context,
           NEW a \in ResultHere(n), Answers(n, k, <<a>>)
    PROVE  /\ answers' \in OwnAnswers
           /\ \A d \in Conn : \A j \in Context :
                a.cmd # "LIST" \/ d # a.conn \/ j # k => Told(answers', j, d) = Told(answers, j, d)
           /\ up[n] /\ a.cmd = "LIST" /\ Told(answers, k, a.conn) = 0
                => Told(answers', k, a.conn) = 1
<1>1. CASE ~up[n]
  BY <1>1 DEF Answers
<1>2. CASE up[n]
  <2> DEFINE q == answers[n][k]  t == Append(q, a)
  <2>1. /\ answers \in [Node -> [Context -> Seq(Result)]] /\ a \in Result
        /\ \A i \in Node : \A j \in Context : answers[i][j] \in Seq(ResultHere(i))
        /\ q \in Seq(ResultHere(n)) /\ q \in Seq(Result) /\ \A d \in Conn : At[d] \in Node
        /\ a.conn \in Conn /\ At[a.conn] = n
    <3>1. /\ answers \in [Node -> [Context -> Seq(Result)]]
          /\ \A i \in Node : \A j \in Context : answers[i][j] \in Seq(ResultHere(i))
      BY DEF OwnAnswers
    <3>2. a \in Result /\ a.conn \in Conn /\ At[a.conn] = n
      BY DEF ResultHere, Result, Here
    <3> QED
      BY <3>1, <3>2 DEF ConstantsOK
  <2>2. answers' = [answers EXCEPT ![n] = [answers[n] EXCEPT ![k] = t]]
    <3>1. q \o <<a>> = t
      BY <2>1
    <3> QED
      BY <1>2, <3>1 DEF Answers
  <2>3. t \in Seq(Result) /\ t \in Seq(ResultHere(n))
    BY <2>1
  <2>4. /\ answers'[n][k] = t
        /\ \A i \in Node : \A j \in Context : i # n \/ j # k => answers'[i][j] = answers[i][j]
    BY <2>1, <2>2
  <2>5. answers' \in [Node -> [Context -> Seq(Result)]]
    BY <2>1, <2>2, <2>3
  <2>6. answers' \in OwnAnswers
    BY <2>1, <2>3, <2>4, <2>5 DEF OwnAnswers
  <2>7. ASSUME NEW S
        PROVE  /\ a \notin S => Count(t, S) = Count(q, S)
               /\ Count(q, S) = 0 => Count(t, S) = Num(a \in S)
    <3> HIDE DEF q
    <3> QED
      BY <2>1, CountAppend
  <2> HIDE DEF q, t
  <2>8. ASSUME NEW d \in Conn, NEW j \in Context, a.cmd # "LIST" \/ d # a.conn \/ j # k
        PROVE  Told(answers', j, d) = Told(answers, j, d)
    <3>1. a.cmd # "LIST" \/ d # a.conn => Count(t, ToldList(d)) = Count(q, ToldList(d))
      <4>1. a.cmd # "LIST" \/ d # a.conn => a \notin ToldList(d)
        BY DEF ToldList
      <4> QED
        BY <2>7, <4>1
    <3>2. CASE At[d] = n /\ j = k
      BY <2>4, <2>8, <3>1, <3>2 DEF Told, q
    <3>3. CASE ~(At[d] = n /\ j = k)
      BY <2>1, <2>4, <3>3 DEF Told
    <3> QED
      BY <3>2, <3>3
  <2>9. ASSUME a.cmd = "LIST", Told(answers, k, a.conn) = 0 PROVE Told(answers', k, a.conn) = 1
    <3>1. a \in ToldList(a.conn)
      BY <2>1, <2>9 DEF ToldList
    <3>2. Count(q, ToldList(a.conn)) = 0
      BY <2>1, <2>9 DEF Told, q
    <3>3. Count(t, ToldList(a.conn)) = 1
      BY <2>7, <3>1, <3>2 DEF Num
    <3> QED
      BY <2>1, <2>4, <3>3 DEF Told
  <2> QED
    BY <2>6, <2>8, <2>9
<1> QED
  BY <1>1, <1>2

\* What stop() does to its connection, and to no other.
LEMMA OwnStop ==
    ASSUME ConstantsOK, Types, NEW c \in Conn, NEW p \in OwnPipes, NEW b \in BOOLEAN, Stop(c, p, b)
    PROVE  /\ pipe' \in OwnPipes
           /\ \A d \in Conn : \A j \in Context : Asked(pipe', j, d) = Asked(p, j, d)
           /\ session'[c] = "stopped" /\ registered' \subseteq registered
           /\ b /\ session[c] # "stopped" => c \notin registered'
           /\ \A d \in Conn \ {c} : /\ session'[d] = session[d]
                                    /\ d \in registered' <=> d \in registered
<1>1. CASE session[c] = "stopped"
  BY <1>1 DEF Stop, objectVars
<1>2. CASE session[c] # "stopped"
  <2> DEFINE q == With(p, At[c], "auth", add_logout_record(c))
             r == With(q, At[c], "core", withdraw_channel(c))
  <2>1. /\ At[c] \in Node /\ "auth" \in Context /\ "core" \in Context
        /\ add_logout_record(c) \in Seq(MessageHere(At[c]))
        /\ withdraw_channel(c) \in Seq(MessageHere(At[c]))
        /\ \A i \in DOMAIN add_logout_record(c) : add_logout_record(c)[i].cmd # "LIST"
        /\ \A i \in DOMAIN withdraw_channel(c) : withdraw_channel(c)[i].cmd # "LIST"
    <3>1. Cmd(c, "DEL") \in MessageHere(At[c]) /\ Cmd(c, "DEL").cmd = "DEL"
      BY DEF Cmd, MessageHere, Message, Here
    <3> QED
      BY <3>1 DEF ConstantsOK, Context, add_logout_record, withdraw_channel
  <2>2. q \in OwnPipes /\ \A d \in Conn : \A j \in Context : Asked(q, j, d) = Asked(p, j, d)
    BY <2>1, OwnAddSilent
  <2> HIDE DEF q
  <2>3. r \in OwnPipes /\ \A d \in Conn : \A j \in Context : Asked(r, j, d) = Asked(q, j, d)
    BY <2>1, <2>2, OwnAddSilent
  <2> HIDE DEF r
  <2>4. Stopping(c, p, b)
    BY <1>2 DEF Stop
  <2>5. /\ session' = [session EXCEPT ![c] = "stopped"]
        /\ registered' = IF b THEN registered \ {c} ELSE registered
        /\ pipe' = IF b THEN r ELSE q
    BY <2>4 DEF Stopping, q, r
  <2>6. session \in [Conn -> {"none", "starting", "running", "stopped"}] /\ registered \subseteq Conn
    BY DEF Types
  <2>7. pipe' \in OwnPipes /\ \A d \in Conn : \A j \in Context : Asked(pipe', j, d) = Asked(p, j, d)
    BY <2>2, <2>3, <2>5
  <2> QED
    BY <1>2, <2>5, <2>6, <2>7
<1> QED
  BY <1>1, <1>2

\* The state of a connection whose session is stopped.
LEMMA RegStopped ==
    ASSUME NEW c \in Conn, session'[c] = "stopped", c \notin registered',
           Lists("auth", c)' = 0, Lists("core", c)' = 0
    PROVE  RegOf(c)'
  BY DEF RegOf, Waits

\* The counts of what a connection waits for are small numbers.
LEMMA ListsType ==
    ASSUME NEW c
    PROVE  /\ Asked(pipe, "auth", c) \in {0, 1, 2} /\ Told(answers, "auth", c) \in {0, 1, 2}
           /\ Asked(pipe, "core", c) \in {0, 1, 2} /\ Told(answers, "core", c) \in {0, 1, 2}
           /\ Asked(pipe', "auth", c) \in {0, 1, 2} /\ Told(answers', "auth", c) \in {0, 1, 2}
           /\ Asked(pipe', "core", c) \in {0, 1, 2} /\ Told(answers', "core", c) \in {0, 1, 2}
  BY CountType DEF Asked, Told

\* Whoever is not among those whose listing is under way waits for none.
LEMMA ListingCount ==
    ASSUME ConstantsOK, RegInv, NEW c \in Conn, NEW k \in Context
    PROVE  c \in Listing(k) <=> Asked(pipe, k, c) # 0 \/ Told(answers, k, c) # 0
<1>1. At[c] \in Node /\ answers \in OwnAnswers
  BY DEF ConstantsOK, RegInv
<1>2. (\E i \in DOMAIN pipe[At[c]][k] : pipe[At[c]][k][i] = Cmd(c, "LIST")) <=> Asked(pipe, k, c) # 0
  BY DEF Asked, Count, AskList
<1>3. (\E i \in DOMAIN answers[At[c]][k] :
          answers[At[c]][k][i].cmd = "LIST" /\ answers[At[c]][k][i].conn = c)
      <=> Told(answers, k, c) # 0
  <2>1. \A i \in DOMAIN answers[At[c]][k] : answers[At[c]][k][i] \in Result
    BY <1>1 DEF OwnAnswers
  <2> QED
    BY <2>1 DEF Told, Count, ToldList
<1> QED
  BY <1>2, <1>3 DEF Listing

LEMMA NotListing ==
    ASSUME ConstantsOK, RegInv, NEW c \in Conn, NEW k \in Context, c \notin Listing(k)
    PROVE  Lists(k, c) = 0
  BY ListingCount DEF Lists

\* A step that changes nothing that matters of a connection.
Still(d) ==
    /\ session'[d] = session[d] /\ (d \in registered' <=> d \in registered)
    /\ up[At[d]] => /\ Lists("auth", d)' = Lists("auth", d)
                    /\ Lists("core", d)' = Lists("core", d)

LEMMA RegStep ==
    ASSUME RegInv, pipe' \in OwnPipes, answers' \in OwnAnswers, up' = up,
           interrupted \subseteq interrupted', \A d \in Conn : Still(d) \/ RegOf(d)'
    PROVE  RegInv'
<1>1. ASSUME NEW d \in Conn, Still(d) PROVE RegOf(d)'
  <2>1. RegOf(d)
    BY DEF RegInv
  <2>2. CASE d \in interrupted
    BY <2>2 DEF RegOf
  <2>3. CASE (d \in registered => up[At[d]]) /\ (up[At[d]] => Waits(d))
    BY <1>1, <2>3 DEF Still, RegOf, Waits
  <2> QED
    BY <2>1, <2>2, <2>3 DEF RegOf
<1> QED
  BY <1>1 DEF RegInv

\* A step that touches none of this.
LEMMA RegOutside ==
    ASSUME RegInv, UNCHANGED <<session, registered, up, answers, interrupted>>,
           pipe' \in OwnPipes, \A d \in Conn : \A j \in Context : Asked(pipe', j, d) = Asked(pipe, j, d)
    PROVE  RegInv'
<1>1. "auth" \in Context /\ "core" \in Context
  BY DEF Context
<1>2. ASSUME NEW d \in Conn PROVE Still(d)
  BY <1>1 DEF Still, Lists, Told
<1> QED
  BY <1>2, RegStep DEF RegInv

\* The listener asks for the verification.
LEMMA RegListener ==
    ASSUME ConstantsOK, RegInv, NEW c \in Conn, BevReadCallback(c)
    PROVE  RegInv'
<1> DEFINE s == <<Cmd(c, "VERIFY")>>
<1>1. /\ UNCHANGED <<session, registered, up, answers, interrupted>>
      /\ pipe' \in {pipe, With(pipe, At[c], "auth", s)}
  BY DEF BevReadCallback, objectVars
<1>2. /\ At[c] \in Node /\ "auth" \in Context /\ pipe \in OwnPipes
      /\ s \in Seq(MessageHere(At[c])) /\ \A i \in DOMAIN s : s[i].cmd # "LIST"
  <2>1. Cmd(c, "VERIFY") \in MessageHere(At[c]) /\ Cmd(c, "VERIFY").cmd = "VERIFY"
    BY DEF Cmd, MessageHere, Message, Here
  <2> QED
    BY <2>1 DEF ConstantsOK, Context, RegInv
<1> HIDE DEF s
<1>3. /\ With(pipe, At[c], "auth", s) \in OwnPipes
      /\ \A d \in Conn : \A j \in Context :
           Asked(With(pipe, At[c], "auth", s), j, d) = Asked(pipe, j, d)
  BY <1>2, OwnAddSilent
<1>4. pipe' \in OwnPipes /\ \A d \in Conn : \A j \in Context : Asked(pipe', j, d) = Asked(pipe, j, d)
  BY <1>1, <1>2, <1>3
<1> QED
  BY <1>1, <1>4, RegOutside

LEMMA RegVerify ==
    ASSUME ConstantsOK, RegInv, NEW n \in Node, Redis_Verify_Callback(n)
    PROVE  RegInv'
<1>1. /\ Handles(n, "auth", "VERIFY") /\ "auth" \in Context /\ "core" \in Context
      /\ UNCHANGED <<session, registered, up, pipe, interrupted>>
  BY DEF Redis_Verify_Callback, Context
<1>2. /\ answers' \in OwnAnswers
      /\ \A d \in Conn : \A j \in Context : Told(answers', j, d) = Told(answers, j, d)
  BY <1>1, OwnHandle DEF RegInv
<1>3. ASSUME NEW d \in Conn PROVE Still(d)
  BY <1>1, <1>2 DEF Still, Lists, Asked
<1> QED
  BY <1>1, <1>2, <1>3, RegStep DEF RegInv

\* A session begins to wait when it is created, and has stopped when it is destroyed.
LEMMA RegRequest ==
    ASSUME ConstantsOK, SessInv, RegInv, NEW n \in Node, Request_Process_Cb(n)
    PROVE  RegInv'
<1>0. PICK x, c : x = Head(queue[n]) /\ c = x.conn
  OBVIOUS
<1>1. /\ Types /\ queue \in Queues /\ queue[n] # <<>>
      /\ queue' = [queue EXCEPT ![n] = Tail(@)]
      /\ \/ /\ x.op = "CREATE" /\ session' = [session EXCEPT ![c] = "starting"]
            /\ pipe' = With(pipe, n, "auth", add_login_record(c))
         \/ /\ x.op = "DESTROY" /\ session' = [session EXCEPT ![c] = "none"]
            /\ pipe' = pipe
      /\ UNCHANGED <<registered, up, answers, interrupted>>
  BY <1>0 DEF Request_Process_Cb, SessInv, Types
<1>2. c \in Conn /\ At[c] = n /\ Doing(queue, x.op, c) # 0 /\ x.op \in {"CREATE", "DESTROY"}
  BY <1>0, <1>1, PopEffect
<1>3. up[n]
  BY <1>1 DEF SessInv, Dead
<1>4. Owned(c) /\ RegOf(c)
  BY <1>2, <1>3 DEF SessInv, RegInv
<1>5. session \in [Conn -> {"none", "starting", "running", "stopped"}]
      /\ "auth" \in Context /\ "core" \in Context
  BY <1>1 DEF Types, Context
<1>6. CASE x.op = "CREATE"
  <2>1. session[c] = "none"
    BY <1>2, <1>4, <1>6, OneOwner
  <2> DEFINE w == With(pipe, At[c], "auth", <<[cmd |-> "ADD", conn |-> c, stamp |-> clock], Cmd(c, "LIST")>>)
  <2>2. pipe' = w
    BY <1>1, <1>2, <1>6 DEF add_login_record
  <2>3. /\ w \in OwnPipes
        /\ \A d \in Conn : \A j \in Context : d # c \/ j # "auth" => Asked(w, j, d) = Asked(pipe, j, d)
        /\ Asked(pipe, "auth", c) = 0 => Asked(w, "auth", c) = 1
    <3>1. pipe \in OwnPipes /\ clock \in Nat
      BY <1>1 DEF RegInv, Types
    <3> QED
      BY <1>2, <1>5, <3>1, OwnAddList
  <2> HIDE DEF w
  <2>4. /\ session'[c] = "starting" /\ \A d \in Conn : d # c => session'[d] = session[d]
        /\ UNCHANGED <<registered, up, answers, interrupted>>
    BY <1>1, <1>2, <1>5, <1>6
  <2>5. ASSUME NEW d \in Conn, d # c PROVE Still(d)
    BY <1>5, <2>2, <2>3, <2>4, <2>5 DEF Still, Lists, Told
  <2>6. ASSUME Waits(c) PROVE RegOf(c)'
    <3>1. Lists("auth", c) + Lists("core", c) = 0 /\ c \notin registered
      BY <2>1, <2>6 DEF Waits
    <3>2. /\ Asked(pipe, "auth", c) = 0 /\ Told(answers, "auth", c) = 0
          /\ Asked(pipe, "core", c) = 0 /\ Told(answers, "core", c) = 0
      BY <3>1, ListsType DEF Lists
    <3>3. /\ Asked(pipe', "auth", c) = 1 /\ Asked(pipe', "core", c) = 0
          /\ Told(answers', "auth", c) = 0 /\ Told(answers', "core", c) = 0
      BY <1>2, <1>5, <2>2, <2>3, <2>4, <3>2
    <3>4. Lists("auth", c)' = 1 /\ Lists("core", c)' = 0
      BY <3>3 DEF Lists
    <3> QED
      BY <1>2, <1>3, <2>4, <3>1, <3>4 DEF RegOf, Waits
  <2>7. RegOf(c)'
    <3>1. CASE c \in interrupted
      BY <2>4, <3>1 DEF RegOf
    <3>2. CASE Waits(c)
      BY <2>6, <3>2
    <3> QED
      BY <1>2, <1>3, <1>4, <3>1, <3>2 DEF RegOf
  <2> QED
    BY <2>2, <2>3, <2>4, <2>5, <2>7, RegStep DEF RegInv
<1>7. CASE x.op = "DESTROY"
  <2>1. session[c] = "stopped"
    BY <1>2, <1>4, <1>7 DEF Owned, Num
  <2>2. /\ session'[c] = "none" /\ \A d \in Conn : d # c => session'[d] = session[d]
        /\ UNCHANGED <<pipe, registered, up, answers, interrupted>>
    BY <1>1, <1>2, <1>5, <1>7
  <2>3. ASSUME NEW d \in Conn, d # c PROVE Still(d)
    BY <2>2, <2>3 DEF Still, Lists, Asked, Told
  <2>4. ASSUME Waits(c) PROVE RegOf(c)'
    <3>1. Lists("auth", c) + Lists("core", c) = 0 /\ c \notin registered
      BY <2>1, <2>4 DEF Waits
    <3>2. Lists("auth", c) = 0 /\ Lists("core", c) = 0
      BY <3>1, ListsType DEF Lists
    <3> QED
      BY <2>2, <3>1, <3>2 DEF RegOf, Waits, Lists, Asked, Told
  <2>5. RegOf(c)'
    <3>1. CASE c \in interrupted
      BY <2>2, <3>1 DEF RegOf
    <3>2. CASE Waits(c)
      BY <2>4, <3>2
    <3> QED
      BY <1>2, <1>3, <1>4, <3>1, <3>2 DEF RegOf
  <2> QED
    BY <2>2, <2>3, <2>5, RegStep DEF RegInv
<1> QED
  BY <1>2, <1>6, <1>7

\* A listing answered: of its login, and the only thing that one waits for.
LEMMA OneListing ==
    ASSUME ConstantsOK, RegInv, NEW n \in Node, NEW k \in Context, Handles(n, k, "LIST")
    PROVE  LET c == Head(answers[n][k]).conn IN
           /\ c \in Conn /\ At[c] = n /\ Head(answers[n][k]) \in Result
           /\ Head(answers[n][k]).cmd = "LIST"
           /\ answers' \in OwnAnswers
           /\ \A d \in Conn : \A j \in Context : d # c => Told(answers', j, d) = Told(answers, j, d)
           /\ up[n] /\ c \notin interrupted =>
                /\ session[c] = "starting" /\ (k = "auth" => c \notin registered)
                /\ \A j \in Context : Asked(pipe, j, c) = 0 /\ Told(answers', j, c) = 0
<1> DEFINE a == Head(answers[n][k])
<1>1. PICK c : c = a.conn
  OBVIOUS
<1>2. /\ answers' \in OwnAnswers /\ a \in ResultHere(n) /\ a.cmd = "LIST"
      /\ \A d \in Conn : \A j \in Context :
           d # c \/ j # k => Told(answers', j, d) = Told(answers, j, d)
      /\ Told(answers, k, c) # 0
      /\ Told(answers, k, c) = 1 => Told(answers', k, c) = 0
  <2>1. answers \in OwnAnswers
    BY DEF RegInv
  <2> QED
    BY <1>1, <2>1, OwnHandle
<1>3. a \in Result /\ c \in Conn /\ At[c] = n /\ Context = {"auth", "core"}
  BY <1>1, <1>2 DEF ResultHere, Here, Context
<1> HIDE DEF a
<1>4. ASSUME up[n], c \notin interrupted
      PROVE  /\ session[c] = "starting" /\ (k = "auth" => c \notin registered)
             /\ \A j \in Context : Asked(pipe, j, c) = 0 /\ Told(answers', j, c) = 0
  <2>1. Waits(c)
    BY <1>3, <1>4 DEF RegInv, RegOf
  <2>2. /\ \A j \in Context : Asked(pipe, j, c) = 0
        /\ \A j \in Context : j # k => Told(answers, j, c) = 0
        /\ Told(answers, k, c) = 1 /\ Lists("auth", c) + Lists("core", c) = 1
        /\ Lists(k, c) = 1
    <3> DEFINE pa == Asked(pipe, "auth", c)  pc == Asked(pipe, "core", c)
               ta == Told(answers, "auth", c)  tc == Told(answers, "core", c)
    <3>1. /\ pa \in {0, 1, 2} /\ pc \in {0, 1, 2} /\ ta \in {0, 1, 2} /\ tc \in {0, 1, 2}
      BY ListsType
    <3>2. (pa + ta) + (pc + tc) \in {0, 1}
      BY <2>1 DEF Waits, Lists
    <3>3. (k = "auth" => ta # 0) /\ (k = "core" => tc # 0)
      BY <1>2
    <3> HIDE DEF pa, pc, ta, tc
    <3>4. /\ pa = 0 /\ pc = 0 /\ ((ta = 1 /\ tc = 0) \/ (ta = 0 /\ tc = 1))
          /\ (k = "auth" => ta = 1 /\ tc = 0) /\ (k = "core" => ta = 0 /\ tc = 1)
      BY <1>3, <3>1, <3>2, <3>3
    <3>5. /\ (k = "auth" => pa + ta = 1 /\ pc + tc = 0)
          /\ (k = "core" => pa + ta = 0 /\ pc + tc = 1)
          /\ (pa + ta) + (pc + tc) = 1
      BY <3>4, <1>3
    <3> QED
      BY <1>3, <3>4, <3>5 DEF pa, pc, ta, tc, Lists
  <2>3. session[c] = "starting" /\ (k = "auth" => c \notin registered)
    BY <1>3, <2>1, <2>2 DEF Waits
  <2>4. \A j \in Context : Told(answers', j, c) = 0
    BY <1>2, <1>3, <2>2
  <2> QED
    BY <2>2, <2>3, <2>4
<1> QED
  BY <1>1, <1>2, <1>3, <1>4 DEF a

\* The login records: whoever is too much is kicked, on whatever node; a login
\* that is not is registered.
LEMMA RegAddLogin ==
    ASSUME ConstantsOK, SessInv, RegInv, NEW n \in Node, Redis_Add_Login_Callback(n)
    PROVE  RegInv'
<1> DEFINE a == Head(answers[n]["auth"])
           Kicks(V) == With(pipe, n, "auth", SetToSeq({Cmd(v, "KICK") : v \in V}))
<1>0. PICK c, r : c = a.conn /\ r = a.recs
  OBVIOUS
<1>1. /\ Types /\ Handles(n, "auth", "LIST") /\ "auth" \in Context /\ "core" \in Context
      /\ up' = up /\ interrupted' = interrupted /\ pipe \in OwnPipes
      /\ \/ pipe' = Kicks({c}) /\ UNCHANGED objectVars
         \/ \E V \in Victims(r, Kind[c] \in Protected) :
              \/ pipe' = Kicks(V) /\ UNCHANGED objectVars
              \/ AuthLoginOk(c, Kicks(V))
  BY <1>0 DEF Redis_Add_Login_Callback, SessInv, RegInv, Context, socketVars
<1>2. up[n]
  BY <1>1 DEF SessInv, Dead, Handles
<1>3. /\ c \in Conn /\ At[c] = n
      /\ answers' \in OwnAnswers
      /\ \A d \in Conn : \A j \in Context : d # c => Told(answers', j, d) = Told(answers, j, d)
      /\ c \notin interrupted =>
           /\ session[c] = "starting" /\ c \notin registered
           /\ \A j \in Context : Asked(pipe, j, c) = 0 /\ Told(answers', j, c) = 0
  <2>1. Handles(n, "auth", "LIST") /\ "auth" \in Context
    BY <1>1
  <2> QED
    BY <1>0, <1>2, <2>1, OneListing
<1> HIDE DEF a
<1>4. ASSUME NEW V, V \subseteq Conn
      PROVE  /\ Kicks(V) \in OwnPipes
             /\ \A d \in Conn : \A j \in Context : Asked(Kicks(V), j, d) = Asked(pipe, j, d)
  BY <1>1, <1>4, OwnAddKicks
<1>5. ASSUME NEW b, NEW V \in Victims(r, b) PROVE V \subseteq Conn
  <2> DEFINE T == {t \in Erased(r, b) : Reported(r, b, t) # {}}
  <2>1. \A u \in T : Reported(r, b, u) \subseteq Conn
    BY DEF Reported, After, Present
  <2>2. PICK f \in {g \in [T -> Conn] : \A t \in T : g[t] \in Reported(r, b, t)} : V = {f[t] : t \in T}
    BY DEF Victims
  <2> HIDE DEF T
  <2> QED
    BY <2>2
<1> HIDE DEF Kicks
<1>6. ASSUME NEW V, V \subseteq Conn, pipe' = Kicks(V), UNCHANGED objectVars PROVE RegInv'
  <2>1. /\ pipe' \in OwnPipes
        /\ \A d \in Conn : \A j \in Context : Asked(pipe', j, d) = Asked(pipe, j, d)
    BY <1>4, <1>6
  <2>2. ASSUME NEW d \in Conn, d # c PROVE Still(d)
    BY <1>1, <1>3, <1>6, <2>1, <2>2 DEF Still, objectVars, Lists
  <2>3. ASSUME c \notin interrupted PROVE RegOf(c)'
    <3>1. Lists("auth", c)' = 0 /\ Lists("core", c)' = 0
      BY <1>1, <1>3, <2>1, <2>3 DEF Lists
    <3> QED
      BY <1>3, <1>6, <2>3, <3>1 DEF RegOf, Waits, objectVars
  <2>4. RegOf(c)'
    BY <1>1, <2>3 DEF RegOf
  <2> QED
    BY <1>1, <1>3, <2>1, <2>2, <2>4, RegStep
<1>7. ASSUME NEW V, V \subseteq Conn, AuthLoginOk(c, Kicks(V)) PROVE RegInv'
  <2>1. PICK p : p = Kicks(V)
    OBVIOUS
  <2>2. p \in OwnPipes /\ \A d \in Conn : \A j \in Context : Asked(p, j, d) = Asked(pipe, j, d)
    BY <1>4, <1>7, <2>1
  <2>3. \/ session[c] = "none" /\ pipe' = Kicks(V) /\ UNCHANGED objectVars
        \/ Stop(c, p, FALSE)
        \/ /\ registered' = registered \cup {c}
           /\ pipe' = With(p, At[c], "core", register_channel(c))
           /\ UNCHANGED <<session, logins, queue, woken>>
    BY <1>7, <2>1 DEF AuthLoginOk
  <2>4. CASE Stop(c, p, FALSE)
    <3>1. /\ pipe' \in OwnPipes
          /\ \A d \in Conn : \A j \in Context : Asked(pipe', j, d) = Asked(p, j, d)
          /\ session'[c] = "stopped" /\ registered' \subseteq registered
          /\ \A d \in Conn \ {c} : /\ session'[d] = session[d]
                                   /\ d \in registered' <=> d \in registered
      BY <1>1, <1>3, <2>2, <2>4, OwnStop
    <3>2. ASSUME NEW d \in Conn, d # c PROVE Still(d)
      BY <1>1, <1>3, <2>2, <3>1, <3>2 DEF Still, Lists
    <3>3. ASSUME c \notin interrupted PROVE RegOf(c)'
      <4>1. Lists("auth", c)' = 0 /\ Lists("core", c)' = 0 /\ c \notin registered'
        BY <1>1, <1>3, <2>2, <3>1, <3>3 DEF Lists
      <4> QED
        BY <1>3, <3>1, <4>1, RegStopped
    <3>4. RegOf(c)'
      BY <1>1, <3>3 DEF RegOf
    <3> QED
      BY <1>1, <1>3, <3>1, <3>2, <3>4, RegStep
  <2>5. CASE /\ registered' = registered \cup {c}
             /\ pipe' = With(p, At[c], "core", register_channel(c))
             /\ UNCHANGED <<session, logins, queue, woken>>
    <3>1. /\ pipe' \in OwnPipes
          /\ \A d \in Conn : \A j \in Context :
               d # c \/ j # "core" => Asked(pipe', j, d) = Asked(p, j, d)
          /\ Asked(p, "core", c) = 0 => Asked(pipe', "core", c) = 1
      BY <1>1, <1>3, <2>2, <2>5, OwnAddList DEF register_channel
    <3>2. ASSUME NEW d \in Conn, d # c PROVE Still(d)
      BY <1>1, <1>3, <2>2, <2>5, <3>1, <3>2 DEF Still, Lists
    <3>3. ASSUME c \notin interrupted PROVE RegOf(c)'
      <4>1. Lists("auth", c)' = 0 /\ Lists("core", c)' = 1
        BY <1>1, <1>3, <2>2, <3>1, <3>3 DEF Lists
      <4> QED
        BY <1>1, <1>2, <1>3, <2>5, <3>3, <4>1 DEF RegOf, Waits
    <3>4. RegOf(c)'
      BY <1>1, <3>3 DEF RegOf
    <3> QED
      BY <1>1, <1>3, <3>1, <3>2, <3>4, RegStep
  <2> QED
    BY <1>6, <1>7, <2>3, <2>4, <2>5
<1>8. CASE pipe' = Kicks({c}) /\ UNCHANGED objectVars
  <2>1. {c} \subseteq Conn
    BY <1>3
  <2> QED
    BY <1>6, <1>8, <2>1
<1>9. CASE \E V \in Victims(r, Kind[c] \in Protected) :
             \/ pipe' = Kicks(V) /\ UNCHANGED objectVars
             \/ AuthLoginOk(c, Kicks(V))
  BY <1>5, <1>6, <1>7, <1>9
<1> QED
  BY <1>1, <1>8, <1>9

\* A kick stops a session: one that runs is withdrawn, one that starts is not,
\* and unless it waited for nothing it counts as interrupted.
LEMMA RegKick ==
    ASSUME ConstantsOK, SessInv, RegInv, NEW c \in Conn, session[c] # "none",
           Stop(c, pipe, session[c] = "running"), Interrupt(c), up' = up, answers' = answers
    PROVE  RegInv'
<1>1. /\ Types /\ pipe \in OwnPipes /\ "auth" \in Context /\ "core" \in Context
      /\ At[c] \in Node
      /\ (session[c] = "running") \in BOOLEAN
      /\ session[c] \in {"starting", "running", "stopped"}
  BY DEF SessInv, Types, RegInv, Context, ConstantsOK
<1>2. up[At[c]]
  BY <1>1 DEF SessInv, Dead, Here
<1>3. /\ pipe' \in OwnPipes
      /\ \A d \in Conn : \A j \in Context : Asked(pipe', j, d) = Asked(pipe, j, d)
      /\ session'[c] = "stopped" /\ registered' \subseteq registered
      /\ session[c] = "running" => c \notin registered'
      /\ \A d \in Conn \ {c} : /\ session'[d] = session[d]
                               /\ d \in registered' <=> d \in registered
  <2> DEFINE b == session[c] = "running"
  <2>1. b \in BOOLEAN /\ Stop(c, pipe, b)
    BY <1>1
  <2>2. b => session[c] # "stopped"
    OBVIOUS
  <2> HIDE DEF b
  <2>3. /\ pipe' \in OwnPipes
        /\ \A d \in Conn : \A j \in Context : Asked(pipe', j, d) = Asked(pipe, j, d)
        /\ session'[c] = "stopped" /\ registered' \subseteq registered
        /\ b /\ session[c] # "stopped" => c \notin registered'
        /\ \A d \in Conn \ {c} : /\ session'[d] = session[d]
                                 /\ d \in registered' <=> d \in registered
    BY <1>1, <2>1, OwnStop
  <2> QED
    BY <2>2, <2>3 DEF b
<1>4. /\ interrupted \subseteq interrupted'
      /\ session[c] = "starting" /\ c \in registered \cup Listing("auth") \cup Listing("core")
           => c \in interrupted'
  BY DEF Interrupt
<1>5. ASSUME NEW d \in Conn, d # c PROVE Still(d)
  BY <1>1, <1>3, <1>5 DEF Still, Lists, Told
<1>6. RegOf(c)'
  <2>1. CASE c \in interrupted'
    BY <2>1 DEF RegOf
  <2>2. CASE c \notin interrupted'
    <3>1. Waits(c)
      BY <1>2, <1>4, <2>2 DEF RegInv, RegOf
    <3>2. Lists("auth", c) = 0 /\ Lists("core", c) = 0 /\ c \notin registered'
      <4>1. CASE session[c] = "starting"
        <5>1. c \notin registered /\ c \notin Listing("auth") /\ c \notin Listing("core")
          BY <1>4, <2>2, <4>1
        <5>2. Lists("auth", c) = 0 /\ Lists("core", c) = 0
          BY <1>1, <5>1, NotListing
        <5> QED
          BY <1>3, <5>1, <5>2
      <4>2. CASE session[c] # "starting"
        <5>1. Lists("auth", c) + Lists("core", c) = 0 /\ c \notin registered'
          BY <1>1, <1>3, <3>1, <4>2 DEF Waits
        <5> QED
          BY <5>1, ListsType DEF Lists
      <4> QED
        BY <4>1, <4>2
    <3>3. Lists("auth", c)' = 0 /\ Lists("core", c)' = 0
      BY <1>1, <1>3, <3>2 DEF Lists, Told
    <3> QED
      BY <1>3, <3>2, <3>3, RegStopped
  <2> QED
    BY <2>1, <2>2
<1> QED
  BY <1>3, <1>4, <1>5, <1>6, RegStep DEF RegInv

\* The two broadcasts that stop sessions.
LEMMA RegBroadcasts ==
    ASSUME ConstantsOK, SessInv, RegInv, NEW n \in Node,
           Redis_Auth_Broadcast_Callback(n) \/ Redis_Broadcast_Callback(n)
    PROVE  RegInv'
<1>1. \/ UNCHANGED <<objectVars, pipe, interrupted>>
      \/ \E c \in Conn : /\ session[c] # "none" /\ Interrupt(c)
                         /\ Stop(c, pipe, session[c] = "running")
  <2>1. CASE Redis_Auth_Broadcast_Callback(n)
    <3>1. \A c \in logins : c \in Conn /\ session[c] # "none"
      BY DEF SessInv, Types, LoggedIn
    <3> QED
      BY <2>1, <3>1 DEF Redis_Auth_Broadcast_Callback
  <2>2. CASE Redis_Broadcast_Callback(n)
    <3>1. KickMap \subseteq Conn
      BY DEF KickMap, SessInv, Types
    <3> QED
      BY <2>2, <3>1 DEF Redis_Broadcast_Callback
  <2> QED
    BY <2>1, <2>2
<1>2. up' = up /\ answers' = answers
  BY DEF Redis_Auth_Broadcast_Callback, Redis_Broadcast_Callback
<1>3. CASE UNCHANGED <<objectVars, pipe, interrupted>>
  BY <1>2, <1>3, RegOutside DEF objectVars, RegInv
<1>4. ASSUME NEW c \in Conn, session[c] # "none", Interrupt(c), Stop(c, pipe, session[c] = "running")
      PROVE  RegInv'
  BY <1>2, <1>4, RegKick
<1> QED
  BY <1>1, <1>3, <1>4

\* The session runs, or fails to subscribe and withdraws.
LEMMA RegRegister ==
    ASSUME ConstantsOK, SessInv, RegInv, NEW n \in Node, Redis_Register_Callback(n)
    PROVE  RegInv'
<1> DEFINE a == Head(answers[n]["core"])
<1>0. PICK c : c = a.conn
  OBVIOUS
<1>1. /\ Types /\ Handles(n, "core", "LIST") /\ "auth" \in Context /\ "core" \in Context
      /\ up' = up /\ interrupted' = interrupted /\ pipe \in OwnPipes
      /\ \/ /\ session[c] = "starting" /\ session' = [session EXCEPT ![c] = "running"]
            /\ UNCHANGED <<logins, registered, queue, woken, pipe>>
         \/ session[c] = "starting" /\ Stop(c, pipe, TRUE)
         \/ UNCHANGED <<objectVars, pipe>>
  BY <1>0 DEF Redis_Register_Callback, SessInv, RegInv, Context, socketVars
<1>2. /\ c \in Conn /\ At[c] = n
      /\ answers' \in OwnAnswers
      /\ \A d \in Conn : \A j \in Context : d # c => Told(answers', j, d) = Told(answers, j, d)
      /\ up[n] /\ c \notin interrupted =>
           /\ session[c] = "starting"
           /\ \A j \in Context : Asked(pipe, j, c) = 0 /\ Told(answers', j, c) = 0
  <2>1. Handles(n, "core", "LIST") /\ "core" \in Context
    BY <1>1
  <2>2. LET d == a.conn IN
        /\ d \in Conn /\ At[d] = n
        /\ answers' \in OwnAnswers
        /\ \A e \in Conn : \A j \in Context : e # d => Told(answers', j, e) = Told(answers, j, e)
        /\ up[n] /\ d \notin interrupted =>
             /\ session[d] = "starting"
             /\ \A j \in Context : Asked(pipe, j, d) = 0 /\ Told(answers', j, d) = 0
    BY <2>1, OneListing
  <2> QED
    BY <1>0, <2>2
<1> HIDE DEF a
<1>3. \/ UNCHANGED <<objectVars, pipe>>
      \/ session' = [session EXCEPT ![c] = "running"]
           /\ UNCHANGED <<logins, registered, queue, woken, pipe>>
      \/ session[c] = "starting" /\ Stop(c, pipe, TRUE)
  BY <1>1
<1>4. ~up[n] => session[c] = "none"
  BY <1>2 DEF SessInv, Dead, Here
<1>5. CASE UNCHANGED <<objectVars, pipe>>
  <2>1. ASSUME NEW d \in Conn, d # c PROVE Still(d)
    BY <1>1, <1>2, <1>5, <2>1 DEF Still, objectVars, Lists, Asked
  <2>2. ASSUME up[n], c \notin interrupted PROVE RegOf(c)'
    <3>1. Lists("auth", c)' = 0 /\ Lists("core", c)' = 0
      BY <1>1, <1>2, <1>5, <2>2 DEF Lists, Asked
    <3> QED
      BY <1>1, <1>2, <1>5, <2>2, <3>1 DEF RegOf, Waits, objectVars
  <2>3. ASSUME ~up[n] PROVE Still(c)
    BY <1>2, <1>5, <2>3 DEF Still, objectVars
  <2>4. Still(c) \/ RegOf(c)'
    <3>1. CASE c \in interrupted
      BY <1>1, <3>1 DEF RegOf
    <3> QED
      BY <2>2, <2>3, <3>1
  <2> QED
    BY <1>1, <1>2, <1>5, <2>1, <2>4, RegStep
<1>6. CASE /\ session[c] = "starting" /\ session' = [session EXCEPT ![c] = "running"]
           /\ UNCHANGED <<logins, registered, queue, woken, pipe>>
  <2>1. /\ pipe' = pipe /\ registered' = registered /\ session'[c] = "running"
        /\ \A d \in Conn : d # c => session'[d] = session[d]
    BY <1>1, <1>2, <1>6 DEF Types
  <2>2. ASSUME NEW d \in Conn, d # c PROVE Still(d)
    BY <1>1, <1>2, <2>1, <2>2 DEF Still, Lists, Asked
  <2>3. ASSUME c \notin interrupted PROVE RegOf(c)'
    <3>1. up[n]
      BY <1>4, <1>6
    <3>2. Lists("auth", c)' = 0 /\ Lists("core", c)' = 0
      BY <1>1, <1>2, <2>1, <2>3, <3>1 DEF Lists, Asked
    <3> QED
      BY <1>1, <1>2, <2>1, <3>1, <3>2 DEF RegOf, Waits
  <2>4. RegOf(c)'
    BY <1>1, <2>3 DEF RegOf
  <2> QED
    BY <1>1, <1>2, <2>1, <2>2, <2>4, RegStep
<1>7. CASE session[c] = "starting" /\ Stop(c, pipe, TRUE)
  <2>1. /\ pipe' \in OwnPipes
        /\ \A d \in Conn : \A j \in Context : Asked(pipe', j, d) = Asked(pipe, j, d)
        /\ session'[c] = "stopped" /\ c \notin registered'
        /\ \A d \in Conn \ {c} : /\ session'[d] = session[d]
                                 /\ d \in registered' <=> d \in registered
    BY <1>1, <1>2, <1>7, OwnStop
  <2>2. ASSUME NEW d \in Conn, d # c PROVE Still(d)
    BY <1>1, <1>2, <2>1, <2>2 DEF Still, Lists
  <2>3. ASSUME c \notin interrupted PROVE RegOf(c)'
    <3>1. up[n]
      BY <1>4, <1>7
    <3>2. Lists("auth", c)' = 0 /\ Lists("core", c)' = 0
      BY <1>1, <1>2, <2>1, <2>3, <3>1 DEF Lists
    <3> QED
      BY <1>2, <2>1, <3>2, RegStopped
  <2>4. RegOf(c)'
    BY <1>1, <2>3 DEF RegOf
  <2> QED
    BY <1>1, <1>2, <2>1, <2>2, <2>4, RegStep
<1> QED
  BY <1>1, <1>5, <1>6, <1>7

\* A running session waits for nothing.
LEMMA RegEvent ==
    ASSUME ConstantsOK, SessInv, RegInv, NEW c \in Conn, EventCallback(c)
    PROVE  RegInv'
<1>1. /\ Types /\ "auth" \in Context /\ "core" \in Context /\ session[c] = "running"
      /\ Stop(c, pipe, TRUE) /\ pipe \in OwnPipes
      /\ UNCHANGED <<up, answers, interrupted>>
  BY DEF EventCallback, Watched, SessInv, RegInv, Context
<1>2. up[At[c]]
  BY <1>1 DEF SessInv, Dead, Here, ConstantsOK
<1>3. /\ pipe' \in OwnPipes
      /\ \A d \in Conn : \A j \in Context : Asked(pipe', j, d) = Asked(pipe, j, d)
      /\ session'[c] = "stopped" /\ c \notin registered'
      /\ \A d \in Conn \ {c} : /\ session'[d] = session[d]
                               /\ d \in registered' <=> d \in registered
  BY <1>1, OwnStop
<1>4. ASSUME NEW d \in Conn, d # c PROVE Still(d)
  BY <1>1, <1>3, <1>4 DEF Still, Lists, Told
<1>5. ASSUME c \notin interrupted PROVE RegOf(c)'
  <2>1. Lists("auth", c) + Lists("core", c) = 0
    BY <1>1, <1>2, <1>5 DEF RegInv, RegOf, Waits
  <2>2. Lists("auth", c) = 0 /\ Lists("core", c) = 0
    BY <2>1, ListsType DEF Lists
  <2>3. Lists("auth", c)' = 0 /\ Lists("core", c)' = 0
    BY <1>1, <1>3, <2>2 DEF Lists, Told
  <2> QED
    BY <1>3, <2>3, RegStopped
<1>6. RegOf(c)'
  BY <1>1, <1>5 DEF RegOf
<1> QED
  BY <1>1, <1>3, <1>4, <1>6, RegStep DEF RegInv

\* Redis: what was asked is told; nobody waits for more than before.
LEMMA RegExecVerify ==
    ASSUME ConstantsOK, RegInv, NEW n \in Node, ExecVerify(n)
    PROVE  RegInv'
<1>0. PICK m : m = Head(pipe[n]["auth"])
  OBVIOUS
<1>1. /\ Executes(n, "auth", {"VERIFY"}) /\ "auth" \in Context /\ "core" \in Context
      /\ pipe \in OwnPipes /\ answers \in OwnAnswers
      /\ UNCHANGED <<session, registered, up, interrupted>>
  BY DEF ExecVerify, Executes, RegInv, Context, objectVars
<1>2. PICK ok \in BOOLEAN : Answers(n, "auth", <<[cmd |-> "VERIFY", conn |-> m.conn, ok |-> ok]>>)
  BY <1>0 DEF ExecVerify
<1>3. /\ pipe' \in OwnPipes /\ m \in MessageHere(n) /\ m.cmd = "VERIFY"
      /\ \A d \in Conn : \A j \in Context : Asked(pipe', j, d) = Asked(pipe, j, d)
  <2>1. /\ pipe' \in OwnPipes /\ m \in MessageHere(n) /\ m.cmd \in {"VERIFY"}
        /\ \A d \in Conn : \A j \in Context :
             m # Cmd(d, "LIST") => Asked(pipe', j, d) = Asked(pipe, j, d)
    BY <1>0, <1>1, OwnPop
  <2>2. \A d \in Conn : m # Cmd(d, "LIST")
    BY <2>1 DEF Cmd
  <2> QED
    BY <2>1, <2>2
<1>4. m.conn \in Conn /\ m.conn \in Here(n)
  BY <1>3 DEF MessageHere, Here
<1> DEFINE a == [cmd |-> "VERIFY", conn |-> m.conn, ok |-> ok]
<1>5. a \in ResultHere(n) /\ a.cmd = "VERIFY" /\ Answers(n, "auth", <<a>>)
  BY <1>2, <1>4 DEF ResultHere, Result
<1> HIDE DEF a
<1>6. /\ answers' \in OwnAnswers
      /\ \A d \in Conn : \A j \in Context : Told(answers', j, d) = Told(answers, j, d)
  BY <1>1, <1>5, OwnAnswer
<1>7. ASSUME NEW d \in Conn PROVE Still(d)
  BY <1>1, <1>3, <1>6 DEF Still, Lists
<1> QED
  BY <1>1, <1>3, <1>6, <1>7, RegStep

\* Records are written and kicks sent on; neither concerns what a login waits for.
LEMMA RegExecOther ==
    ASSUME ConstantsOK, RegInv, NEW n \in Node, NEW k \in Context,
           ExecRecord(n, k) \/ (k = "auth" /\ ExecKick(n))
    PROVE  RegInv'
<1>0. PICK m : m = Head(pipe[n][k])
  OBVIOUS
<1>1. /\ Executes(n, k, {"ADD", "DEL"}) \/ Executes(n, k, {"KICK"})
      /\ pipe \in OwnPipes /\ answers' = answers
  BY DEF ExecRecord, ExecKick, RegInv
<1>2. UNCHANGED <<session, registered, up, interrupted>>
  BY <1>1 DEF Executes, objectVars
<1>3. ASSUME NEW X, X \in {{"ADD", "DEL"}, {"KICK"}}, Executes(n, k, X)
      PROVE  /\ pipe' \in OwnPipes
             /\ \A d \in Conn : \A j \in Context : Asked(pipe', j, d) = Asked(pipe, j, d)
  <2>1. /\ pipe' \in OwnPipes /\ m.cmd \in X
        /\ \A d \in Conn : \A j \in Context :
             m # Cmd(d, "LIST") => Asked(pipe', j, d) = Asked(pipe, j, d)
    BY <1>0, <1>1, <1>3, OwnPop
  <2>2. \A d \in Conn : m # Cmd(d, "LIST")
    BY <1>3, <2>1 DEF Cmd
  <2> QED
    BY <2>1, <2>2
<1> QED
  BY <1>1, <1>2, <1>3, RegOutside

LEMMA RegExecList ==
    ASSUME ConstantsOK, SessInv, RegInv, NEW n \in Node, NEW k \in Context, ExecList(n, k)
    PROVE  RegInv'
<1>0. PICK m, c : m = Head(pipe[n][k]) /\ c = m.conn
  OBVIOUS
<1>1. /\ Types /\ Executes(n, k, {"LIST"}) /\ Context = {"auth", "core"}
      /\ pipe \in OwnPipes /\ answers \in OwnAnswers
      /\ Answers(n, k, <<[cmd |-> "LIST", conn |-> c, recs |-> rec[k]]>>)
      /\ UNCHANGED <<session, registered, up, interrupted>>
  BY <1>0 DEF ExecList, Executes, SessInv, RegInv, Context, objectVars
<1>2. /\ pipe' \in OwnPipes /\ m \in MessageHere(n) /\ m.cmd = "LIST"
      /\ \A d \in Conn : \A j \in Context :
           m # Cmd(d, "LIST") \/ j # k => Asked(pipe', j, d) = Asked(pipe, j, d)
      /\ Asked(pipe, k, c) # 0 /\ (Asked(pipe, k, c) = 1 => Asked(pipe', k, c) = 0)
  <2>1. /\ pipe' \in OwnPipes /\ m \in MessageHere(n) /\ m.cmd \in {"LIST"}
        /\ \A d \in Conn : \A j \in Context :
             m # Cmd(d, "LIST") \/ j # k => Asked(pipe', j, d) = Asked(pipe, j, d)
        /\ m.cmd = "LIST" => /\ Asked(pipe, k, m.conn) # 0
                             /\ Asked(pipe, k, m.conn) = 1 => Asked(pipe', k, m.conn) = 0
    BY <1>0, <1>1, OwnPop
  <2> QED
    BY <1>0, <2>1
<1>3. c \in Conn /\ At[c] = n /\ \A d \in Conn : d # c => m # Cmd(d, "LIST")
  BY <1>0, <1>2 DEF MessageHere, Here, Cmd
<1> DEFINE a == [cmd |-> "LIST", conn |-> c, recs |-> rec[k]]
<1>4. a \in ResultHere(n) /\ a.cmd = "LIST" /\ a.conn = c /\ Answers(n, k, <<a>>)
  <2>1. rec[k] \in [Conn -> Nat] /\ c \in Here(n)
    BY <1>1, <1>3 DEF Types, Here
  <2> QED
    BY <1>1, <1>3, <2>1 DEF ResultHere, Result
<1> HIDE DEF a
<1>5. /\ answers' \in OwnAnswers
      /\ \A d \in Conn : \A j \in Context :
           d # c \/ j # k => Told(answers', j, d) = Told(answers, j, d)
      /\ up[n] /\ Told(answers, k, c) = 0 => Told(answers', k, c) = 1
  BY <1>1, <1>4, OwnAnswer
<1>6. up[n] /\ c \notin interrupted => \A j \in Context : Lists(j, c)' = Lists(j, c)
  <2> SUFFICES ASSUME up[n], c \notin interrupted, NEW j \in Context PROVE Lists(j, c)' = Lists(j, c)
    OBVIOUS
  <2>1. CASE j # k
    BY <1>2, <1>3, <1>5, <2>1 DEF Lists
  <2>2. CASE j = k
    <3>1. Lists("auth", c) + Lists("core", c) \in {0, 1}
      BY <1>3 DEF RegInv, RegOf, Waits
    <3>2. Asked(pipe, k, c) = 1 /\ Told(answers, k, c) = 0
      <4> DEFINE pa == Asked(pipe, "auth", c)  pc == Asked(pipe, "core", c)
                 ta == Told(answers, "auth", c)  tc == Told(answers, "core", c)
      <4>1. /\ pa \in {0, 1, 2} /\ pc \in {0, 1, 2} /\ ta \in {0, 1, 2} /\ tc \in {0, 1, 2}
        BY ListsType
      <4>2. (pa + ta) + (pc + tc) \in {0, 1} /\ (k = "auth" => pa # 0) /\ (k = "core" => pc # 0)
        BY <1>2, <3>1 DEF Lists
      <4> HIDE DEF pa, pc, ta, tc
      <4>3. (k = "auth" => pa = 1 /\ ta = 0) /\ (k = "core" => pc = 1 /\ tc = 0)
        BY <4>1, <4>2
      <4> QED
        BY <1>1, <4>3 DEF pa, pc, ta, tc
    <3>3. Asked(pipe', k, c) = 0 /\ Told(answers', k, c) = 1
      BY <1>2, <1>5, <3>2
    <3> QED
      BY <2>2, <3>2, <3>3 DEF Lists
  <2> QED
    BY <2>1, <2>2
<1>7. ASSUME NEW d \in Conn, d # c PROVE Still(d)
  BY <1>1, <1>2, <1>3, <1>5, <1>7 DEF Still, Lists
<1>8. Still(c) \/ RegOf(c)'
  <2>1. CASE c \in interrupted
    BY <1>1, <2>1 DEF RegOf
  <2>2. CASE c \notin interrupted
    BY <1>1, <1>3, <1>6, <2>2 DEF Still
  <2> QED
    BY <2>1, <2>2
<1> QED
  BY <1>1, <1>2, <1>5, <1>7, <1>8, RegStep

\* A process that ends takes its registrations with it.
LEMMA RegDie ==
    ASSUME ConstantsOK, SessInv, RegInv, NEW n \in Node, Die(n)
    PROVE  RegInv'
<1>1. /\ \A c \in Conn : At[c] \in Node
      /\ up' = [up EXCEPT ![n] = FALSE]
      /\ session' = [c \in Conn |-> IF c \in Here(n) THEN "none" ELSE session[c]]
      /\ registered' = registered \ Here(n)
      /\ answers' = [answers EXCEPT ![n] = [k \in Context |-> <<>>]]
      /\ UNCHANGED <<pipe, interrupted>>
      /\ up \in [Node -> BOOLEAN] /\ answers \in OwnAnswers
  BY DEF Die, Here, SessInv, RegInv, ConstantsOK, Types
<1>2. /\ \A i \in Node : i # n => up'[i] = up[i] /\ answers'[i] = answers[i]
      /\ ~up'[n] /\ answers'[n] = [k \in Context |-> <<>>]
  BY <1>1 DEF OwnAnswers
<1>3. answers' \in OwnAnswers
  <2>1. [k \in Context |-> <<>>] \in [Context -> Seq(Result)]
        /\ \A i \in Node : <<>> \in Seq(ResultHere(i))
    OBVIOUS
  <2>2. answers' \in [Node -> [Context -> Seq(Result)]]
    BY <1>1, <2>1 DEF OwnAnswers
  <2>3. \A i \in Node : \A k \in Context : answers'[i][k] \in Seq(ResultHere(i))
    BY <1>1, <1>2, <2>1 DEF OwnAnswers
  <2> QED
    BY <2>2, <2>3 DEF OwnAnswers
<1>4. ASSUME NEW d \in Conn PROVE RegOf(d)'
  <2>1. CASE At[d] = n
    <3>1. d \notin registered' /\ ~up'[At[d]]
      BY <1>1, <1>2, <2>1 DEF Here
    <3> QED
      BY <3>1 DEF RegOf
  <2>2. CASE At[d] # n
    <3>1. d \notin Here(n) /\ At[d] \in Node
      BY <1>1, <2>2 DEF Here
    <3>2. /\ up'[At[d]] = up[At[d]] /\ session'[d] = session[d]
          /\ d \in registered' <=> d \in registered
          /\ d \in interrupted' <=> d \in interrupted
      BY <1>1, <1>2, <2>2, <3>1
    <3>3. Lists("auth", d)' = Lists("auth", d) /\ Lists("core", d)' = Lists("core", d)
      BY <1>1, <1>2, <2>2, <3>1 DEF Lists, Asked, Told
    <3>4. RegOf(d)
      BY DEF RegInv
    <3> QED
      BY <3>2, <3>3, <3>4 DEF RegOf, Waits
  <2> QED
    BY <2>1, <2>2
<1> QED
  BY <1>1, <1>3, <1>4 DEF RegInv

LEMMA RegInvInit == ASSUME ConstantsOK, Init PROVE RegInv
<1>1. \A S : Count(<<>>, S) = 0
  BY DEF Count
<1>2. /\ Context = {"auth", "core"} /\ \A c \in Conn : At[c] \in Node
      /\ \A T : <<>> \in Seq(T)
      /\ [k \in Context |-> <<>>] \in [Context -> Seq(Message)]
      /\ [k \in Context |-> <<>>] \in [Context -> Seq(Result)]
  BY DEF Context, ConstantsOK
<1>3. pipe \in OwnPipes
  BY <1>2 DEF Init, OwnPipes
<1>4. answers \in OwnAnswers
  BY <1>2 DEF Init, OwnAnswers
<1>5. ASSUME NEW c \in Conn PROVE RegOf(c)
  <2>1. Lists("auth", c) = 0 /\ Lists("core", c) = 0
    <3>1. /\ Asked(pipe, "auth", c) = 0 /\ Told(answers, "auth", c) = 0
          /\ Asked(pipe, "core", c) = 0 /\ Told(answers, "core", c) = 0
      BY <1>1, <1>2 DEF Init, Asked, Told
    <3> QED
      BY <3>1 DEF Lists
  <2> QED
    BY <2>1 DEF Init, RegOf, Waits
<1> QED
  BY <1>3, <1>4, <1>5 DEF RegInv

LEMMA RegInvStep ==
    ASSUME ConstantsOK, SessInv, RegInv, [Next]_vars
    PROVE  RegInv'
<1>0. ASSUME UNCHANGED <<session, registered, up, pipe, answers, interrupted>> PROVE RegInv'
  BY <1>0, RegOutside DEF RegInv
<1>1. ASSUME NEW c \in Conn, BevReadCallback(c) PROVE RegInv'
  BY <1>1, RegListener
<1>2. ASSUME NEW c \in Conn, EventCallback(c) PROVE RegInv'
  BY <1>2, RegEvent
<1>3. ASSUME NEW c \in Conn,
             \/ Accept(c) \/ BevEventCallback(c) \/ HandleKick(c) \/ PeerCloses(c)
             \/ \E k \in Context : Expire(k, c)
      PROVE  RegInv'
  BY <1>0, <1>3 DEF Accept, BevEventCallback, HandleKick, PeerCloses, Expire, objectVars, wireVars
<1>4. ASSUME NEW n \in Node, Loop(n) PROVE RegInv'
  BY <1>4, RegVerify, RegAddLogin, RegRegister, RegBroadcasts, RegRequest DEF Loop
<1>5. ASSUME NEW n \in Node, Server(n) PROVE RegInv'
  <2>1. "auth" \in Context
    BY DEF Context
  <2> QED
    BY <1>5, <2>1, RegExecVerify, RegExecOther, RegExecList DEF Server
<1>6. ASSUME NEW n \in Node, Crash(n) \/ DieOfUndefined(n) PROVE RegInv'
  BY <1>6, RegDie DEF Crash, DieOfUndefined
<1>7. ASSUME NEW n \in Node, NEW k \in Context, LoseBroadcast(n, k) PROVE RegInv'
  BY <1>0, <1>7 DEF LoseBroadcast, objectVars
<1>8. ASSUME UNCHANGED vars PROVE RegInv'
  BY <1>0, <1>8 DEF vars, objectVars, wireVars
<1> QED
  BY <1>1, <1>2, <1>3, <1>4, <1>5, <1>6, <1>7, <1>8 DEF Next

\* A login waits for one listing at a time, first of the login records and then of
\* the registrations, and its session waits with it: add_login_record,
\* AuthLoginCallback and the answers that come back to them, whatever happens in
\* between but a kick that finds it waiting.
THEOREM RegInvAlways == Spec => []RegInv
<1>1. Init => RegInv
  BY ConstantsOK, RegInvInit
<1>2. SessInv /\ RegInv /\ [Next]_vars => RegInv'
  BY ConstantsOK, RegInvStep
<1> QED
  BY <1>1, <1>2, SessInvAlways, PTL DEF Spec

\* CASTER keeps pointers only to sessions that have not stopped: stop() withdraws
\* whatever has been registered (server_ntrip, client_ntrip, withdraw_channel),
\* unless it is a kick that stops a login before it is answered.
THEOREM RegisteredAreOnlineAlways == Spec => []RegisteredAreOnline
<1>1. ASSUME SessInv, RegInv PROVE RegisteredAreOnline
  <2> SUFFICES ASSUME NEW c \in registered \ interrupted PROVE c \in Online
    BY DEF RegisteredAreOnline
  <2>1. c \in Conn
    BY <1>1 DEF SessInv, Types
  <2>2. session[c] \in {"starting", "running"}
    BY <1>1, <2>1 DEF RegInv, RegOf, Waits
  <2> QED
    BY <2>1, <2>2 DEF Online
<1> QED
  BY <1>1, SessInvAlways, RegInvAlways, PTL

\* Nor does an answer of Redis find its session freed: the pointer given with
\* add_login_record and register_channel is still good, with the same exception.
THEOREM CallbackObjectsLiveAlways == Spec => []CallbackObjectsLive
<1>1. ASSUME RegInv PROVE CallbackObjectsLive
  <2> SUFFICES ASSUME NEW k \in Context, NEW c \in Listing(k) \ interrupted, up[At[c]]
               PROVE  session[c] # "none"
    BY DEF CallbackObjectsLive
  <2>1. c \in Conn /\ Context = {"auth", "core"}
    BY DEF Listing, Context
  <2>2. Waits(c)
    BY <1>1, <2>1 DEF RegInv, RegOf
  <2>3. Asked(pipe, k, c) # 0 \/ Told(answers, k, c) # 0
    BY ConstantsOK, <1>1, <2>1, ListingCount
  <2>4. Lists("auth", c) + Lists("core", c) # 0
    BY <2>1, <2>3, ListsType DEF Lists
  <2> QED
    BY <2>2, <2>4 DEF Waits
<1> QED
  BY <1>1, RegInvAlways, PTL

-----------------------------------------------------------------------------
(* The limit of an account while no two logins are dated the same second,  *)
(* no broadcast is lost and no record expires that its node still holds.   *)

Strict == ~SameSecond /\ MaxLost = 0 /\ MaxStall = 0

\* What AUTH has sent to Redis from a node, and been told there.
Line(n) == Range(pipe[n]["auth"])
Heard(n) == Range(answers[n]["auth"])
Add(c, t) == [cmd |-> "ADD", conn |-> c, stamp |-> t]
Adding(c) == \E t \in Nat : Add(c, t) \in Line(At[c])
\* Nothing was ever said of a connection before its session is created.
Fresh(c) == session[c] = "none" /\ (c \in bev \/ peer[c] = "new")
Unnamed(s, c) == \A m \in s : m.conn = c => m.cmd \notin {"ADD", "LIST", "DEL"}
\* The records are listed after the own one has been added.
Sorted(q, c) == \A i, j \in DOMAIN q :
    q[i].cmd = "ADD" /\ q[i].conn = c /\ q[j] = Cmd(c, "LIST") => i < j

\* The record of a connection that is online is there, or still to be added.
LineOf(c) ==
    /\ \A n \in Node : n # At[c] \/ Fresh(c) => Unnamed(Line(n), c)
    /\ Sorted(pipe[At[c]]["auth"], c)
    /\ Adding(c) => Cmd(c, "LIST") \in Line(At[c])
    /\ c \in Online => /\ Cmd(c, "DEL") \notin Line(At[c])
                       /\ Adding(c) \/ rec["auth"][c] # 0

\* No two connections have the same time of login, wherever it is found.
Has(c, t) == \/ t # 0 /\ rec["auth"][c] = t
             \/ \E n \in Node : Add(c, t) \in Line(n)
             \/ t # 0 /\ \E n \in Node : \E a \in Heard(n) : a.cmd = "LIST" /\ a.recs[c] = t
Dated ==
    /\ clock # 0
    /\ \A c, d \in Conn : \A t \in Nat :
         Has(c, t) => t # 0 /\ t < clock /\ (Has(d, t) => c = d)

\* Of more connections than are allowed, all of which have had the records listed,
\* one is about to be kicked, or one is about to learn of all of them.
Listed(c) == c \in Online /\ Cmd(c, "LIST") \notin Line(At[c])
Doomed(c) == (\E n \in Node : Cmd(c, "KICK") \in Line(n)) \/ c \in Range(bcast[At[c]]["auth"])
Knows(c, O) == \E a \in Heard(At[c]) : a.cmd = "LIST" /\ a.conn = c /\ \A d \in O : a.recs[d] # 0
Crowd(O) == Cardinality(O) > Limit /\ \A c \in O : Listed(c)
Crowds == \A O \in SUBSET Conn : Crowd(O) => \E c \in O : Doomed(c) \/ Knows(c, O)

LimInv ==
    /\ bcast \in Bcasts /\ lost = 0 /\ stalls = 0
    /\ \A c \in Conn : LineOf(c)
    /\ Dated /\ Crowds

\* The elements of a sequence that gains some, and of one that loses its first.
LEMMA RangeConcat ==
    ASSUME NEW T, NEW q \in Seq(T), NEW s \in Seq(T)
    PROVE  Range(q \o s) = Range(q) \cup Range(s)
<1> DEFINE r == q \o s  n == Len(q)
<1>1. /\ n \in Nat /\ Len(s) \in Nat /\ DOMAIN q = 1 .. n /\ DOMAIN r = 1 .. n + Len(s)
      /\ DOMAIN s = 1 .. Len(s)
      /\ \A i \in DOMAIN q : i \in DOMAIN r /\ r[i] = q[i]
      /\ \A i \in DOMAIN r : ~(i <= n) => i - n \in DOMAIN s /\ r[i] = s[i - n]
      /\ \A i \in DOMAIN s : i + n \in DOMAIN r /\ r[i + n] = s[i]
  OBVIOUS
<1> HIDE DEF r, n
<1>2. ASSUME NEW i \in DOMAIN r PROVE r[i] \in Range(q) \cup Range(s)
  <2>1. CASE i <= n
    BY <1>1, <2>1 DEF Range
  <2>2. CASE ~(i <= n)
    BY <1>1, <2>2 DEF Range
  <2> QED
    BY <2>1, <2>2
<1>3. \A i \in DOMAIN q : q[i] \in Range(r)
  BY <1>1 DEF Range
<1>4. \A i \in DOMAIN s : s[i] \in Range(r)
  BY <1>1 DEF Range
<1> QED
  BY <1>2, <1>3, <1>4 DEF Range, r

LEMMA RangeAppend ==
    ASSUME NEW T, NEW q \in Seq(T), NEW x \in T
    PROVE  Range(Append(q, x)) = Range(q) \cup {x}
<1> DEFINE s == <<x>>
<1>1. Append(q, x) = q \o s /\ s \in Seq(T) /\ Range(s) = {x}
  BY DEF Range
<1> HIDE DEF s
<1>2. Range(q \o s) = Range(q) \cup Range(s)
  BY <1>1, RangeConcat
<1> QED
  BY <1>1, <1>2

LEMMA RangeTail ==
    ASSUME NEW T, NEW q \in Seq(T), q # <<>>
    PROVE  Range(q) = Range(Tail(q)) \cup {Head(q)}
<1> DEFINE t == Tail(q)
<1>1. /\ Len(q) \in Nat /\ Len(q) # 0 /\ DOMAIN q = 1 .. Len(q) /\ DOMAIN t = 1 .. Len(q) - 1
      /\ \A i \in DOMAIN t : t[i] = q[i + 1]
      /\ Head(q) = q[1]
  OBVIOUS
<1> HIDE DEF t
<1>2. ASSUME NEW i \in DOMAIN q PROVE q[i] \in Range(t) \cup {Head(q)}
  <2>1. i = 1 \/ (i - 1 \in DOMAIN t /\ t[i - 1] = q[i])
    BY <1>1
  <2> QED
    BY <1>1, <2>1 DEF Range
<1>3. 1 \in DOMAIN q /\ \A i \in DOMAIN t : i + 1 \in DOMAIN q
  BY <1>1
<1> QED
  BY <1>1, <1>2, <1>3 DEF Range, t

\* The order of a record and its listing.
LEMMA SortedConcat ==
    ASSUME NEW c, NEW q \in Seq(Message), NEW s \in Seq(Message), Sorted(q, c),
           \A m \in Range(s) : m.conn = c => m.cmd # "ADD"
    PROVE  Sorted(q \o s, c)
<1> DEFINE r == q \o s  n == Len(q)
<1>1. /\ n \in Nat /\ Len(s) \in Nat /\ DOMAIN q = 1 .. n /\ DOMAIN r = 1 .. n + Len(s)
      /\ DOMAIN s = 1 .. Len(s)
      /\ \A i \in DOMAIN q : r[i] = q[i]
      /\ \A i \in DOMAIN r : i \notin DOMAIN q => i - n \in DOMAIN s /\ r[i] = s[i - n]
  OBVIOUS
<1> HIDE DEF r, n
<1>2. SUFFICES ASSUME NEW i \in DOMAIN r, NEW j \in DOMAIN r,
                      r[i].cmd = "ADD", r[i].conn = c, r[j] = Cmd(c, "LIST")
               PROVE  i < j
  BY DEF Sorted, r
<1>3. i \in DOMAIN q
  <2>1. ASSUME i \notin DOMAIN q PROVE FALSE
    <3>1. r[i] \in Range(s)
      BY <1>1, <2>1 DEF Range
    <3> QED
      BY <1>2, <3>1
  <2> QED
    BY <2>1
<1>4. CASE j \in DOMAIN q
  BY <1>1, <1>2, <1>3, <1>4 DEF Sorted
<1>5. CASE j \notin DOMAIN q
  BY <1>1, <1>3, <1>5
<1> QED
  BY <1>4, <1>5

LEMMA SortedTail ==
    ASSUME NEW c, NEW q \in Seq(Message), q # <<>>, Sorted(q, c)
    PROVE  /\ Sorted(Tail(q), c)
           /\ Head(q) = Cmd(c, "LIST") =>
                \A m \in Range(q) : m.conn = c => m.cmd # "ADD"
<1> DEFINE t == Tail(q)
<1>1. /\ Len(q) \in Nat /\ Len(q) # 0 /\ DOMAIN q = 1 .. Len(q) /\ DOMAIN t = 1 .. Len(q) - 1
      /\ \A i \in DOMAIN t : t[i] = q[i + 1] /\ i + 1 \in DOMAIN q
      /\ Head(q) = q[1] /\ 1 \in DOMAIN q
  OBVIOUS
<1> HIDE DEF t
<1>2. ASSUME NEW i \in DOMAIN t, NEW j \in DOMAIN t,
             t[i].cmd = "ADD", t[i].conn = c, t[j] = Cmd(c, "LIST")
      PROVE  i < j
  <2>1. i + 1 < j + 1
    BY <1>1, <1>2 DEF Sorted
  <2> QED
    BY <1>1, <2>1
<1>3. ASSUME Head(q) = Cmd(c, "LIST"), NEW i \in DOMAIN q, q[i].conn = c, q[i].cmd = "ADD"
      PROVE  FALSE
  <2>1. i < 1
    BY <1>1, <1>3 DEF Sorted
  <2> QED
    BY <1>1, <2>1
<1> QED
  BY <1>2, <1>3 DEF Sorted, Range, t

\* The first record of a connection, and its listing.
LEMMA SortedNew ==
    ASSUME NEW c \in Conn, NEW t \in Nat, NEW q \in Seq(Message), Unnamed(Range(q), c)
    PROVE  Sorted(q \o <<Add(c, t), Cmd(c, "LIST")>>, c)
<1> DEFINE x == Add(c, t)  y == Cmd(c, "LIST")  s == <<x, y>>  r == q \o s  n == Len(q)
<1>1. x \in Message /\ y \in Message /\ x # y /\ x.cmd = "ADD" /\ y.cmd = "LIST" /\ y.conn = c
  BY DEF Add, Cmd, Message
<1> HIDE DEF x, y
<1>2. /\ n \in Nat /\ DOMAIN q = 1 .. n /\ DOMAIN r = 1 .. n + 2
      /\ \A i \in DOMAIN q : r[i] = q[i]
      /\ r[n + 1] = x /\ r[n + 2] = y
  BY <1>1
<1>3. ASSUME NEW i \in DOMAIN q PROVE /\ ~(q[i].cmd = "ADD" /\ q[i].conn = c)
                                      /\ q[i] # y
  <2>1. q[i] \in Range(q)
    BY DEF Range
  <2> QED
    BY <1>1, <2>1 DEF Unnamed
<1> HIDE DEF r, s, n
<1>4. \A i \in DOMAIN r : r[i].cmd = "ADD" /\ r[i].conn = c => i = n + 1
  BY <1>1, <1>2, <1>3
<1>5. \A j \in DOMAIN r : r[j] = y => j = n + 2
  BY <1>1, <1>2, <1>3
<1> QED
  BY <1>2, <1>4, <1>5 DEF Sorted, r, s, x, y

-----------------------------------------------------------------------------
(* What steps leave alone.                                                 *)

AllPipes == [Node -> [Context -> Seq(Message)]]
\* Records are neither added nor listed, and deleted only for connections of D.
Kept(p, r, D) == \A n \in Node :
    /\ \A c \in Conn : Sorted(p[n]["auth"], c) => Sorted(r[n]["auth"], c)
    /\ \A m \in Message : m.cmd \in {"ADD", "LIST"} =>
         (m \in Range(r[n]["auth"]) <=> m \in Range(p[n]["auth"]))
    /\ \A m \in Range(r[n]["auth"]) : m.cmd = "DEL" =>
         m \in Range(p[n]["auth"]) \/ (m.conn \in D /\ At[m.conn] = n)
Grows(p, r) == \A n \in Node : Range(p[n]["auth"]) \subseteq Range(r[n]["auth"])

LEMMA KeptSame == ASSUME NEW p, NEW D PROVE Kept(p, p, D) /\ Grows(p, p)
BY DEF Kept, Grows

LEMMA KeptTrans ==
    ASSUME NEW p, NEW q, NEW r, NEW D, Kept(p, q, D), Kept(q, r, D), Grows(p, q), Grows(q, r)
    PROVE  Kept(p, r, D) /\ Grows(p, r)
<1>1. Grows(p, r)
  BY DEF Grows
<1>2. ASSUME NEW n \in Node
      PROVE  /\ \A c \in Conn : Sorted(p[n]["auth"], c) => Sorted(r[n]["auth"], c)
             /\ \A m \in Message : m.cmd \in {"ADD", "LIST"} =>
                  (m \in Range(r[n]["auth"]) <=> m \in Range(p[n]["auth"]))
             /\ \A m \in Range(r[n]["auth"]) : m.cmd = "DEL" =>
                  m \in Range(p[n]["auth"]) \/ (m.conn \in D /\ At[m.conn] = n)
  BY DEF Kept
<1> QED
  BY <1>1, <1>2 DEF Kept

\* What a command that is added changes.
LEMMA WithLines ==
    ASSUME NEW p \in AllPipes, NEW n \in Node, NEW k \in Context, NEW s \in Seq(Message)
    PROVE  LET w == With(p, n, k, s) IN
           /\ w \in AllPipes
           /\ \A m \in Node : m # n \/ k # "auth" => w[m]["auth"] = p[m]["auth"]
           /\ k = "auth" => /\ w[n]["auth"] = p[n]["auth"] \o s
                            /\ Range(w[n]["auth"]) = Range(p[n]["auth"]) \cup Range(s)
<1> DEFINE w == With(p, n, k, s)
<1>1. /\ p[n][k] \in Seq(Message) /\ p[n] \in [Context -> Seq(Message)] /\ "auth" \in Context
      /\ p[n]["auth"] \in Seq(Message)
  BY DEF AllPipes, Context
<1>2. w = [p EXCEPT ![n] = [p[n] EXCEPT ![k] = p[n][k] \o s]]
  BY DEF With, AllPipes
<1>3. p[n][k] \o s \in Seq(Message)
  BY <1>1
<1>4. w \in AllPipes
  BY <1>1, <1>2, <1>3 DEF AllPipes
<1>5. /\ \A m \in Node : m # n \/ k # "auth" => w[m]["auth"] = p[m]["auth"]
      /\ k = "auth" => w[n]["auth"] = p[n]["auth"] \o s
  BY <1>1, <1>2 DEF AllPipes
<1>6. Range(p[n]["auth"] \o s) = Range(p[n]["auth"]) \cup Range(s)
  BY <1>1, RangeConcat
<1> HIDE DEF w
<1> QED
  BY <1>4, <1>5, <1>6 DEF w

LEMMA WithKept ==
    ASSUME NEW p \in AllPipes, NEW n \in Node, NEW k \in Context, NEW s \in Seq(Message), NEW D,
           k = "auth" => \A m \in Range(s) : /\ m.cmd \in {"VERIFY", "KICK", "DEL"}
                                             /\ m.cmd = "DEL" => m.conn \in D /\ At[m.conn] = n
    PROVE  LET w == With(p, n, k, s) IN w \in AllPipes /\ Kept(p, w, D) /\ Grows(p, w)
<1> DEFINE w == With(p, n, k, s)
<1>1. /\ w \in AllPipes
      /\ \A m \in Node : m # n \/ k # "auth" => w[m]["auth"] = p[m]["auth"]
      /\ k = "auth" => /\ w[n]["auth"] = p[n]["auth"] \o s
                       /\ Range(w[n]["auth"]) = Range(p[n]["auth"]) \cup Range(s)
  BY WithLines
<1>2. p[n]["auth"] \in Seq(Message)
  BY DEF AllPipes, Context
<1> HIDE DEF w
<1>3. ASSUME k = "auth", NEW c \in Conn, Sorted(p[n]["auth"], c) PROVE Sorted(w[n]["auth"], c)
  <2>1. \A m \in Range(s) : m.conn = c => m.cmd # "ADD"
    BY <1>3
  <2>2. Sorted(p[n]["auth"] \o s, c)
    BY <1>2, <1>3, <2>1, SortedConcat
  <2> QED
    BY <1>1, <1>3, <2>2
<1>4. ASSUME NEW i \in Node
      PROVE  /\ \A c \in Conn : Sorted(p[i]["auth"], c) => Sorted(w[i]["auth"], c)
             /\ \A m \in Message : m.cmd \in {"ADD", "LIST"} =>
                  (m \in Range(w[i]["auth"]) <=> m \in Range(p[i]["auth"]))
             /\ \A m \in Range(w[i]["auth"]) : m.cmd = "DEL" =>
                  m \in Range(p[i]["auth"]) \/ (m.conn \in D /\ At[m.conn] = i)
             /\ Range(p[i]["auth"]) \subseteq Range(w[i]["auth"])
  <2>1. CASE i # n \/ k # "auth"
    BY <1>1, <2>1
  <2>2. CASE i = n /\ k = "auth"
    BY <1>1, <1>3, <2>2
  <2> QED
    BY <2>1, <2>2
<1>5. Kept(p, w, D) /\ Grows(p, w)
  BY <1>4 DEF Kept, Grows
<1> QED
  BY <1>1, <1>5 DEF w

LEMMA StopKept ==
    ASSUME ConstantsOK, Types, NEW c \in Conn, session[c] # "none", c \in bev => peer[c] # "new",
           NEW p \in AllPipes, NEW b \in BOOLEAN, Stop(c, p, b),
           UNCHANGED <<bev, peer>>
    PROVE  /\ pipe' \in AllPipes /\ Kept(p, pipe', {c}) /\ Grows(p, pipe')
           /\ session'[c] = "stopped"
           /\ \A d \in Conn : /\ (d \in Online)' => d \in Online
                              /\ Fresh(d)' => Fresh(d)
<1>1. CASE session[c] = "stopped"
  <2>1. pipe' = p /\ UNCHANGED session
    BY <1>1 DEF Stop, objectVars
  <2>2. Kept(p, p, {c}) /\ Grows(p, p)
    BY KeptSame
  <2> QED
    BY <1>1, <2>1, <2>2 DEF Online, Fresh
<1>2. CASE session[c] # "stopped"
  <2> DEFINE q == With(p, At[c], "auth", add_logout_record(c))
             r == With(q, At[c], "core", withdraw_channel(c))
  <2>1. /\ At[c] \in Node /\ "auth" \in Context /\ "core" \in Context /\ "core" # "auth"
        /\ add_logout_record(c) \in Seq(Message) /\ withdraw_channel(c) \in Seq(Message)
        /\ \A m \in Range(add_logout_record(c)) : m.cmd = "DEL" /\ m.conn = c
    <3>1. Cmd(c, "DEL") \in Message /\ Cmd(c, "DEL").cmd = "DEL" /\ Cmd(c, "DEL").conn = c
      BY DEF Cmd, Message
    <3> QED
      BY <3>1 DEF ConstantsOK, Context, add_logout_record, withdraw_channel, Range
  <2>2. q \in AllPipes /\ Kept(p, q, {c}) /\ Grows(p, q)
    BY <2>1, WithKept
  <2> HIDE DEF q
  <2>3. r \in AllPipes /\ Kept(q, r, {c}) /\ Grows(q, r)
    BY <2>1, <2>2, WithKept
  <2> HIDE DEF r
  <2>4. Kept(p, r, {c}) /\ Grows(p, r)
    BY <2>2, <2>3, KeptTrans
  <2>5. session' = [session EXCEPT ![c] = "stopped"] /\ pipe' \in {q, r}
    BY <1>2 DEF Stop, Stopping, q, r
  <2>6. session'[c] = "stopped" /\ \A d \in Conn : d # c => session'[d] = session[d]
    BY <2>5 DEF Types
  <2>7. ASSUME NEW d \in Conn PROVE /\ (d \in Online)' => d \in Online
                                    /\ Fresh(d)' => Fresh(d)
    BY <2>6 DEF Online, Fresh
  <2> QED
    BY <2>2, <2>3, <2>4, <2>5, <2>6, <2>7
<1> QED
  BY <1>1, <1>2

\* Types of what is under way, from SessInv.
LEMMA Wired ==
    ASSUME SessInv
    PROVE  /\ pipe \in AllPipes /\ answers \in [Node -> [Context -> Seq(Result)]]
           /\ \A n \in Node : /\ pipe[n]["auth"] \in Seq(Message) /\ answers[n]["auth"] \in Seq(Result)
                              /\ Line(n) \subseteq Message /\ Heard(n) \subseteq Result
           /\ \A q \in Seq(Message) : Range(q) \subseteq Message
           /\ \A q \in Seq(Result) : Range(q) \subseteq Result
           /\ "auth" \in Context /\ "core" \in Context /\ "core" # "auth"
           /\ rec \in [Context -> [Conn -> Nat]] /\ clock \in Nat
           /\ session \in [Conn -> {"none", "starting", "running", "stopped"}]
<1>1. pipe \in AllPipes /\ answers \in [Node -> [Context -> Seq(Result)]]
      /\ rec \in [Context -> [Conn -> Nat]] /\ clock \in Nat
      /\ session \in [Conn -> {"none", "starting", "running", "stopped"}]
      /\ "auth" \in Context /\ "core" \in Context /\ "core" # "auth"
  BY DEF SessInv, Types, Pipes, Results, AllPipes, Context
<1>2. /\ \A q \in Seq(Message) : Range(q) \subseteq Message
      /\ \A q \in Seq(Result) : Range(q) \subseteq Result
  BY DEF Range
<1> QED
  BY <1>1, <1>2 DEF AllPipes, Line, Heard

\* The same after a step.
LEMMA WiredNext ==
    (SessInv => /\ pipe \in AllPipes /\ answers \in [Node -> [Context -> Seq(Result)]]
                /\ \A n \in Node : Line(n) \subseteq Message /\ Heard(n) \subseteq Result
                /\ rec \in [Context -> [Conn -> Nat]] /\ clock \in Nat)'
<1>1. SessInv => /\ pipe \in AllPipes /\ answers \in [Node -> [Context -> Seq(Result)]]
                 /\ \A n \in Node : Line(n) \subseteq Message /\ Heard(n) \subseteq Result
                 /\ rec \in [Context -> [Conn -> Nat]] /\ clock \in Nat
  BY Wired
<1> QED
  BY <1>1, PTL

LEMMA Mine ==
    ASSUME NEW c \in Conn
    PROVE  /\ \A t \in Nat : /\ Add(c, t) \in Message /\ Add(c, t).cmd = "ADD"
                             /\ Add(c, t).conn = c /\ Add(c, t).stamp = t
           /\ Cmd(c, "LIST") \in Message /\ Cmd(c, "LIST").cmd = "LIST" /\ Cmd(c, "LIST").conn = c
           /\ Cmd(c, "DEL") \in Message /\ Cmd(c, "DEL").cmd = "DEL" /\ Cmd(c, "DEL").conn = c
           /\ Cmd(c, "KICK") \in Message /\ Cmd(c, "KICK").cmd = "KICK" /\ Cmd(c, "KICK").conn = c
           /\ \A m \in Message : m.cmd = "ADD" /\ m.conn = c => \E t \in Nat : m = Add(c, t)
           /\ \A m \in Message : m.cmd = "LIST" /\ m.conn = c => m = Cmd(c, "LIST")
           /\ \A m \in Message : m.cmd = "DEL" /\ m.conn = c => m = Cmd(c, "DEL")
           /\ \A m \in Message : m.cmd = "KICK" /\ m.conn = c => m = Cmd(c, "KICK")
<1>1. \A t \in Nat : /\ Add(c, t) \in Message /\ Add(c, t).cmd = "ADD"
                     /\ Add(c, t).conn = c /\ Add(c, t).stamp = t
  BY DEF Add, Message
<1>2. \A x \in {"LIST", "DEL", "KICK"} :
          Cmd(c, x) \in Message /\ Cmd(c, x).cmd = x /\ Cmd(c, x).conn = c
  BY DEF Cmd, Message
<1>3. \A m \in Message : m.cmd = "ADD" /\ m.conn = c => m.stamp \in Nat /\ m = Add(c, m.stamp)
  BY DEF Add, Message
<1>4. \A m \in Message : m.cmd # "ADD" /\ m.conn = c => m = Cmd(c, m.cmd)
  BY DEF Cmd, Message
<1> QED
  BY <1>1, <1>2, <1>3, <1>4

\* The commands that concern records, as they are.
LEMMA LineFrame ==
    ASSUME ConstantsOK, SessInv, SessInv', NEW D, Kept(pipe, pipe', D),
           \A c \in Conn : /\ LineOf(c)
                           /\ c \in D => ~(c \in Online)' /\ ~Fresh(c)'
                           /\ (c \in Online)' => /\ c \in Online
                                                 /\ rec'["auth"][c] = rec["auth"][c]
                           /\ Fresh(c)' => Fresh(c)
    PROVE  \A c \in Conn : LineOf(c)'
<1> SUFFICES ASSUME NEW c \in Conn PROVE LineOf(c)'
  OBVIOUS
<1>1. /\ At[c] \in Node
      /\ \A n \in Node : /\ \A m \in Message : m.cmd \in {"ADD", "LIST"} => (m \in Line(n)' <=> m \in Line(n))
                         /\ \A m \in Line(n)' : m.cmd = "DEL" =>
                              m \in Line(n) \/ (m.conn \in D /\ At[m.conn] = n)
      /\ Sorted(pipe'[At[c]]["auth"], c)
  BY DEF ConstantsOK, Kept, Line, LineOf
<1>2. \A n \in Node : Line(n)' \subseteq Message
  BY WiredNext
<1>3. ASSUME NEW n \in Node, n # At[c] \/ Fresh(c)' PROVE Unnamed(Line(n), c)'
  <2>1. Unnamed(Line(n), c)
    BY <1>3 DEF LineOf
  <2>2. ASSUME NEW m \in Line(n)', m.conn = c, m.cmd \in {"ADD", "LIST", "DEL"} PROVE FALSE
    <3>1. CASE m.cmd \in {"ADD", "LIST"}
      BY <1>1, <1>2, <2>1, <2>2, <3>1 DEF Unnamed
    <3>2. CASE m.cmd = "DEL"
      BY <1>1, <1>3, <2>1, <2>2, <3>2 DEF Unnamed
    <3> QED
      BY <2>2, <3>1, <3>2
  <2> QED
    BY <2>2 DEF Unnamed
<1>4. /\ Adding(c)' <=> Adding(c)
      /\ Cmd(c, "LIST") \in Line(At[c])' <=> Cmd(c, "LIST") \in Line(At[c])
      /\ (c \in Online)' => (Cmd(c, "DEL") \in Line(At[c])' => Cmd(c, "DEL") \in Line(At[c]))
  <2>1. \A t \in Nat : Add(c, t) \in Line(At[c])' <=> Add(c, t) \in Line(At[c])
    BY <1>1, Mine
  <2>2. Adding(c)' <=> Adding(c)
    BY <2>1 DEF Adding
  <2>3. Cmd(c, "LIST") \in Line(At[c])' <=> Cmd(c, "LIST") \in Line(At[c])
    BY <1>1, Mine
  <2>4. (c \in Online)' => (Cmd(c, "DEL") \in Line(At[c])' => Cmd(c, "DEL") \in Line(At[c]))
    <3> DEFINE x == Cmd(c, "DEL")
    <3>1. x.cmd = "DEL" /\ x.conn = c
      BY Mine
    <3> HIDE DEF x
    <3>2. x \in Line(At[c])' => x \in Line(At[c]) \/ c \in D
      BY <1>1, <3>1
    <3>3. (c \in Online)' => c \notin D
      OBVIOUS
    <3> QED
      BY <3>2, <3>3 DEF x
  <2> QED
    BY <2>2, <2>3, <2>4
<1> QED
  BY <1>1, <1>3, <1>4 DEF LineOf

\* Times of login come from nowhere but the clock.
LEMMA DatedFrame ==
    ASSUME Dated, clock' = clock, \A c \in Conn : \A t \in Nat : Has(c, t)' => Has(c, t)
    PROVE  Dated'
BY DEF Dated

LEMMA CrowdStep ==
    ASSUME Crowds,
           \A O \in SUBSET Conn : Crowd(O)' =>
               /\ Crowd(O) \/ \E c \in O : Doomed(c)' \/ Knows(c, O)'
               /\ \A c \in O : /\ Doomed(c) => Doomed(c)'
                               /\ Knows(c, O) => Knows(c, O)' \/ \E d \in O : Doomed(d)'
    PROVE  Crowds'
<1> SUFFICES ASSUME NEW O \in SUBSET Conn, Crowd(O)' PROVE \E c \in O : Doomed(c)' \/ Knows(c, O)'
  BY DEF Crowds
<1>1. CASE Crowd(O)
  <2>1. PICK c \in O : Doomed(c) \/ Knows(c, O)
    BY <1>1 DEF Crowds
  <2> QED
    BY <2>1
<1> QED
  BY <1>1

\* The steps that touch neither the records nor what is told of them.
LEMMA CalmStep ==
    ASSUME ConstantsOK, SessInv, SessInv', LimInv, NEW D, Kept(pipe, pipe', D),
           \A c \in Conn : /\ c \in D => ~(c \in Online)' /\ ~Fresh(c)'
                           /\ (c \in Online)' => c \in Online
                           /\ Fresh(c)' => Fresh(c)
                           /\ (c \in Online)' /\ Doomed(c) => Doomed(c)',
           \A n \in Node : \A a \in Result : a.cmd = "LIST" => (a \in Heard(n)' <=> a \in Heard(n)),
           \A c \in Conn : rec'["auth"][c] = rec["auth"][c],
           bcast' \in Bcasts, clock' = clock, lost' = lost, stalls' = stalls
    PROVE  LimInv'
<1>2. /\ \A n \in Node : Heard(n) \subseteq Result /\ Heard(n)' \subseteq Result
      /\ \A c \in Conn : At[c] \in Node
  BY Wired, WiredNext DEF ConstantsOK
<1>3. \A c \in Conn : LineOf(c)'
  BY LineFrame DEF LimInv
<1>4. Dated'
  <2>1. ASSUME NEW c \in Conn, NEW t \in Nat, Has(c, t)' PROVE Has(c, t)
    <3>1. CASE t # 0 /\ rec'["auth"][c] = t
      BY <3>1 DEF Has
    <3>2. ASSUME NEW n \in Node, Add(c, t) \in Line(n)' PROVE Has(c, t)
      <4>1. Add(c, t) \in Line(n)
        BY <3>2, Mine DEF Kept, Line
      <4> QED
        BY <4>1 DEF Has
    <3>3. ASSUME t # 0, NEW n \in Node, NEW a \in Heard(n)', a.cmd = "LIST", a.recs[c] = t
          PROVE  Has(c, t)
      <4>1. a \in Heard(n)
        BY <1>2, <3>3
      <4> QED
        BY <3>3, <4>1 DEF Has
    <3> QED
      BY <2>1, <3>1, <3>2, <3>3 DEF Has
  <2> QED
    BY <2>1, DatedFrame DEF LimInv
<1>5. Crowds'
  <2> SUFFICES ASSUME NEW O \in SUBSET Conn, Crowd(O)'
               PROVE  /\ Crowd(O)
                      /\ \A c \in O : /\ Doomed(c) => Doomed(c)'
                                      /\ Knows(c, O) => Knows(c, O)'
    BY CrowdStep DEF LimInv
  <2>1. ASSUME NEW c \in O PROVE /\ Listed(c)
                                 /\ Doomed(c) => Doomed(c)'
                                 /\ Knows(c, O) => Knows(c, O)'
    <3>1. c \in Conn /\ At[c] \in Node /\ (c \in Online)' /\ Cmd(c, "LIST") \notin Line(At[c])'
      BY <1>2 DEF Crowd, Listed
    <3>2. Cmd(c, "LIST") \notin Line(At[c])
      BY <3>1, Mine DEF Kept, Line
    <3>3. Knows(c, O) => Knows(c, O)'
      BY <1>2, <3>1 DEF Knows
    <3> QED
      BY <3>1, <3>2, <3>3 DEF Listed
  <2>2. Crowd(O)
    BY <2>1 DEF Crowd
  <2> QED
    BY <2>1, <2>2
<1> QED
  BY <1>3, <1>4, <1>5 DEF LimInv

\* Redis takes a command that is neither.
LEMMA ExecKept ==
    ASSUME ConstantsOK, SessInv, NEW n \in Node, NEW k \in Context, NEW X, Executes(n, k, X)
    PROVE  LET m == Head(pipe[n][k]) IN
           /\ m \in Message /\ m.cmd \in X /\ m \in Range(pipe[n][k])
           /\ \A i \in Node : i # n \/ k # "auth" => pipe'[i]["auth"] = pipe[i]["auth"]
           /\ \A i \in Node : i # n \/ k # "auth" => Line(i)' = Line(i)
           /\ k = "auth" => Line(n) = Line(n)' \cup {m}
           /\ k = "auth" => /\ \A c \in Conn : Sorted(pipe[n]["auth"], c) => Sorted(pipe'[n]["auth"], c)
                            /\ \A c \in Conn : Sorted(pipe[n]["auth"], c) /\ m = Cmd(c, "LIST") =>
                                 \A x \in Line(n) : x.conn = c => x.cmd # "ADD"
           /\ k # "auth" \/ m.cmd \notin {"ADD", "LIST"} => Kept(pipe, pipe', {})
<1> DEFINE q == pipe[n][k]  m == Head(q)
<1>1. /\ pipe \in AllPipes /\ q \in Seq(Message) /\ q # <<>> /\ m.cmd \in X
      /\ pipe' = [pipe EXCEPT ![n] = [pipe[n] EXCEPT ![k] = Tail(q)]]
      /\ "auth" \in Context /\ pipe[n] \in [Context -> Seq(Message)]
  BY Wired DEF Executes, AllPipes
<1>2. /\ pipe'[n][k] = Tail(q)
      /\ \A i \in Node : i # n \/ k # "auth" => pipe'[i]["auth"] = pipe[i]["auth"]
  BY <1>1 DEF AllPipes
<1>3. m \in Message /\ m \in Range(q)
  BY <1>1 DEF Range
<1> HIDE DEF m
<1>4. Range(q) = Range(Tail(q)) \cup {m}
  <2> HIDE DEF q
  <2> QED
    BY <1>1, RangeTail DEF m
<1>5. \A c \in Conn : Sorted(q, c) =>
          /\ Sorted(Tail(q), c)
          /\ m = Cmd(c, "LIST") => \A x \in Range(q) : x.conn = c => x.cmd # "ADD"
  <2> HIDE DEF q
  <2> QED
    BY <1>1, SortedTail DEF m
<1>6. /\ \A i \in Node : i # n \/ k # "auth" => Line(i)' = Line(i)
      /\ k = "auth" => Line(n) = Line(n)' \cup {m}
  BY <1>2, <1>4 DEF Line
<1>7. k = "auth" => /\ \A c \in Conn : Sorted(pipe[n]["auth"], c) => Sorted(pipe'[n]["auth"], c)
                    /\ \A c \in Conn : Sorted(pipe[n]["auth"], c) /\ m = Cmd(c, "LIST") =>
                         \A x \in Line(n) : x.conn = c => x.cmd # "ADD"
  BY <1>2, <1>5 DEF Line
<1>8. ASSUME k # "auth" \/ m.cmd \notin {"ADD", "LIST"} PROVE Kept(pipe, pipe', {})
  <2>1. ASSUME NEW i \in Node
        PROVE  /\ \A c \in Conn : Sorted(pipe[i]["auth"], c) => Sorted(pipe'[i]["auth"], c)
               /\ \A x \in Message : x.cmd \in {"ADD", "LIST"} => (x \in Line(i)' <=> x \in Line(i))
               /\ \A x \in Line(i)' : x \in Line(i)
    <3>1. CASE i # n \/ k # "auth"
      BY <1>2, <1>6, <3>1
    <3>2. CASE i = n /\ k = "auth"
      BY <1>6, <1>7, <1>8, <3>2
    <3> QED
      BY <3>1, <3>2
  <2> QED
    BY <2>1 DEF Kept, Line
<1> QED
  BY <1>1, <1>2, <1>3, <1>6, <1>7, <1>8 DEF m

\* A callback takes an answer.
LEMMA HeardTail ==
    ASSUME ConstantsOK, SessInv, NEW n \in Node, NEW k \in Context, NEW x, Handles(n, k, x)
    PROVE  /\ Head(answers[n][k]) \in Result /\ Head(answers[n][k]).cmd = x
           /\ \A i \in Node : i # n \/ k # "auth" => Heard(i)' = Heard(i)
           /\ k = "auth" => Heard(n) = Heard(n)' \cup {Head(answers[n][k])}
<1> DEFINE q == answers[n][k]
<1>1. /\ answers \in [Node -> [Context -> Seq(Result)]] /\ q \in Seq(Result) /\ q # <<>>
      /\ Head(q).cmd = x /\ "auth" \in Context
      /\ answers' = [answers EXCEPT ![n] = [answers[n] EXCEPT ![k] = Tail(q)]]
  BY Wired DEF Handles
<1>2. /\ answers'[n][k] = Tail(q)
      /\ \A i \in Node : i # n \/ k # "auth" => answers'[i]["auth"] = answers[i]["auth"]
      /\ Head(q) \in Result
  BY <1>1
<1>3. Range(q) = Range(Tail(q)) \cup {Head(q)}
  <2> HIDE DEF q
  <2> QED
    BY <1>1, RangeTail
<1> QED
  BY <1>1, <1>2, <1>3 DEF Heard

\* Redis answers.
LEMMA HeardMore ==
    ASSUME ConstantsOK, SessInv, NEW n \in Node, NEW k \in Context, NEW a \in Result,
           Answers(n, k, <<a>>)
    PROVE  /\ \A i \in Node : i # n \/ k # "auth" => Heard(i)' = Heard(i)
           /\ k = "auth" => Heard(n)' = IF up[n] THEN Heard(n) \cup {a} ELSE Heard(n)
<1>1. CASE ~up[n]
  BY <1>1 DEF Answers, Heard
<1>2. CASE up[n]
  <2> DEFINE q == answers[n][k]  s == <<a>>
  <2>1. /\ answers \in [Node -> [Context -> Seq(Result)]] /\ q \in Seq(Result)
        /\ "auth" \in Context
        /\ answers' = [answers EXCEPT ![n] = [answers[n] EXCEPT ![k] = q \o s]]
    BY <1>2, Wired DEF Answers
  <2>2. s \in Seq(Result) /\ Range(s) = {a}
    BY DEF Range
  <2>3. /\ answers'[n][k] = q \o s
        /\ \A i \in Node : i # n \/ k # "auth" => answers'[i]["auth"] = answers[i]["auth"]
    BY <2>1
  <2>4. Range(q \o s) = Range(q) \cup {a}
    <3> HIDE DEF q, s
    <3>1. Range(q \o s) = Range(q) \cup Range(s)
      BY <2>1, <2>2, RangeConcat
    <3> QED
      BY <2>2, <3>1
  <2> HIDE DEF s
  <2> QED
    BY <1>2, <2>3, <2>4 DEF Heard
<1> QED
  BY <1>1, <1>2

\* Nor any kick.
LEMMA CalmQuiet ==
    ASSUME ConstantsOK, SessInv, SessInv', LimInv, NEW D, Kept(pipe, pipe', D), Grows(pipe, pipe'),
           \A c \in Conn : /\ c \in D => ~(c \in Online)' /\ ~Fresh(c)'
                           /\ (c \in Online)' => c \in Online
                           /\ Fresh(c)' => Fresh(c),
           \A n \in Node : \A a \in Result : a.cmd = "LIST" => (a \in Heard(n)' <=> a \in Heard(n)),
           \A n \in Node : bcast'[n]["auth"] = bcast[n]["auth"], bcast' \in Bcasts,
           \A c \in Conn : rec'["auth"][c] = rec["auth"][c],
           clock' = clock, lost' = lost, stalls' = stalls
    PROVE  LimInv'
<1>1. \A c \in Conn : Doomed(c) => Doomed(c)'
  BY DEF Doomed, Grows, Line, ConstantsOK
<1> QED
  BY <1>1, CalmStep

LEMMA LimAccept ==
    ASSUME ConstantsOK, SessInv, SessInv', LimInv, NEW c \in Conn,
           Accept(c) \/ BevEventCallback(c) \/ BevReadCallback(c)
    PROVE  LimInv'
<1> DEFINE s == <<Cmd(c, "VERIFY")>>
<1>1. /\ pipe \in AllPipes /\ At[c] \in Node /\ "auth" \in Context /\ s \in Seq(Message)
      /\ \A m \in Range(s) : m.cmd = "VERIFY" /\ m.cmd # "DEL"
  <2>1. Cmd(c, "VERIFY") \in Message /\ Cmd(c, "VERIFY").cmd = "VERIFY"
    BY DEF Cmd, Message
  <2> QED
    BY <2>1, Wired DEF ConstantsOK, Range
<1> HIDE DEF s
<1>2. \A D : Kept(pipe, pipe, D) /\ Grows(pipe, pipe)
  BY KeptSame
<1>3. Kept(pipe, With(pipe, At[c], "auth", s), {}) /\ Grows(pipe, With(pipe, At[c], "auth", s))
  BY <1>1, WithKept
<1>4. /\ pipe' \in {pipe, With(pipe, At[c], "auth", s)}
      /\ UNCHANGED <<session, answers, bcast, rec, clock, lost, stalls>>
      /\ \A d \in Conn : (d \in bev' \/ peer'[d] = "new") => (d \in bev \/ peer[d] = "new")
      /\ bcast \in Bcasts
  <2>1. peer \in [Conn -> {"new", "up", "gone"}]
    BY DEF SessInv, Types
  <2> QED
    BY <2>1 DEF Accept, BevEventCallback, BevReadCallback, objectVars, wireVars, faultVars, s, LimInv
<1>5. Kept(pipe, pipe', {}) /\ Grows(pipe, pipe')
  BY <1>2, <1>3, <1>4
<1>6. ASSUME NEW d \in Conn PROVE /\ (d \in Online)' => d \in Online
                                  /\ Fresh(d)' => Fresh(d)
  BY <1>4 DEF Online, Fresh
<1>7. \A n \in Node : Heard(n)' = Heard(n)
  BY <1>4 DEF Heard
<1> QED
  BY <1>4, <1>5, <1>6, <1>7, CalmQuiet

LEMMA LimVerify ==
    ASSUME ConstantsOK, SessInv, SessInv', LimInv, NEW n \in Node, Redis_Verify_Callback(n)
    PROVE  LimInv'
<1>1. /\ bev' \subseteq bev /\ Handles(n, "auth", "VERIFY") /\ "auth" \in Context
      /\ UNCHANGED <<peer, session, pipe, bcast, rec, clock, lost, stalls>> /\ bcast \in Bcasts
  BY DEF Redis_Verify_Callback, Verified, Push, Context, faultVars, LimInv
<1>2. \A i \in Node : \A a \in Result : a.cmd = "LIST" => (a \in Heard(i)' <=> a \in Heard(i))
  <2>1. /\ Head(answers[n]["auth"]).cmd = "VERIFY"
        /\ \A i \in Node : i # n => Heard(i)' = Heard(i)
        /\ Heard(n) = Heard(n)' \cup {Head(answers[n]["auth"])}
    BY <1>1, HeardTail
  <2> QED
    BY <2>1
<1>3. ASSUME NEW d \in Conn PROVE /\ (d \in Online)' => d \in Online
                                  /\ Fresh(d)' => Fresh(d)
  BY <1>1 DEF Online, Fresh
<1>4. Kept(pipe, pipe', {}) /\ Grows(pipe, pipe')
  BY <1>1, KeptSame
<1> QED
  BY <1>1, <1>2, <1>3, <1>4, CalmQuiet

\* Sockets of sessions are those of connections accepted before.
LEMMA NotNew ==
    ASSUME ConstantsOK, SessInv, NEW c \in Conn, session[c] # "none"
    PROVE  up[At[c]] /\ c \in bev /\ peer[c] # "new"
<1>1. up[At[c]]
  BY DEF SessInv, Dead, Here, ConstantsOK
<1>2. Owned(c)
  BY <1>1 DEF SessInv
<1>3. c \in bev
  BY <1>2, OneOwner
<1> QED
  BY <1>1, <1>2, <1>3 DEF Owned

\* A session that ends, with nothing but the deletion of its record.
LEMMA LimStop ==
    ASSUME ConstantsOK, SessInv, SessInv', LimInv, NEW c \in Conn, session[c] # "none",
           NEW b \in BOOLEAN, Stop(c, pipe, b),
           UNCHANGED <<bev, peer, rec, clock, lost, stalls>>,
           \A n \in Node : Heard(n)' = Heard(n),
           bcast' \in Bcasts,
           \A d \in Conn : d # c /\ d \in Range(bcast[At[d]]["auth"]) => d \in Range(bcast'[At[d]]["auth"])
    PROVE  LimInv'
<1>1. Types /\ c \in bev /\ peer[c] # "new" /\ pipe \in AllPipes
  BY NotNew, Wired DEF SessInv
<1>2. /\ Kept(pipe, pipe', {c}) /\ Grows(pipe, pipe') /\ session'[c] = "stopped"
      /\ \A d \in Conn : /\ (d \in Online)' => d \in Online
                         /\ Fresh(d)' => Fresh(d)
  BY <1>1, StopKept
<1>3. ~(c \in Online)' /\ ~Fresh(c)'
  BY <1>2 DEF Online, Fresh
<1>4. ASSUME NEW d \in Conn, (d \in Online)', Doomed(d) PROVE Doomed(d)'
  <2>1. d # c
    BY <1>3, <1>4
  <2> QED
    BY <1>2, <1>4, <2>1 DEF Doomed, Grows, Line
<1> QED
  BY <1>2, <1>3, <1>4, CalmStep

LEMMA LimRegister ==
    ASSUME ConstantsOK, SessInv, SessInv', LimInv, NEW n \in Node, Redis_Register_Callback(n)
    PROVE  LimInv'
<1>0. PICK c : c = Head(answers[n]["core"]).conn
  OBVIOUS
<1>1. /\ Handles(n, "core", "LIST") /\ bcast \in Bcasts
      /\ UNCHANGED <<bev, peer, bcast, rec, clock, lost, stalls>>
      /\ \/ session[c] = "starting" /\ session' = [session EXCEPT ![c] = "running"] /\ pipe' = pipe
         \/ session[c] = "starting" /\ Stop(c, pipe, TRUE)
         \/ session' = session /\ pipe' = pipe
  BY <1>0 DEF Redis_Register_Callback, faultVars, socketVars, objectVars, LimInv
<1>2. c \in Conn /\ \A i \in Node : Heard(i)' = Heard(i)
  <2>1. "core" \in Context /\ "core" # "auth"
    BY Wired
  <2>2. /\ Head(answers[n]["core"]) \in Result
        /\ \A i \in Node : "core" # "auth" => Heard(i)' = Heard(i)
    BY <1>1, <2>1, HeardTail
  <2> QED
    BY <1>0, <2>1, <2>2 DEF Result
<1>3. CASE \/ session[c] = "starting" /\ session' = [session EXCEPT ![c] = "running"] /\ pipe' = pipe
           \/ session' = session /\ pipe' = pipe
  <2>1. Kept(pipe, pipe', {}) /\ Grows(pipe, pipe')
    BY <1>3, KeptSame
  <2>2. ASSUME NEW d \in Conn PROVE /\ (d \in Online)' => d \in Online
                                    /\ Fresh(d)' => Fresh(d)
    BY <1>1, <1>2, <1>3, Wired DEF Online, Fresh
  <2> QED
    BY <1>1, <1>2, <2>1, <2>2, CalmQuiet
<1>4. CASE session[c] = "starting" /\ Stop(c, pipe, TRUE)
  BY <1>1, <1>2, <1>4, LimStop
<1> QED
  BY <1>1, <1>3, <1>4

LEMMA LimAuthBroadcast ==
    ASSUME ConstantsOK, SessInv, SessInv', LimInv, NEW n \in Node, Redis_Auth_Broadcast_Callback(n)
    PROVE  LimInv'
<1>0. PICK c : c = Head(bcast[n]["auth"])
  OBVIOUS
<1> DEFINE q == bcast[n]["auth"]
<1>1. /\ q \in Seq(Conn) /\ q # <<>> /\ c = Head(q) /\ "auth" \in Context
      /\ bcast \in [Node -> [Context -> Seq(Conn)]]
      /\ bcast' = [bcast EXCEPT ![n] = [bcast[n] EXCEPT !["auth"] = Tail(q)]]
      /\ UNCHANGED <<bev, peer, answers, rec, clock, lost, stalls>>
      /\ \/ c \in logins /\ At[c] = n /\ Stop(c, pipe, session[c] = "running")
         \/ ~(c \in logins /\ At[c] = n) /\ session' = session /\ pipe' = pipe
  BY <1>0 DEF Redis_Auth_Broadcast_Callback, faultVars, socketVars, objectVars, LimInv, Bcasts, Context
<1>2. /\ bcast'[n]["auth"] = Tail(q) /\ bcast' \in Bcasts
      /\ \A i \in Node : i # n => bcast'[i] = bcast[i]
      /\ c \in Conn
  BY <1>1 DEF Bcasts
<1>3. Range(q) = Range(Tail(q)) \cup {c}
  <2> HIDE DEF q
  <2> QED
    BY <1>1, RangeTail
<1>4. ASSUME NEW d \in Conn, d # c \/ At[d] # n, d \in Range(bcast[At[d]]["auth"])
      PROVE  d \in Range(bcast'[At[d]]["auth"])
  <2>1. At[d] \in Node
    BY DEF ConstantsOK
  <2> QED
    BY <1>2, <1>3, <1>4, <2>1
<1> HIDE DEF q
<1>5. \A i \in Node : Heard(i)' = Heard(i)
  BY <1>1 DEF Heard
<1>6. CASE c \in logins /\ At[c] = n /\ Stop(c, pipe, session[c] = "running")
  <2>1. session[c] # "none" /\ (session[c] = "running") \in BOOLEAN
    BY <1>2, <1>6 DEF SessInv, LoggedIn
  <2> QED
    BY <1>1, <1>2, <1>4, <1>5, <1>6, <2>1, LimStop
<1>7. CASE ~(c \in logins /\ At[c] = n) /\ session' = session /\ pipe' = pipe
  <2>1. Kept(pipe, pipe', {}) /\ Grows(pipe, pipe')
    BY <1>7, KeptSame
  <2>2. ASSUME NEW d \in Conn PROVE /\ (d \in Online)' => d \in Online
                                    /\ Fresh(d)' => Fresh(d)
    BY <1>1, <1>7 DEF Online, Fresh
  <2>3. ASSUME NEW d \in Conn, (d \in Online)', Doomed(d) PROVE Doomed(d)'
    <3>1. d \in logins
      BY <2>2, <2>3 DEF Online, SessInv, LoggedIn
    <3>2. d # c \/ At[d] # n
      BY <1>7, <3>1
    <3>3. \A i \in Node : Line(i)' = Line(i)
      BY <1>7 DEF Line
    <3> QED
      BY <1>4, <2>3, <3>2, <3>3 DEF Doomed
  <2>4. /\ \A d \in Conn : rec'["auth"][d] = rec["auth"][d]
        /\ clock' = clock /\ lost' = lost /\ stalls' = stalls
    BY <1>1
  <2> QED
    BY <1>2, <1>5, <2>1, <2>2, <2>3, <2>4, CalmStep
<1> QED
  BY <1>1, <1>6, <1>7

LEMMA LimOthers ==
    ASSUME ConstantsOK, SessInv, SessInv', LimInv,
           \/ \E n \in Node : Redis_Broadcast_Callback(n)
           \/ \E c \in Conn : EventCallback(c) \/ HandleKick(c) \/ PeerCloses(c)
           \/ UNCHANGED vars
    PROVE  LimInv'
<1>1. ASSUME NEW c \in Conn, EventCallback(c) PROVE LimInv'
  <2>1. /\ session[c] # "none" /\ Stop(c, pipe, TRUE) /\ bcast \in Bcasts
        /\ UNCHANGED <<bev, peer, answers, bcast, rec, clock, lost, stalls>>
    BY <1>1 DEF EventCallback, Watched, LimInv, faultVars, socketVars
  <2>2. \A n \in Node : Heard(n)' = Heard(n)
    BY <2>1 DEF Heard
  <2> QED
    BY <2>1, <2>2, LimStop
<1>2. ASSUME UNCHANGED <<session, bev, pipe, answers, rec, clock, lost, stalls>>,
             \A d \in Conn : peer'[d] = "new" => peer[d] = "new",
             \A n \in Node : bcast'[n]["auth"] = bcast[n]["auth"], bcast' \in Bcasts
      PROVE  LimInv'
  <2>1. Kept(pipe, pipe', {}) /\ Grows(pipe, pipe')
    BY <1>2, KeptSame
  <2>2. ASSUME NEW d \in Conn PROVE /\ (d \in Online)' => d \in Online
                                    /\ Fresh(d)' => Fresh(d)
    BY <1>2 DEF Online, Fresh
  <2>3. \A n \in Node : Heard(n)' = Heard(n)
    BY <1>2 DEF Heard
  <2> QED
    BY <1>2, <2>1, <2>2, <2>3, CalmQuiet
<1>3. ASSUME NEW n \in Node, Redis_Broadcast_Callback(n) PROVE LimInv'
  <2>0. PICK c : c = Head(bcast[n]["core"])
    OBVIOUS
  <2>1. /\ UNCHANGED <<bev, peer, answers, rec, clock, lost, stalls>>
        /\ bcast \in [Node -> [Context -> Seq(Conn)]] /\ bcast[n]["core"] # <<>>
        /\ "core" \in Context /\ "auth" \in Context
        /\ bcast' = [bcast EXCEPT ![n] = [bcast[n] EXCEPT !["core"] = Tail(bcast[n]["core"])]]
        /\ \/ session[c] # "none" /\ Stop(c, pipe, session[c] = "running")
           \/ session' = session /\ pipe' = pipe
    BY <1>3, <2>0 DEF Redis_Broadcast_Callback, LimInv, Bcasts, faultVars, socketVars, objectVars, Context
  <2>2. /\ bcast' \in Bcasts /\ c \in Conn /\ (session[c] = "running") \in BOOLEAN
        /\ \A i \in Node : bcast'[i]["auth"] = bcast[i]["auth"]
    <3>1. bcast[n]["core"] \in Seq(Conn)
      BY <2>1
    <3>2. Tail(bcast[n]["core"]) \in Seq(Conn) /\ c \in Conn
      BY <2>0, <2>1, <3>1
    <3> QED
      BY <2>1, <3>2 DEF Bcasts
  <2>3. CASE session[c] # "none" /\ Stop(c, pipe, session[c] = "running")
    <3>1. \A i \in Node : Heard(i)' = Heard(i)
      BY <2>1 DEF Heard
    <3>2. \A d \in Conn : bcast'[At[d]]["auth"] = bcast[At[d]]["auth"]
      BY <2>2 DEF ConstantsOK
    <3> QED
      BY <2>1, <2>2, <2>3, <3>1, <3>2, LimStop
  <2>4. CASE session' = session /\ pipe' = pipe
    BY <1>2, <2>1, <2>2, <2>4
  <2> QED
    BY <2>1, <2>3, <2>4
<1>4. ASSUME NEW c \in Conn, HandleKick(c) PROVE LimInv'
  <2>1. /\ UNCHANGED <<session, bev, peer, pipe, answers, rec, clock, lost, stalls>>
        /\ bcast \in [Node -> [Context -> Seq(Conn)]] /\ Broadcast("core", c)
        /\ "core" \in Context /\ "auth" \in Context
    BY <1>4 DEF HandleKick, LimInv, Bcasts, faultVars, socketVars, objectVars, Context
  <2>2. ASSUME NEW i \in Node PROVE /\ bcast'[i] \in [Context -> Seq(Conn)]
                                    /\ bcast'[i]["auth"] = bcast[i]["auth"]
    <3>1. bcast'[i] = IF up[i] THEN [bcast[i] EXCEPT !["core"] = Append(bcast[i]["core"], c)]
                                ELSE bcast[i]
      BY <2>1 DEF Broadcast
    <3>2. bcast[i] \in [Context -> Seq(Conn)] /\ Append(bcast[i]["core"], c) \in Seq(Conn)
      BY <2>1
    <3> QED
      BY <2>1, <3>1, <3>2
  <2>3. bcast' \in Bcasts
    <3>1. bcast' = [i \in Node |-> IF up[i] THEN [bcast[i] EXCEPT !["core"] = Append(@, c)] ELSE bcast[i]]
      BY <2>1 DEF Broadcast
    <3> QED
      BY <2>2, <3>1 DEF Bcasts
  <2> QED
    BY <1>2, <2>1, <2>2, <2>3
<1>5. ASSUME NEW c \in Conn, PeerCloses(c) PROVE LimInv'
  <2>1. \A d \in Conn : peer'[d] = "new" => peer[d] = "new"
    BY <1>5 DEF PeerCloses, SessInv, Types
  <2> QED
    BY <1>2, <1>5, <2>1 DEF PeerCloses, LimInv, objectVars, wireVars, faultVars
<1>6. ASSUME UNCHANGED vars PROVE LimInv'
  BY <1>2, <1>6 DEF vars, LimInv, objectVars, wireVars, faultVars, socketVars
<1> QED
  BY <1>1, <1>3, <1>4, <1>5, <1>6

LEMMA LimExecVerify ==
    ASSUME ConstantsOK, SessInv, SessInv', LimInv, NEW n \in Node, ExecVerify(n)
    PROVE  LimInv'
<1>0. PICK m : m = Head(pipe[n]["auth"])
  OBVIOUS
<1>1. /\ Executes(n, "auth", {"VERIFY"}) /\ "auth" \in Context /\ bcast \in Bcasts
      /\ UNCHANGED <<session, bev, peer, bcast, rec, clock, lost, stalls>>
  BY DEF ExecVerify, Executes, LimInv, Context, objectVars, socketVars, faultVars
<1>2. PICK ok \in BOOLEAN : Answers(n, "auth", <<[cmd |-> "VERIFY", conn |-> m.conn, ok |-> ok]>>)
  BY <1>0 DEF ExecVerify
<1>3. /\ m \in Message /\ m.cmd = "VERIFY" /\ Kept(pipe, pipe', {})
      /\ \A i \in Node : i # n => Line(i)' = Line(i)
      /\ Line(n) = Line(n)' \cup {m}
  <2>1. /\ m \in Message /\ m.cmd \in {"VERIFY"}
        /\ m.cmd \notin {"ADD", "LIST"} => Kept(pipe, pipe', {})
        /\ \A i \in Node : i # n => Line(i)' = Line(i)
        /\ Line(n) = Line(n)' \cup {m}
    BY <1>0, <1>1, ExecKept
  <2> QED
    BY <2>1
<1> DEFINE a == [cmd |-> "VERIFY", conn |-> m.conn, ok |-> ok]
<1>4. a \in Result /\ a.cmd = "VERIFY" /\ Answers(n, "auth", <<a>>)
  <2>1. m.conn \in Conn
    BY <1>3 DEF Message
  <2> QED
    BY <1>2, <2>1 DEF Result
<1> HIDE DEF a
<1>5. \A i \in Node : \A x \in Result : x.cmd = "LIST" => (x \in Heard(i)' <=> x \in Heard(i))
  <2>1. /\ \A i \in Node : i # n => Heard(i)' = Heard(i)
        /\ Heard(n)' = IF up[n] THEN Heard(n) \cup {a} ELSE Heard(n)
    BY <1>1, <1>4, HeardMore
  <2> QED
    BY <1>4, <2>1
<1>6. ASSUME NEW d \in Conn PROVE /\ (d \in Online)' => d \in Online
                                  /\ Fresh(d)' => Fresh(d)
                                  /\ Doomed(d) => Doomed(d)'
  <2>1. \A i \in Node : Cmd(d, "KICK") \in Line(i) => Cmd(d, "KICK") \in Line(i)'
    BY <1>3, Mine
  <2> QED
    BY <1>1, <2>1 DEF Online, Fresh, Doomed
<1>7. /\ \A d \in Conn : rec'["auth"][d] = rec["auth"][d]
      /\ clock' = clock /\ lost' = lost /\ stalls' = stalls /\ bcast' \in Bcasts
  BY <1>1
<1> QED
  BY <1>3, <1>5, <1>6, <1>7, CalmStep

\* A kick becomes a broadcast, which reaches the node of its connection.
LEMMA LimExecKick ==
    ASSUME ConstantsOK, SessInv, SessInv', LimInv, NEW n \in Node, ExecKick(n)
    PROVE  LimInv'
<1>0. PICK m, c : m = Head(pipe[n]["auth"]) /\ c = m.conn
  OBVIOUS
<1>1. /\ Executes(n, "auth", {"KICK"}) /\ "auth" \in Context /\ bcast \in Bcasts
      /\ UNCHANGED <<session, bev, peer, answers, rec, clock, lost, stalls, up>>
      /\ Broadcast("auth", c)
  BY <1>0 DEF ExecKick, Executes, LimInv, Context, objectVars, socketVars, faultVars
<1>2. /\ m \in Message /\ m.cmd = "KICK" /\ Kept(pipe, pipe', {})
      /\ \A i \in Node : i # n => Line(i)' = Line(i)
      /\ Line(n) = Line(n)' \cup {m}
  <2>1. /\ m \in Message /\ m.cmd \in {"KICK"}
        /\ m.cmd \notin {"ADD", "LIST"} => Kept(pipe, pipe', {})
        /\ \A i \in Node : i # n => Line(i)' = Line(i)
        /\ Line(n) = Line(n)' \cup {m}
    BY <1>0, <1>1, ExecKept
  <2> QED
    BY <2>1
<1>3. c \in Conn
  BY <1>0, <1>2 DEF Message
<1>4. ASSUME NEW i \in Node
      PROVE  /\ bcast'[i] \in [Context -> Seq(Conn)]
             /\ Range(bcast[i]["auth"]) \subseteq Range(bcast'[i]["auth"])
             /\ up[i] => c \in Range(bcast'[i]["auth"])
  <2> DEFINE q == bcast[i]["auth"]
  <2>1. bcast'[i] = IF up[i] THEN [bcast[i] EXCEPT !["auth"] = Append(q, c)] ELSE bcast[i]
    BY <1>1 DEF Broadcast
  <2>2. bcast[i] \in [Context -> Seq(Conn)] /\ q \in Seq(Conn)
    BY <1>1 DEF Bcasts
  <2>3. Append(q, c) \in Seq(Conn) /\ Range(Append(q, c)) = Range(q) \cup {c}
    <3> HIDE DEF q
    <3> QED
      BY <1>3, <2>2, RangeAppend
  <2> QED
    BY <1>1, <2>1, <2>2, <2>3
<1>5. bcast' \in Bcasts
  <2>1. bcast' = [i \in Node |-> IF up[i] THEN [bcast[i] EXCEPT !["auth"] = Append(@, c)] ELSE bcast[i]]
    BY <1>1 DEF Broadcast
  <2> QED
    BY <1>4, <2>1 DEF Bcasts
<1>6. ASSUME NEW d \in Conn PROVE /\ (d \in Online)' => d \in Online
                                  /\ Fresh(d)' => Fresh(d)
                                  /\ (d \in Online)' /\ Doomed(d) => Doomed(d)'
  <2>1. /\ (d \in Online)' <=> d \in Online
        /\ Fresh(d)' => Fresh(d)
    BY <1>1 DEF Online, Fresh
  <2>2. d \in Online => up[At[d]]
    BY NotNew DEF Online
  <2>3. ASSUME d \in Online, NEW i \in Node, Cmd(d, "KICK") \in Line(i) PROVE Doomed(d)'
    <3>1. CASE Cmd(d, "KICK") \in Line(i)'
      BY <3>1 DEF Doomed
    <3>2. CASE Cmd(d, "KICK") \notin Line(i)'
      <4>1. Cmd(d, "KICK") = m
        BY <1>2, <2>3, <3>2
      <4>2. d = c
        BY <1>0, <4>1, Mine
      <4>3. d \in Range(bcast'[At[d]]["auth"])
        BY <1>4, <2>2, <2>3, <4>2 DEF ConstantsOK
      <4> QED
        BY <4>3 DEF Doomed
    <3> QED
      BY <3>1, <3>2
  <2>4. ASSUME d \in Range(bcast[At[d]]["auth"]) PROVE Doomed(d)'
    BY <1>4, <2>4 DEF Doomed, ConstantsOK
  <2> QED
    BY <2>1, <2>3, <2>4 DEF Doomed
<1>7. /\ \A d \in Conn : rec'["auth"][d] = rec["auth"][d]
      /\ clock' = clock /\ lost' = lost /\ stalls' = stalls
  BY <1>1
<1>8. \A i \in Node : Heard(i)' = Heard(i)
  BY <1>1 DEF Heard
<1> QED
  BY <1>2, <1>5, <1>6, <1>7, <1>8, CalmStep

\* Steps that concern the pipeline of CASTER only.
LEMMA LimCaster ==
    ASSUME ConstantsOK, SessInv, SessInv', LimInv, NEW n \in Node,
           ExecRecord(n, "core") \/ ExecList(n, "core")
    PROVE  LimInv'
<1>1. /\ \E X : Executes(n, "core", X) /\ "core" \in Context /\ "core" # "auth"
      /\ "auth" \in Context /\ bcast \in Bcasts /\ rec \in [Context -> [Conn -> Nat]]
      /\ UNCHANGED <<session, bev, peer, bcast, clock, lost, stalls>>
  BY Wired DEF ExecRecord, ExecList, Executes, LimInv, objectVars, socketVars, faultVars
<1>2. /\ Kept(pipe, pipe', {}) /\ \A i \in Node : Line(i)' = Line(i)
  BY <1>1, ExecKept
<1>3. \A i \in Node : \A a \in Result : a.cmd = "LIST" => (a \in Heard(i)' <=> a \in Heard(i))
  <2>1. CASE answers' = answers
    BY <2>1 DEF Heard
  <2>2. CASE ExecList(n, "core")
    <3> DEFINE a == [cmd |-> "LIST", conn |-> Head(pipe[n]["core"]).conn, recs |-> rec["core"]]
    <3>1. a \in Result
      <4>1. Head(pipe[n]["core"]) \in Message
        BY <1>1, ExecKept
      <4>2. Head(pipe[n]["core"]).conn \in Conn
        BY <4>1 DEF Message
      <4> QED
        BY <1>1, <4>2 DEF Result
    <3>2. Answers(n, "core", <<a>>)
      BY <2>2 DEF ExecList
    <3> HIDE DEF a
    <3>3. \A i \in Node : Heard(i)' = Heard(i)
      BY <1>1, <3>1, <3>2, HeardMore
    <3> QED
      BY <3>3
  <2> QED
    BY <2>1, <2>2 DEF ExecRecord
<1>4. ASSUME NEW d \in Conn PROVE /\ (d \in Online)' => d \in Online
                                  /\ Fresh(d)' => Fresh(d)
  BY <1>1 DEF Online, Fresh
<1>5. /\ \A d \in Conn : rec'["auth"][d] = rec["auth"][d]
      /\ clock' = clock /\ lost' = lost /\ stalls' = stalls /\ bcast' \in Bcasts
  <2>1. rec'["auth"] = rec["auth"]
    <3>1. CASE rec' = rec
      BY <3>1
    <3>2. CASE ExecRecord(n, "core")
      BY <1>1, <3>2 DEF ExecRecord
    <3> QED
      BY <3>1, <3>2 DEF ExecList
  <2> QED
    BY <1>1, <2>1
<1>6. Grows(pipe, pipe') /\ \A i \in Node : bcast'[i]["auth"] = bcast[i]["auth"]
  BY <1>1, <1>2 DEF Grows, Line
<1> QED
  BY <1>2, <1>3, <1>4, <1>5, <1>6, CalmQuiet

\* A record is written or deleted.
LEMMA LimRecord ==
    ASSUME ConstantsOK, SessInv, SessInv', LimInv, NEW n \in Node, ExecRecord(n, "auth")
    PROVE  LimInv'
<1>0. PICK m, c : m = Head(pipe[n]["auth"]) /\ c = m.conn
  OBVIOUS
<1> DEFINE v == IF m.cmd = "ADD" THEN m.stamp ELSE 0
<1>1. /\ Executes(n, "auth", {"ADD", "DEL"}) /\ "auth" \in Context /\ bcast \in Bcasts
      /\ UNCHANGED <<session, bev, peer, answers, bcast, clock, lost, stalls>>
      /\ rec' = [rec EXCEPT !["auth"] = [rec["auth"] EXCEPT ![c] = v]]
      /\ rec \in [Context -> [Conn -> Nat]]
  BY <1>0, Wired DEF ExecRecord, Executes, LimInv, objectVars, socketVars, faultVars
<1>2. /\ m \in Message /\ m.cmd \in {"ADD", "DEL"} /\ m \in Line(n)
      /\ \A i \in Node : i # n => Line(i)' = Line(i) /\ pipe'[i]["auth"] = pipe[i]["auth"]
      /\ Line(n) = Line(n)' \cup {m}
      /\ \A d \in Conn : Sorted(pipe[n]["auth"], d) => Sorted(pipe'[n]["auth"], d)
  BY <1>0, <1>1, ExecKept DEF Line
<1>3. /\ c \in Conn /\ At[c] = n
      /\ (m = Add(c, m.stamp) /\ m.stamp \in Nat) \/ m = Cmd(c, "DEL")
  <2>1. c \in Conn
    BY <1>0, <1>2 DEF Message
  <2>2. n # At[c] => Unnamed(Line(n), c)
    BY <2>1 DEF LimInv, LineOf
  <2>3. At[c] = n
    BY <1>0, <1>2, <2>2 DEF Unnamed
  <2>4. (\E t \in Nat : m = Add(c, t)) \/ m = Cmd(c, "DEL")
    BY <1>0, <1>2, <2>1, Mine
  <2> QED
    BY <2>1, <2>3, <2>4, Mine
<1>4. /\ rec'["auth"][c] = v /\ \A d \in Conn : d # c => rec'["auth"][d] = rec["auth"][d]
      /\ m.cmd = "ADD" => v # 0 /\ v = m.stamp /\ m = Add(c, v) /\ v \in Nat
      /\ m.cmd = "DEL" => v = 0 /\ m = Cmd(c, "DEL")
  <2>1. rec'["auth"][c] = v /\ \A d \in Conn : d # c => rec'["auth"][d] = rec["auth"][d]
    BY <1>1, <1>3
  <2>2. CASE m = Cmd(c, "DEL")
    BY <1>3, <2>1, <2>2, Mine
  <2>3. CASE m = Add(c, m.stamp) /\ m.stamp \in Nat
    <3>1. m.cmd = "ADD"
      BY <1>3, <2>3, Mine
    <3>2. Has(c, m.stamp)
      BY <1>2, <2>3 DEF Has
    <3>3. m.stamp # 0
      BY <1>3, <2>3, <3>2 DEF LimInv, Dated
    <3> QED
      BY <2>1, <2>3, <3>1, <3>3
  <2> QED
    BY <1>3, <2>2, <2>3
<1> HIDE DEF v
<1>5. ASSUME NEW i \in Node
      PROVE  /\ Line(i)' \subseteq Line(i)
             /\ \A x \in Line(i) : x # m => x \in Line(i)'
  BY <1>2
<1>6. ASSUME NEW d \in Conn
      PROVE  /\ (d \in Online)' <=> d \in Online
             /\ Fresh(d)' <=> Fresh(d)
             /\ At[d] \in Node
             /\ Cmd(d, "LIST") # m /\ Cmd(d, "KICK") # m
             /\ LineOf(d)
  <2>1. Cmd(d, "LIST") # m /\ Cmd(d, "KICK") # m
    BY <1>2, Mine
  <2> QED
    BY <1>1, <2>1 DEF Online, Fresh, LimInv, ConstantsOK
<1>7. ASSUME NEW d \in Conn PROVE LineOf(d)'
  <2>1. \A i \in Node : i # At[d] \/ Fresh(d)' => Unnamed(Line(i), d)'
    BY <1>5, <1>6 DEF LineOf, Unnamed
  <2>2. Sorted(pipe'[At[d]]["auth"], d)
    BY <1>2, <1>6 DEF LineOf
  <2>3. Adding(d)' => Cmd(d, "LIST") \in Line(At[d])'
    BY <1>5, <1>6 DEF LineOf, Adding
  <2>4. ASSUME (d \in Online)'
        PROVE  /\ Cmd(d, "DEL") \notin Line(At[d])'
               /\ Adding(d)' \/ rec'["auth"][d] # 0
    <3>1. Cmd(d, "DEL") \notin Line(At[d]) /\ (Adding(d) \/ rec["auth"][d] # 0)
      BY <1>6, <2>4 DEF LineOf
    <3>2. Cmd(d, "DEL") \notin Line(At[d])'
      BY <1>5, <1>6, <3>1
    <3>3. CASE d = c
      <4>1. m.cmd = "ADD"
        BY <1>2, <1>3, <1>4, <3>1, <3>3
      <4> QED
        BY <1>4, <3>2, <3>3, <4>1
    <3>4. CASE d # c
      <4>1. \A t \in Nat : Add(d, t) # m
        BY <1>0, <3>4, Mine
      <4>2. Adding(d) => Adding(d)'
        BY <1>5, <1>6, <4>1 DEF Adding
      <4> QED
        BY <1>4, <3>1, <3>2, <3>4, <4>2
    <3> QED
      BY <3>3, <3>4
  <2> QED
    BY <2>1, <2>2, <2>3, <2>4 DEF LineOf
<1>8. Dated'
  <2>1. ASSUME NEW d \in Conn, NEW t \in Nat, Has(d, t)' PROVE Has(d, t)
    <3>1. CASE t # 0 /\ rec'["auth"][d] = t
      <4>1. CASE d = c
        <5>1. m = Add(c, t)
          BY <1>2, <1>4, <3>1, <4>1
        <5> QED
          BY <1>2, <4>1, <5>1 DEF Has
      <4>2. CASE d # c
        BY <1>4, <3>1, <4>2 DEF Has
      <4> QED
        BY <4>1, <4>2
    <3>2. ASSUME NEW i \in Node, Add(d, t) \in Line(i)' PROVE Has(d, t)
      BY <1>5, <3>2 DEF Has
    <3>3. CASE t # 0 /\ \E i \in Node : \E a \in Heard(i)' : a.cmd = "LIST" /\ a.recs[d] = t
      BY <1>1, <3>3 DEF Has, Heard
    <3> QED
      BY <2>1, <3>1, <3>2, <3>3 DEF Has
  <2> QED
    BY <1>1, <2>1, DatedFrame DEF LimInv
<1>9. Crowds'
  <2>1. \A i \in Node : Heard(i)' = Heard(i)
    BY <1>1 DEF Heard
  <2>2. ASSUME NEW d \in Conn PROVE /\ Listed(d)' => Listed(d)
                                    /\ Doomed(d) => Doomed(d)'
                                    /\ \A O \in SUBSET Conn : Knows(d, O) => Knows(d, O)'
    <3>1. Listed(d)' => Listed(d)
      BY <1>5, <1>6 DEF Listed
    <3>2. Doomed(d) => Doomed(d)'
      BY <1>1, <1>5, <1>6 DEF Doomed
    <3>3. \A O \in SUBSET Conn : Knows(d, O) => Knows(d, O)'
      BY <1>6, <2>1 DEF Knows
    <3> QED
      BY <3>1, <3>2, <3>3
  <2>3. \A O \in SUBSET Conn : Crowd(O)' => Crowd(O)
    BY <2>2 DEF Crowd
  <2> QED
    BY <2>2, <2>3, CrowdStep DEF LimInv
<1> QED
  BY <1>1, <1>7, <1>8, <1>9 DEF LimInv

\* The records are listed: whoever lists last has been told of all the others.
LEMMA LimList ==
    ASSUME ConstantsOK, SessInv, SessInv', LimInv, NEW n \in Node, ExecList(n, "auth")
    PROVE  LimInv'
<1>0. PICK m, c : m = Head(pipe[n]["auth"]) /\ c = m.conn
  OBVIOUS
<1> DEFINE a == [cmd |-> "LIST", conn |-> c, recs |-> rec["auth"]]
<1>1. /\ Executes(n, "auth", {"LIST"}) /\ "auth" \in Context /\ bcast \in Bcasts
      /\ UNCHANGED <<session, bev, peer, rec, bcast, clock, lost, stalls, up>>
      /\ Answers(n, "auth", <<a>>)
      /\ rec \in [Context -> [Conn -> Nat]]
  BY <1>0, Wired DEF ExecList, Executes, LimInv, objectVars, socketVars, faultVars
<1>2. /\ m \in Message /\ m.cmd = "LIST" /\ m \in Line(n)
      /\ \A i \in Node : i # n => Line(i)' = Line(i) /\ pipe'[i]["auth"] = pipe[i]["auth"]
      /\ Line(n) = Line(n)' \cup {m}
      /\ \A d \in Conn : Sorted(pipe[n]["auth"], d) => Sorted(pipe'[n]["auth"], d)
      /\ \A d \in Conn : Sorted(pipe[n]["auth"], d) /\ m = Cmd(d, "LIST") =>
           \A x \in Line(n) : x.conn = d => x.cmd # "ADD"
  <2>1. m \in Message /\ m.cmd \in {"LIST"} /\ m \in Line(n)
    BY <1>0, <1>1, ExecKept DEF Line
  <2>2. /\ \A i \in Node : i # n => Line(i)' = Line(i) /\ pipe'[i]["auth"] = pipe[i]["auth"]
        /\ Line(n) = Line(n)' \cup {m}
    BY <1>0, <1>1, ExecKept
  <2>3. /\ \A d \in Conn : Sorted(pipe[n]["auth"], d) => Sorted(pipe'[n]["auth"], d)
        /\ \A d \in Conn : Sorted(pipe[n]["auth"], d) /\ m = Cmd(d, "LIST") =>
             \A x \in Line(n) : x.conn = d => x.cmd # "ADD"
    BY <1>0, <1>1, ExecKept
  <2> QED
    BY <2>1, <2>2, <2>3
<1>3. c \in Conn /\ At[c] = n /\ m = Cmd(c, "LIST")
  <2>1. c \in Conn
    BY <1>0, <1>2 DEF Message
  <2>2. n # At[c] => Unnamed(Line(n), c)
    BY <2>1 DEF LimInv, LineOf
  <2>3. At[c] = n
    BY <1>0, <1>2, <2>2 DEF Unnamed
  <2> QED
    BY <1>0, <1>2, <2>1, <2>3, Mine
<1>4. ~Adding(c)
  <2>1. Sorted(pipe[n]["auth"], c)
    BY <1>3 DEF LimInv, LineOf
  <2>2. \A x \in Line(n) : x.conn = c => x.cmd # "ADD"
    BY <1>2, <1>3, <2>1
  <2> QED
    BY <1>3, <2>2, Mine DEF Adding
<1>5. a \in Result /\ a.cmd = "LIST" /\ a.conn = c /\ a.recs = rec["auth"]
  BY <1>1, <1>3 DEF Result
<1> HIDE DEF a
<1>6. /\ \A i \in Node : i # n => Heard(i)' = Heard(i)
      /\ Heard(n)' = IF up[n] THEN Heard(n) \cup {a} ELSE Heard(n)
  BY <1>1, <1>5, HeardMore
<1>7. ASSUME NEW i \in Node
      PROVE  /\ Line(i)' \subseteq Line(i)
             /\ \A x \in Line(i) : x # m => x \in Line(i)'
             /\ Heard(i) \subseteq Heard(i)'
  BY <1>2, <1>6
<1>8. ASSUME NEW d \in Conn
      PROVE  /\ (d \in Online)' <=> d \in Online
             /\ Fresh(d)' <=> Fresh(d)
             /\ At[d] \in Node
             /\ d # c => Cmd(d, "LIST") # m
             /\ Cmd(d, "KICK") # m /\ Cmd(d, "DEL") # m /\ \A t \in Nat : Add(d, t) # m
             /\ LineOf(d)
  <2>0. m.conn = c
    BY <1>3, Mine
  <2>1. /\ d # c => Cmd(d, "LIST") # m
        /\ Cmd(d, "KICK") # m /\ Cmd(d, "DEL") # m /\ \A t \in Nat : Add(d, t) # m
    BY <1>2, <2>0, Mine
  <2> QED
    BY <1>1, <2>1 DEF Online, Fresh, LimInv, ConstantsOK
<1>9. ASSUME NEW d \in Conn PROVE (Adding(d)' <=> Adding(d)) /\ (d = c => ~Adding(d))
  BY <1>4, <1>7, <1>8 DEF Adding
<1>10. ASSUME NEW d \in Conn PROVE LineOf(d)'
  <2>1. \A i \in Node : i # At[d] \/ Fresh(d)' => Unnamed(Line(i), d)'
    BY <1>7, <1>8 DEF LineOf, Unnamed
  <2>2. Sorted(pipe'[At[d]]["auth"], d)
    BY <1>2, <1>8 DEF LineOf
  <2>3. Adding(d)' => Cmd(d, "LIST") \in Line(At[d])'
    BY <1>7, <1>8, <1>9 DEF LineOf
  <2>4. ASSUME (d \in Online)'
        PROVE  /\ Cmd(d, "DEL") \notin Line(At[d])'
               /\ Adding(d)' \/ rec'["auth"][d] # 0
    BY <1>1, <1>7, <1>8, <1>9, <2>4 DEF LineOf
  <2> QED
    BY <2>1, <2>2, <2>3, <2>4 DEF LineOf
<1>11. Dated'
  <2>1. ASSUME NEW d \in Conn, NEW t \in Nat, Has(d, t)' PROVE Has(d, t)
    <3>1. CASE t # 0 /\ rec'["auth"][d] = t
      BY <1>1, <3>1 DEF Has
    <3>2. ASSUME NEW i \in Node, Add(d, t) \in Line(i)' PROVE Has(d, t)
      BY <1>7, <3>2 DEF Has
    <3>3. ASSUME t # 0, NEW i \in Node, NEW x \in Heard(i)', x.cmd = "LIST", x.recs[d] = t
          PROVE  Has(d, t)
      <4>1. CASE x \in Heard(i)
        BY <3>3, <4>1 DEF Has
      <4>2. CASE x = a
        BY <1>5, <3>3, <4>2 DEF Has
      <4> QED
        BY <1>6, <3>3, <4>1, <4>2
    <3> QED
      BY <2>1, <3>1, <3>2, <3>3 DEF Has
  <2> QED
    BY <1>1, <2>1, DatedFrame DEF LimInv
<1>12. Crowds'
  <2> SUFFICES ASSUME NEW O \in SUBSET Conn, Crowd(O)'
               PROVE  /\ Crowd(O) \/ \E d \in O : Doomed(d)' \/ Knows(d, O)'
                      /\ \A d \in O : /\ Doomed(d) => Doomed(d)'
                                      /\ Knows(d, O) => Knows(d, O)'
    BY CrowdStep DEF LimInv
  <2>1. ASSUME NEW d \in O PROVE /\ Doomed(d) => Doomed(d)'
                                 /\ Knows(d, O) => Knows(d, O)'
    <3>1. d \in Conn
      OBVIOUS
    <3>2. Doomed(d) => Doomed(d)'
      BY <1>1, <1>7, <1>8, <3>1 DEF Doomed
    <3>3. Knows(d, O) => Knows(d, O)'
      BY <1>7, <1>8, <3>1 DEF Knows
    <3> QED
      BY <3>2, <3>3
  <2>2. CASE c \in O
    <3>1. (c \in Online)' /\ c \in Online
      BY <1>8, <2>2 DEF Crowd, Listed
    <3>2. up[n]
      BY <1>3, <3>1, NotNew DEF Online
    <3>3. ASSUME NEW d \in O PROVE rec["auth"][d] # 0
      <4>1. d \in Conn /\ d \in Online /\ Cmd(d, "LIST") \notin Line(At[d])'
        BY <1>8 DEF Crowd, Listed
      <4>2. ~Adding(d)
        BY <1>7, <1>8, <1>9, <4>1 DEF LineOf
      <4> QED
        BY <1>8, <4>1, <4>2 DEF LineOf
    <3>4. Knows(c, O)'
      <4>1. a \in Heard(At[c])'
        BY <1>3, <1>6, <3>2
      <4> QED
        BY <1>5, <3>3, <4>1 DEF Knows
    <3> QED
      BY <2>1, <2>2, <3>4
  <2>3. CASE c \notin O
    <3>1. ASSUME NEW d \in O PROVE Listed(d)
      <4>1. d \in Conn /\ d # c /\ d \in Online /\ Cmd(d, "LIST") \notin Line(At[d])'
        BY <1>8, <2>3 DEF Crowd, Listed
      <4> QED
        BY <1>7, <1>8, <4>1 DEF Listed
    <3>2. Crowd(O)
      BY <3>1 DEF Crowd
    <3> QED
      BY <2>1, <3>2
  <2> QED
    BY <2>2, <2>3
<1> QED
  BY <1>1, <1>10, <1>11, <1>12 DEF LimInv

\* What dies or expires is of connections that are not online any more.
LEMMA FadeStep ==
    ASSUME ConstantsOK, SessInv, SessInv', LimInv, pipe' = pipe,
           \A c \in Conn : /\ (c \in Online)' => /\ c \in Online
                                                 /\ rec'["auth"][c] = rec["auth"][c]
                                                 /\ Heard(At[c])' = Heard(At[c])
                                                 /\ bcast'[At[c]]["auth"] = bcast[At[c]]["auth"]
                           /\ Fresh(c)' => Fresh(c)
                           /\ rec'["auth"][c] \in {0, rec["auth"][c]},
           \A n \in Node : Heard(n)' \subseteq Heard(n),
           bcast' \in Bcasts, clock' = clock, lost' = lost, stalls' = stalls
    PROVE  LimInv'
<1>1. Kept(pipe, pipe', {}) /\ \A n \in Node : Line(n)' = Line(n)
  BY KeptSame DEF Line
<1>2. \A c \in Conn : LineOf(c)'
  BY <1>1, LineFrame DEF LimInv
<1>3. Dated'
  <2>1. ASSUME NEW c \in Conn, NEW t \in Nat, Has(c, t)' PROVE Has(c, t)
    <3>1. CASE t # 0 /\ rec'["auth"][c] = t
      <4>1. rec'["auth"][c] = rec["auth"][c]
        BY <3>1
      <4> QED
        BY <3>1, <4>1 DEF Has
    <3>2. CASE \E n \in Node : Add(c, t) \in Line(n)'
      BY <1>1, <3>2 DEF Has
    <3>3. CASE t # 0 /\ \E n \in Node : \E a \in Heard(n)' : a.cmd = "LIST" /\ a.recs[c] = t
      BY <3>3 DEF Has
    <3> QED
      BY <2>1, <3>1, <3>2, <3>3 DEF Has
  <2> QED
    BY <2>1, DatedFrame DEF LimInv
<1>4. Crowds'
  <2> SUFFICES ASSUME NEW O \in SUBSET Conn, Crowd(O)'
               PROVE  /\ Crowd(O)
                      /\ \A c \in O : /\ Doomed(c) => Doomed(c)'
                                      /\ Knows(c, O) => Knows(c, O)'
    BY CrowdStep DEF LimInv
  <2>1. ASSUME NEW c \in O PROVE /\ Listed(c)
                                 /\ Doomed(c) => Doomed(c)'
                                 /\ Knows(c, O) => Knows(c, O)'
    <3>1. c \in Conn /\ (c \in Online)' /\ At[c] \in Node /\ Cmd(c, "LIST") \notin Line(At[c])'
      BY DEF Crowd, Listed, ConstantsOK
    <3>2. c \in Online /\ Heard(At[c])' = Heard(At[c]) /\ bcast'[At[c]]["auth"] = bcast[At[c]]["auth"]
      BY <3>1
    <3> QED
      BY <1>1, <3>1, <3>2 DEF Listed, Doomed, Knows
  <2>2. Crowd(O)
    BY <2>1 DEF Crowd
  <2> QED
    BY <2>1, <2>2
<1> QED
  BY <1>2, <1>3, <1>4 DEF LimInv

LEMMA LimExpire ==
    ASSUME ConstantsOK, Strict, SessInv, SessInv', LimInv, NEW c \in Conn, NEW k \in Context,
           Expire(k, c)
    PROVE  LimInv'
<1>1. /\ ~up[At[c]] /\ rec' = [rec EXCEPT ![k] = [rec[k] EXCEPT ![c] = 0]]
      /\ UNCHANGED <<session, bev, peer, pipe, answers, bcast, clock, lost, stalls>>
  <2>1. stalls = 0 /\ MaxStall = 0
    BY DEF LimInv, Strict
  <2>2. ~(stalls < MaxStall)
    BY <2>1
  <2> QED
    BY <2>2 DEF Expire, socketVars, objectVars, wireVars
<1>2. session[c] = "none"
  BY <1>1, NotNew
<1>3. ASSUME NEW d \in Conn
      PROVE  /\ rec'["auth"][d] \in {0, rec["auth"][d]}
             /\ d # c => rec'["auth"][d] = rec["auth"][d]
  BY <1>1, Wired
<1>4. \A n \in Node : Heard(n)' = Heard(n)
  BY <1>1 DEF Heard
<1>5. ASSUME NEW d \in Conn PROVE /\ (d \in Online)' => d \in Online /\ d # c
                                  /\ Fresh(d)' => Fresh(d)
  BY <1>1, <1>2 DEF Online, Fresh
<1>6. bcast' \in Bcasts
  BY <1>1 DEF LimInv
<1> QED
  BY <1>1, <1>3, <1>4, <1>5, <1>6, FadeStep DEF ConstantsOK

LEMMA LimDie ==
    ASSUME ConstantsOK, SessInv, SessInv', LimInv, NEW n \in Node, Die(n)
    PROVE  LimInv'
<1>1. /\ bev' = bev \ Here(n)
      /\ peer' = [c \in Conn |-> IF c \in Here(n) /\ peer[c] = "up" THEN "gone" ELSE peer[c]]
      /\ session' = [c \in Conn |-> IF c \in Here(n) THEN "none" ELSE session[c]]
      /\ answers' = [answers EXCEPT ![n] = [k \in Context |-> <<>>]]
      /\ bcast' = [bcast EXCEPT ![n] = [k \in Context |-> <<>>]]
      /\ UNCHANGED <<pipe, rec, clock, lost, stalls>>
  BY DEF Die, Here
<1>2. /\ answers' \in [Node -> [Context -> Seq(Result)]]
      /\ bcast' \in [Node -> [Context -> Seq(Conn)]]
      /\ \A i \in Node : i # n => answers'[i] = answers[i] /\ bcast'[i] = bcast[i]
      /\ answers'[n] = [k \in Context |-> <<>>] /\ "auth" \in Context
  BY <1>1, Wired DEF LimInv, Bcasts
<1>3. /\ \A i \in Node : i # n => Heard(i)' = Heard(i)
      /\ Heard(n)' = {}
  BY <1>2 DEF Heard, Range
<1>4. ASSUME NEW d \in Conn PROVE /\ (d \in Online)' => d \in Online /\ At[d] # n
                                  /\ Fresh(d)' => Fresh(d)
  <2>1. (d \in Online)' => d \in Online /\ At[d] # n
    BY <1>1 DEF Online, Here
  <2>2. ASSUME Fresh(d)' PROVE Fresh(d)
    <3>1. d \in bev \/ peer[d] = "new"
      BY <1>1, <2>2 DEF Fresh
    <3>2. CASE d \notin Here(n)
      BY <1>1, <2>2, <3>1, <3>2 DEF Fresh
    <3>3. CASE d \in Here(n)
      <4>1. peer[d] = "new"
        BY <1>1, <2>2, <3>3 DEF Fresh
      <4> QED
        BY <4>1, NotNew DEF Fresh
    <3> QED
      BY <3>2, <3>3
  <2> QED
    BY <2>1, <2>2
<1>5. ASSUME NEW d \in Conn, (d \in Online)'
      PROVE  /\ Heard(At[d])' = Heard(At[d])
             /\ bcast'[At[d]]["auth"] = bcast[At[d]]["auth"]
  BY <1>2, <1>3, <1>4, <1>5 DEF ConstantsOK
<1>6. bcast' \in Bcasts
  BY <1>2 DEF Bcasts
<1>7. \A i \in Node : Heard(i)' \subseteq Heard(i)
  BY <1>3
<1>8. \A d \in Conn : rec'["auth"][d] = rec["auth"][d]
  BY <1>1
<1> QED
  BY <1>1, <1>4, <1>5, <1>6, <1>7, <1>8, FadeStep

\* A session is created, and adds its record before it lists the others.
LEMMA LimCreate ==
    ASSUME ConstantsOK, SessInv, SessInv', LimInv, NEW n \in Node, NEW c \in Conn, At[c] = n,
           session[c] = "none", c \in bev, session' = [session EXCEPT ![c] = "starting"],
           pipe' = With(pipe, n, "auth", <<Add(c, clock), Cmd(c, "LIST")>>), clock' = clock + 1,
           UNCHANGED <<bev, peer, answers, bcast, rec, lost, stalls>>
    PROVE  LimInv'
<1> DEFINE x == Add(c, clock)  y == Cmd(c, "LIST")  s == <<x, y>>
<1>1. /\ clock \in Nat /\ pipe \in AllPipes /\ "auth" \in Context
      /\ rec \in [Context -> [Conn -> Nat]] /\ bcast \in Bcasts
      /\ session \in [Conn -> {"none", "starting", "running", "stopped"}]
  BY Wired DEF LimInv
<1>2. /\ x \in Message /\ x.cmd = "ADD" /\ x.conn = c /\ x.stamp = clock
      /\ y \in Message /\ y.cmd = "LIST" /\ y.conn = c
  BY <1>1, Mine
<1>3. s \in Seq(Message) /\ Range(s) = {x, y}
  <2> HIDE DEF x, y
  <2> QED
    BY <1>2 DEF Range
<1>4. /\ \A i \in Node : i # n => pipe'[i]["auth"] = pipe[i]["auth"]
      /\ pipe'[n]["auth"] = pipe[n]["auth"] \o s
      /\ Line(n)' = Line(n) \cup {x, y}
      /\ pipe[n]["auth"] \in Seq(Message)
  <2> HIDE DEF s
  <2>1. pipe' = With(pipe, n, "auth", s)
    BY DEF s
  <2>2. /\ \A i \in Node : i # n => pipe'[i]["auth"] = pipe[i]["auth"]
        /\ pipe'[n]["auth"] = pipe[n]["auth"] \o s
        /\ Range(pipe'[n]["auth"]) = Range(pipe[n]["auth"]) \cup Range(s)
    <3> DEFINE w == With(pipe, n, "auth", s)
    <3>0. pipe \in AllPipes /\ "auth" \in Context /\ s \in Seq(Message)
      BY <1>1, <1>3
    <3>1. /\ \A i \in Node : i # n \/ "auth" # "auth" => w[i]["auth"] = pipe[i]["auth"]
          /\ "auth" = "auth" => /\ w[n]["auth"] = pipe[n]["auth"] \o s
                                /\ Range(w[n]["auth"]) = Range(pipe[n]["auth"]) \cup Range(s)
      BY SMTT(20), <3>0, WithLines
    <3> QED
      BY <2>1, <3>1
  <2> QED
    BY <1>1, <1>3, <2>2 DEF Line, AllPipes
<1>5. \A i \in Node : i # n => Line(i)' = Line(i)
  BY <1>4 DEF Line
<1>6. Fresh(c) /\ LineOf(c) /\ \A i \in Node : Unnamed(Line(i), c)
  BY DEF Fresh, LimInv, LineOf
<1>7. Sorted(pipe'[n]["auth"], c)
  <2>1. Unnamed(Range(pipe[n]["auth"]), c)
    BY <1>6 DEF Line
  <2> QED
    BY <1>1, <1>4, <2>1, SortedNew
<1>8. ASSUME NEW d \in Conn, d # c, Sorted(pipe[n]["auth"], d) PROVE Sorted(pipe'[n]["auth"], d)
  <2>1. \A m \in Range(s) : m.conn = d => m.cmd # "ADD"
    BY <1>2, <1>3, <1>8
  <2> HIDE DEF s
  <2>2. Sorted(pipe[n]["auth"] \o s, d)
    BY <1>3, <1>4, <1>8, <2>1, SortedConcat
  <2> QED
    BY <1>4, <2>2
<1>9. ASSUME NEW d \in Conn, d # c
      PROVE  /\ (d \in Online)' <=> d \in Online
             /\ Fresh(d)' => Fresh(d)
             /\ Cmd(d, "LIST") \notin {x, y} /\ Cmd(d, "DEL") \notin {x, y}
             /\ \A t \in Nat : Add(d, t) \notin {x, y}
             /\ LineOf(d) /\ At[d] \in Node
             /\ \A m \in {x, y} : m.conn # d
  <2>1. /\ (d \in Online)' <=> d \in Online
        /\ Fresh(d)' => Fresh(d)
    BY <1>1, <1>9 DEF Online, Fresh
  <2>2. /\ Cmd(d, "LIST").conn = d /\ Cmd(d, "DEL").conn = d
        /\ \A t \in Nat : Add(d, t).conn = d
    BY Mine
  <2>3. \A m \in {x, y} : m.conn # d
    BY <1>2, <1>9
  <2> QED
    BY <2>1, <2>2, <2>3 DEF LimInv, ConstantsOK
<1>10. ASSUME NEW d \in Conn, d # c PROVE LineOf(d)'
  <2> HIDE DEF x, y
  <2>1. \A i \in Node : i # At[d] \/ Fresh(d)' => Unnamed(Line(i), d)'
    <3> SUFFICES ASSUME NEW i \in Node, i # At[d] \/ Fresh(d)' PROVE Unnamed(Line(i), d)'
      OBVIOUS
    <3>1. Unnamed(Line(i), d)
      BY <1>9, <1>10 DEF LineOf
    <3>2. Line(i)' \subseteq Line(i) \cup {x, y}
      BY <1>4, <1>5
    <3>3. \A m \in {x, y} : m.conn # d
      BY <1>9, <1>10
    <3> QED
      BY <3>1, <3>2, <3>3 DEF Unnamed
  <2>2. Sorted(pipe'[At[d]]["auth"], d)
    BY <1>4, <1>8, <1>9, <1>10 DEF LineOf
  <2>3. /\ Adding(d)' <=> Adding(d)
        /\ Cmd(d, "LIST") \in Line(At[d])' <=> Cmd(d, "LIST") \in Line(At[d])
        /\ Cmd(d, "DEL") \in Line(At[d])' <=> Cmd(d, "DEL") \in Line(At[d])
    <3>1. At[d] \in Node /\ (Line(At[d])' = Line(At[d]) \/ Line(At[d])' = Line(At[d]) \cup {x, y})
      BY <1>4, <1>5, <1>9, <1>10
    <3> QED
      BY <1>9, <1>10, <3>1 DEF Adding
  <2> QED
    BY <1>9, <1>10, <2>1, <2>2, <2>3 DEF LineOf
<1>11. LineOf(c)'
  <2>1. \A i \in Node : i # At[c] \/ Fresh(c)' => Unnamed(Line(i), c)'
    <3>1. ~Fresh(c)'
      BY <1>1 DEF Fresh
    <3> QED
      BY <1>5, <1>6, <3>1 DEF Unnamed
  <2>2. Adding(c)' /\ y \in Line(n)'
    BY <1>1, <1>4 DEF Adding
  <2>3. Cmd(c, "DEL") \notin Line(n)'
    <3>1. Cmd(c, "DEL") \notin Line(n)
      <4>1. Cmd(c, "DEL").conn = c /\ Cmd(c, "DEL").cmd = "DEL"
        BY Mine
      <4>2. Unnamed(Line(n), c)
        BY <1>6
      <4> QED
        BY <4>1, <4>2 DEF Unnamed
    <3>2. Cmd(c, "DEL") # x /\ Cmd(c, "DEL") # y
      BY <1>2, Mine
    <3> QED
      BY <1>4, <3>1, <3>2
  <2> QED
    BY <1>7, <2>1, <2>2, <2>3 DEF LineOf
<1>12. Dated'
  <2>1. ASSUME NEW d \in Conn, NEW t \in Nat, Has(d, t)' PROVE Has(d, t) \/ (d = c /\ t = clock)
    <3>1. CASE t # 0 /\ rec'["auth"][d] = t
      BY <3>1 DEF Has
    <3>2. ASSUME NEW i \in Node, Add(d, t) \in Line(i)' PROVE Has(d, t) \/ (d = c /\ t = clock)
      <4>1. CASE Add(d, t) \in Line(i)
        BY <4>1 DEF Has
      <4>2. CASE Add(d, t) \notin Line(i)
        <5>1. Add(d, t) = x \/ Add(d, t) = y
          BY <1>4, <1>5, <3>2, <4>2
        <5> HIDE DEF x, y
        <5>2. Add(d, t).cmd = "ADD" /\ Add(d, t).conn = d /\ Add(d, t).stamp = t
          BY Mine
        <5> QED
          BY <1>2, <5>1, <5>2
      <4> QED
        BY <4>1, <4>2
    <3>3. CASE t # 0 /\ \E i \in Node : \E a \in Heard(i)' : a.cmd = "LIST" /\ a.recs[d] = t
      BY <3>3 DEF Has, Heard
    <3> QED
      BY <2>1, <3>1, <3>2, <3>3 DEF Has
  <2>2. Dated
    BY DEF LimInv
  <2>3. clock # 0 /\ clock' # 0
    BY <1>1, <2>2 DEF Dated
  <2>4. ASSUME NEW d \in Conn, NEW t \in Nat, Has(d, t)'
        PROVE  t # 0 /\ t < clock'
    <3>1. CASE Has(d, t)
      <4>1. t # 0 /\ t < clock
        BY <2>2, <3>1 DEF Dated
      <4> QED
        BY <1>1, <4>1
    <3>2. CASE t = clock
      BY <1>1, <2>3, <3>2
    <3> QED
      BY <2>1, <2>4, <3>1, <3>2
  <2>5. ASSUME NEW d \in Conn, NEW e \in Conn, NEW t \in Nat, Has(d, t)', Has(e, t)' PROVE d = e
    <3>1. \A f \in Conn : Has(f, t) => t < clock /\ t # clock
      <4>1. \A f \in Conn : Has(f, t) => t < clock
        BY <2>2 DEF Dated
      <4>2. t < clock => t # clock
        BY <1>1
      <4> QED
        BY <4>1, <4>2
    <3>2. Has(d, t) /\ Has(e, t) => d = e
      BY <2>2 DEF Dated
    <3> QED
      BY <2>1, <2>5, <3>1, <3>2
  <2> QED
    BY <2>3, <2>4, <2>5 DEF Dated
<1>13. Crowds'
  <2> HIDE DEF x, y
  <2> SUFFICES ASSUME NEW O \in SUBSET Conn, Crowd(O)'
               PROVE  /\ Crowd(O)
                      /\ \A d \in O : /\ Doomed(d) => Doomed(d)'
                                      /\ Knows(d, O) => Knows(d, O)'
    BY CrowdStep DEF LimInv
  <2>0. y \in Line(n)'
    BY <1>4
  <2>1. ASSUME NEW d \in O PROVE /\ Listed(d)
                                 /\ Doomed(d) => Doomed(d)'
                                 /\ Knows(d, O) => Knows(d, O)'
    <3>1. d \in Conn /\ (d \in Online)' /\ Cmd(d, "LIST") \notin Line(At[d])'
      BY DEF Crowd, Listed
    <3>2. d # c
      BY <2>0, <3>1 DEF y
    <3>3. \A i \in Node : Line(i) \subseteq Line(i)' /\ Heard(i)' = Heard(i)
      BY <1>4, <1>5 DEF Heard
    <3>4. At[d] \in Node
      BY <1>9, <3>1, <3>2
    <3>5. Listed(d)
      BY <1>9, <3>1, <3>2, <3>3, <3>4 DEF Listed
    <3>6. Doomed(d) => Doomed(d)'
      BY <3>3 DEF Doomed
    <3>7. Knows(d, O) => Knows(d, O)'
      BY <3>3, <3>4 DEF Knows
    <3> QED
      BY <3>5, <3>6, <3>7
  <2>2. Crowd(O)
    BY <2>1 DEF Crowd
  <2> QED
    BY <2>1, <2>2
<1>14. bcast' \in Bcasts /\ lost' = 0 /\ stalls' = 0
  BY <1>1 DEF LimInv
<1> QED
  BY <1>10, <1>11, <1>12, <1>13, <1>14 DEF LimInv

LEMMA LimRequest ==
    ASSUME ConstantsOK, Strict, SessInv, SessInv', LimInv, NEW n \in Node, Request_Process_Cb(n)
    PROVE  LimInv'
<1>0. PICK m, c : m = Head(queue[n]) /\ c = m.conn
  OBVIOUS
<1>1. /\ queue[n] # <<>> /\ queue \in Queues /\ queue' = [queue EXCEPT ![n] = Tail(@)]
      /\ UNCHANGED <<peer, answers, bcast, rec, lost, stalls>> /\ bcast \in Bcasts
      /\ \/ /\ m.op = "CREATE" /\ session' = [session EXCEPT ![c] = "starting"]
            /\ pipe' = With(pipe, n, "auth", <<Add(c, clock), Cmd(c, "LIST")>>)
            /\ clock' = clock + 1 /\ bev' = bev
         \/ /\ m.op = "DESTROY" /\ session' = [session EXCEPT ![c] = "none"]
            /\ bev' = bev \ {c} /\ UNCHANGED <<pipe, clock>>
  <2>1. ~SameSecond
    BY DEF Strict
  <2> QED
    BY <1>0, <2>1 DEF Request_Process_Cb, add_login_record, Add, SessInv, Types, faultVars, LimInv
<1>2. c \in Conn /\ At[c] = n /\ Doing(queue, m.op, c) # 0
  BY <1>0, <1>1, PopEffect
<1>3. up[n]
  <2>1. ~Dead(n)
    BY <1>1 DEF Dead
  <2> QED
    BY <2>1 DEF SessInv
<1>4. Owned(c) /\ session[c] \in {"none", "starting", "running", "stopped"}
  BY <1>2, <1>3 DEF SessInv, Types
<1>5. CASE m.op = "CREATE"
  <2>1. Doing(queue, "CREATE", c) # 0
    BY <1>2, <1>5
  <2>2. session[c] = "none" /\ c \in bev
    BY <1>4, <2>1, OneOwner
  <2> QED
    BY <1>1, <1>2, <1>5, <2>2, LimCreate
<1>6. CASE m.op = "DESTROY"
  <2>1. session[c] = "stopped"
    BY <1>2, <1>4, <1>6 DEF Owned, Num
  <2>2. peer[c] # "new"
    BY <1>2, <2>1, NotNew
  <2>3. /\ session' = [session EXCEPT ![c] = "none"]
        /\ bev' = bev \ {c} /\ UNCHANGED <<pipe, clock>>
    BY <1>1, <1>6
  <2>4. ASSUME NEW d \in Conn PROVE /\ (d \in Online)' => d \in Online
                                    /\ Fresh(d)' => Fresh(d)
    BY <1>1, <1>4, <2>2, <2>3, Wired DEF Online, Fresh
  <2>5. Kept(pipe, pipe', {}) /\ Grows(pipe, pipe')
    BY <2>3, KeptSame
  <2>6. \A i \in Node : Heard(i)' = Heard(i)
    BY <1>1 DEF Heard
  <2> QED
    BY <1>1, <2>3, <2>4, <2>5, <2>6, CalmQuiet
<1> QED
  BY <1>1, <1>5, <1>6

-----------------------------------------------------------------------------
(* Who is too much is kicked.                                              *)

\* Every kick that is called for is sent.
LEMMA KickAll ==
    ASSUME ConstantsOK, NEW V, V \subseteq Conn, NEW v \in V
    PROVE  Cmd(v, "KICK") \in Range(SetToSeq({Cmd(w, "KICK") : w \in V}))
<1> DEFINE K == {Cmd(w, "KICK") : w \in V}
           f == [w \in V |-> Cmd(w, "KICK")]
           s == SetToSeq(K)  k == Cardinality(K)
<1>1. IsFiniteSet(V) /\ Cmd(v, "KICK") \in K
  BY FS_Subset DEF ConstantsOK
<1>2. f \in Surjection(V, K)
  <2>1. f \in [V -> K] /\ \A m \in K : \E w \in V : f[w] = m
    OBVIOUS
  <2> QED
    BY <2>1 DEF Surjection
<1> HIDE DEF K, f
<1>3. IsFiniteSet(K)
  BY <1>1, <1>2, FS_Surjection
<1>4. k \in Nat /\ ExistsBijection(1 .. k, K)
  BY <1>3, FS_CardinalityType
<1>5. \E g \in [1 .. k -> K] : IsInjective(g)
  BY <1>4 DEF ExistsBijection, Bijection, Injection
<1>6. s \in [1 .. k -> K] /\ IsInjective(s)
  BY <1>5 DEF SetToSeq
<1> HIDE DEF s, k
<1>7. s \in Injection(1 .. k, K)
  BY <1>6 DEF Injection
<1>8. Cardinality(1 .. k) = Cardinality(K)
  BY <1>4, FS_Interval DEF k
<1>9. s \in Surjection(1 .. k, K)
  BY <1>3, <1>7, <1>8, FS_Injection
<1>10. DOMAIN s = 1 .. k /\ \A m \in K : \E i \in 1 .. k : s[i] = m
  BY <1>6, <1>9 DEF Surjection
<1> QED
  BY <1>1, <1>10 DEF Range, s, K

\* Among the connections of a set one has logged in last, and one first.
LEMMA Latest ==
    ASSUME NEW O, IsFiniteSet(O), O # {}, NEW r, \A d \in O : r[d] \in Int
    PROVE  \E y \in O : \A d \in O : r[d] =< r[y]
<1> DEFINE Later(y) == {d \in O : r[d] > r[y]}
           S == {Later(y) : y \in O}
<1>1. S \subseteq FiniteSubsetsOf(O) /\ S # {}
  <2>1. \A y \in O : Later(y) \in SUBSET O
    OBVIOUS
  <2> HIDE DEF Later
  <2>2. \A y \in O : IsFiniteSet(Later(y))
    BY <2>1, FS_Subset
  <2> QED
    BY <2>1, <2>2 DEF FiniteSubsetsOf
<1>2. IsWellFoundedOn(StrictSubsetOrdering(O), FiniteSubsetsOf(O))
  BY FS_StrictSubsetOrderingWellFounded
<1>3. PICK X \in S : \A Y \in S : <<Y, X>> \notin StrictSubsetOrdering(O)
  <2> HIDE DEF S
  <2> QED
    BY <1>1, <1>2, WFMin
<1>4. PICK y \in O : X = Later(y)
  BY <1>3
<1>5. ASSUME NEW d \in O, ~(r[d] =< r[y]) PROVE FALSE
  <2>1. d \in Later(y) /\ d \notin Later(d)
    BY <1>5
  <2>2. Later(d) \subseteq Later(y)
    BY <1>5
  <2>3. Later(d) \in SUBSET O /\ Later(y) \in SUBSET O /\ Later(d) \in S
    OBVIOUS
  <2> HIDE DEF Later, S
  <2>4. <<Later(d), Later(y)>> \in StrictSubsetOrdering(O)
    BY <2>1, <2>2, <2>3 DEF StrictSubsetOrdering
  <2> QED
    BY <1>3, <1>4, <2>3, <2>4
<1> QED
  BY <1>5

LEMMA Earliest ==
    ASSUME NEW O, IsFiniteSet(O), O # {}, NEW r, \A d \in O : r[d] \in Int
    PROVE  \E y \in O : \A d \in O : r[y] =< r[d]
<1> DEFINE s == [d \in O |-> -r[d]]
<1>1. \A d \in O : s[d] = -r[d] /\ s[d] \in Int
  OBVIOUS
<1> HIDE DEF s
<1>2. PICK y \in O : \A d \in O : s[d] =< s[y]
  BY <1>1, Latest
<1> QED
  BY <1>1, <1>2

\* Who sees more records than allowed takes these logins for too many: with
\* protection the last of them is reported for its own record, without it the
\* second for the record that is erased right before it.
LEMMA Overfull ==
    ASSUME ConstantsOK, NEW r \in [Conn -> Nat], NEW O \in SUBSET Conn, Cardinality(O) > Limit,
           \A d \in O : r[d] # 0,
           \A c, d \in Conn : r[c] # 0 /\ r[c] = r[d] => c = d,
           NEW b \in BOOLEAN
    PROVE  \E y \in O : \E t \in Erased(r, b) : Reported(r, b, t) = {y}
<1>1. /\ IsFiniteSet(Conn) /\ IsFiniteSet(O) /\ Cardinality(O) \in Nat /\ Limit \in Nat
      /\ Limit # 0 /\ \A S \in SUBSET Conn : IsFiniteSet(S) /\ Cardinality(S) \in Nat
  BY FS_Subset, FS_CardinalityType DEF ConstantsOK
<1>2. O # {} /\ \A d \in Conn : r[d] \in Int
  BY <1>1, FS_EmptySet
<1>3. CASE b = TRUE
  <2>1. PICK y \in O : \A d \in O : r[d] =< r[y]
    BY <1>1, <1>2, Latest
  <2> DEFINE t == r[y]  U == UpTo(r, t)
  <2>2. U \in SUBSET Conn /\ O \in SUBSET U /\ t \in {r[c] : c \in Present(r)}
    BY <2>1 DEF UpTo, Present
  <2> HIDE DEF U
  <2>3. Cardinality(U) > Limit
    <3>1. IsFiniteSet(U) /\ Cardinality(U) \in Nat
      BY <1>1, <2>2
    <3>2. Cardinality(O) =< Cardinality(U)
      BY <2>2, <3>1, FS_Subset
    <3> QED
      BY <1>1, <3>1, <3>2
  <2>4. t \in Erased(r, TRUE)
    BY <2>2, <2>3 DEF Erased, U
  <2>5. Reported(r, TRUE, t) = {y}
    BY DEF Reported, Present
  <2> QED
    BY <1>3, <2>4, <2>5
<1>4. CASE b = FALSE
  <2>1. PICK x \in O : \A d \in O : r[x] =< r[d]
    BY <1>1, <1>2, Earliest
  <2> DEFINE P == O \ {x}
  <2>2. P \in SUBSET Conn /\ Cardinality(P) = Cardinality(O) - 1 /\ P # {}
    <3>1. IsFiniteSet(P) /\ Cardinality(P) = Cardinality(O) - 1
      BY <1>1, FS_RemoveElement
    <3> QED
      BY <1>1, <3>1, FS_EmptySet
  <2>3. PICK y \in P : \A d \in P : r[y] =< r[d]
    <3> HIDE DEF P
    <3>1. IsFiniteSet(P) /\ \A d \in P : r[d] \in Int
      BY <1>1, <1>2, <2>2
    <3> QED
      BY <2>2, <3>1, Earliest
  <2>4. y \in O /\ r[x] < r[y]
    <3>1. y \in O /\ x # y /\ x \in Conn /\ y \in Conn /\ r[x] =< r[y] /\ r[x] # 0
      BY <2>1, <2>3
    <3> QED
      BY <3>1
  <2> DEFINE Q == {d \in Present(r) : r[d] < r[y]}
  <2>5. x \in Q /\ Q \in SUBSET Conn
    BY <2>4 DEF Present
  <2>6. PICK q \in Q : \A d \in Q : r[d] =< r[q]
    <3> HIDE DEF Q
    <3>1. IsFiniteSet(Q) /\ Q # {} /\ \A d \in Q : r[d] \in Int
      BY <1>1, <1>2, <2>5
    <3> QED
      BY <3>1, Latest
  <2> DEFINE t == r[q]  U == From(r, t)  W == P \cup {q}
  <2>7. /\ q \in Conn /\ q \in Present(r) /\ t < r[y] /\ t \in Nat
        /\ \A d \in Present(r) : r[d] < r[y] => r[d] =< t
    BY <2>6 DEF Present
  <2>8. q \notin P /\ U \in SUBSET Conn /\ W \in SUBSET U
    BY <2>3, <2>7 DEF From, Present
  <2> HIDE DEF U, P, Q
  <2>9. Cardinality(U) > Limit
    <3>1. IsFiniteSet(U) /\ IsFiniteSet(P) /\ Cardinality(U) \in Nat
      BY <1>1, <2>2, <2>8
    <3>2. Cardinality(W) = Cardinality(P) + 1
      BY <2>8, <3>1, FS_AddElement
    <3> HIDE DEF W
    <3>3. Cardinality(W) =< Cardinality(U)
      BY <2>8, <3>1, FS_Subset
    <3> QED
      BY <1>1, <2>2, <3>1, <3>2, <3>3
  <2>10. t \in Erased(r, FALSE)
    BY <2>7, <2>9 DEF Erased, U
  <2>11. Reported(r, FALSE, t) = {y}
    <3>1. y \in Present(r) /\ y \in Conn /\ r[y] \in Nat
      BY <2>4 DEF Present
    <3>2. y \in After(r, t)
      BY <2>7, <3>1 DEF After, Present
    <3>3. ASSUME NEW c \in After(r, t) PROVE c = y
      <4>1. c \in Conn /\ r[c] # 0 /\ r[c] \in Nat /\ r[c] > t /\ r[c] =< r[y] /\ c \in Present(r)
        BY <2>7, <3>1 DEF After, Present
      <4>2. ~(r[c] < r[y])
        BY <2>7, <4>1
      <4>3. r[c] = r[y]
        BY <3>1, <4>1, <4>2
      <4> QED
        BY <3>1, <4>1, <4>3
    <3> QED
      BY <3>2, <3>3 DEF Reported
  <2> QED
    BY <1>4, <2>4, <2>10, <2>11
<1> QED
  BY <1>3, <1>4

\* One of them is a victim.
LEMMA Caught ==
    ASSUME ConstantsOK, NEW r \in [Conn -> Nat], NEW O \in SUBSET Conn, Cardinality(O) > Limit,
           \A d \in O : r[d] # 0,
           \A c, d \in Conn : r[c] # 0 /\ r[c] = r[d] => c = d,
           NEW b \in BOOLEAN, NEW V \in Victims(r, b)
    PROVE  \E y \in O : y \in V
<1>1. PICK y \in O, t \in Erased(r, b) : Reported(r, b, t) = {y}
  BY Overfull
<1> DEFINE T == {u \in Erased(r, b) : Reported(r, b, u) # {}}
<1>2. PICK f \in {g \in [T -> Conn] : \A u \in T : g[u] \in Reported(r, b, u)} :
         V = {f[u] : u \in T}
  BY DEF Victims
<1>3. t \in T
  BY <1>1
<1> HIDE DEF T
<1>4. f[t] = y
  BY <1>1, <1>2, <1>3
<1> QED
  BY <1>2, <1>3, <1>4

\* What a step that takes an answer about the records, and kicks those in V, keeps.
LEMMA KickStep ==
    ASSUME ConstantsOK, SessInv, SessInv', LimInv, NEW n \in Node, NEW a \in Result,
           a.cmd = "LIST", Heard(n) = Heard(n)' \cup {a},
           \A i \in Node : i # n => Heard(i)' = Heard(i),
           NEW D, Kept(pipe, pipe', D), Grows(pipe, pipe'),
           \A d \in Conn : /\ d \in D => ~(d \in Online)' /\ ~Fresh(d)'
                           /\ (d \in Online)' => d \in Online
                           /\ Fresh(d)' => Fresh(d),
           NEW V, \A v \in V : Cmd(v, "KICK") \in Line(n)',
           NEW b \in BOOLEAN, a.recs[a.conn] = 0 \/ V \in Victims(a.recs, b),
           UNCHANGED <<bcast, rec, clock, lost, stalls>>
    PROVE  LimInv'
<1>1. \A d \in Conn : LineOf(d)'
  BY LineFrame DEF LimInv
<1>2. Dated'
  <2>1. ASSUME NEW d \in Conn, NEW t \in Nat, Has(d, t)' PROVE Has(d, t)
    <3>1. CASE t # 0 /\ rec'["auth"][d] = t
      BY <3>1 DEF Has
    <3>2. CASE \E i \in Node : Add(d, t) \in Line(i)'
      <4>1. Add(d, t) \in Message /\ Add(d, t).cmd = "ADD"
        BY Mine
      <4>2. \A i \in Node : Add(d, t) \in Line(i)' => Add(d, t) \in Line(i)
        BY <4>1 DEF Kept, Line
      <4> QED
        BY <3>2, <4>2 DEF Has
    <3>3. CASE t # 0 /\ \E i \in Node : \E x \in Heard(i)' : x.cmd = "LIST" /\ x.recs[d] = t
      <4>1. \A i \in Node : Heard(i)' \subseteq Heard(i)
        OBVIOUS
      <4> QED
        BY <3>3, <4>1 DEF Has
    <3> QED
      BY <2>1, <3>1, <3>2, <3>3 DEF Has
  <2> QED
    BY <2>1, DatedFrame DEF LimInv
<1>3. Crowds'
  <2> SUFFICES ASSUME NEW O \in SUBSET Conn, Crowd(O)'
               PROVE  /\ Crowd(O)
                      /\ \A c \in O : /\ Doomed(c) => Doomed(c)'
                                      /\ Knows(c, O) => Knows(c, O)' \/ \E d \in O : Doomed(d)'
    BY CrowdStep DEF LimInv
  <2>1. ASSUME NEW c \in O PROVE Listed(c)
    <3>1. c \in Conn /\ (c \in Online)' /\ Cmd(c, "LIST") \notin Line(At[c])' /\ At[c] \in Node
      BY DEF Crowd, Listed, ConstantsOK
    <3>2. Cmd(c, "LIST") \notin Line(At[c])
      BY <3>1, Mine DEF Kept, Line
    <3> QED
      BY <3>1, <3>2 DEF Listed
  <2>2. Crowd(O)
    BY <2>1 DEF Crowd
  <2>3. ASSUME NEW c \in O, Doomed(c) PROVE Doomed(c)'
    BY <2>3 DEF Doomed, Grows, Line
  <2>4. ASSUME NEW c \in O, Knows(c, O) PROVE Knows(c, O)' \/ \E d \in O : Doomed(d)'
    <3>1. PICK x \in Heard(At[c]) : x.cmd = "LIST" /\ x.conn = c /\ \A d \in O : x.recs[d] # 0
      BY <2>4 DEF Knows
    <3>2. CASE x \in Heard(At[c])'
      BY <3>1, <3>2 DEF Knows
    <3>3. CASE x \notin Heard(At[c])'
      <4>1. At[c] = n /\ x = a
        BY <3>1, <3>3 DEF ConstantsOK
      <4>2. V \in Victims(a.recs, b) /\ \A d \in O : a.recs[d] # 0
        BY <3>1, <4>1
      <4>3. a.recs \in [Conn -> Nat] /\ Cardinality(O) > Limit
        BY <2>2 DEF Result, Crowd
      <4>4. ASSUME NEW d \in Conn, NEW e \in Conn, a.recs[d] # 0, a.recs[d] = a.recs[e]
            PROVE  d = e
        <5>1. a.recs[d] \in Nat /\ a \in Heard(n)
          BY <4>3
        <5>2. Has(d, a.recs[d]) /\ Has(e, a.recs[d])
          BY <4>4, <5>1 DEF Has
        <5> QED
          BY <5>1, <5>2 DEF LimInv, Dated
      <4>5. PICK y \in O : y \in V
        BY <4>2, <4>3, <4>4, Caught
      <4>6. Doomed(y)'
        BY <4>5 DEF Doomed
      <4> QED
        BY <4>6
    <3> QED
      BY <3>2, <3>3
  <2> QED
    BY <2>2, <2>3, <2>4
<1> QED
  BY <1>1, <1>2, <1>3 DEF LimInv

LEMMA LimAddLogin ==
    ASSUME ConstantsOK, SessInv, SessInv', LimInv, NEW n \in Node,
           Redis_Add_Login_Callback(n)
    PROVE  LimInv'
<1>0. PICK a, c, b : /\ a = Head(answers[n]["auth"]) /\ c = a.conn
                     /\ b = (Kind[c] \in Protected)
  OBVIOUS
<1> DEFINE Kicks(V) == With(pipe, n, "auth", SetToSeq({Cmd(v, "KICK") : v \in V}))
<1>1. /\ Handles(n, "auth", "LIST") /\ "auth" \in Context
      /\ UNCHANGED <<bev, peer, bcast, rec, clock, lost, stalls>>
      /\ \/ a.recs[c] = 0 /\ pipe' = Kicks({c}) /\ session' = session
         \/ \E V \in Victims(a.recs, b) :
                \/ pipe' = Kicks(V) /\ session' = session
                \/ AuthLoginOk(c, Kicks(V))
  BY <1>0 DEF Redis_Add_Login_Callback, socketVars, objectVars, faultVars, Context
<1>2. /\ a \in Result /\ a.cmd = "LIST" /\ Heard(n) = Heard(n)' \cup {a}
      /\ \A i \in Node : i # n => Heard(i)' = Heard(i)
  BY <1>0, <1>1, HeardTail
<1>3. c \in Conn /\ At[c] \in Node /\ b \in BOOLEAN
  BY <1>0, <1>2 DEF Result, ConstantsOK
<1>4. ASSUME NEW V \in SUBSET Conn
      PROVE  /\ Kicks(V) \in AllPipes
             /\ \A D : Kept(pipe, Kicks(V), D) /\ Grows(pipe, Kicks(V))
             /\ \A v \in V : Cmd(v, "KICK") \in Range(Kicks(V)[n]["auth"])
  <2> DEFINE s == SetToSeq({Cmd(v, "KICK") : v \in V})
  <2>1. s \in Seq(Message) /\ pipe \in AllPipes
    <3>1. s \in Seq(Silent)
      BY KickSeq
    <3> HIDE DEF s
    <3>2. s \in Seq(Message)
      BY <3>1 DEF Silent
    <3> QED
      BY <3>2, Wired
  <2>2. \A m \in Range(s) : m.cmd = "KICK"
    <3> DEFINE K == {Cmd(v, "KICK") : v \in V}
    <3>1. \A m \in K : m.cmd = "KICK"
      BY DEF Cmd
    <3>2. s \in Seq(K)
      BY KickSeq
    <3> HIDE DEF K, s
    <3>3. Range(s) \subseteq K
      BY <3>2 DEF Range
    <3> QED
      BY <3>1, <3>3
  <2>3. \A v \in V : Cmd(v, "KICK") \in Range(s)
    BY KickAll
  <2> HIDE DEF s
  <2> DEFINE w == With(pipe, n, "auth", s)
  <2>4. /\ w \in AllPipes
        /\ "auth" = "auth" => /\ w[n]["auth"] = pipe[n]["auth"] \o s
                              /\ Range(w[n]["auth"]) = Range(pipe[n]["auth"]) \cup Range(s)
    BY <1>1, <2>1, WithLines
  <2>5. ASSUME NEW D PROVE Kept(pipe, w, D) /\ Grows(pipe, w)
    BY <1>1, <2>1, <2>2, WithKept
  <2> QED
    BY <2>3, <2>4, <2>5 DEF s
<1> HIDE DEF Kicks
<1>5. ASSUME NEW V \in SUBSET Conn, NEW D, Kept(Kicks(V), pipe', D), Grows(Kicks(V), pipe'),
             a.recs[c] = 0 \/ V \in Victims(a.recs, b),
             \A d \in Conn : /\ d \in D => ~(d \in Online)' /\ ~Fresh(d)'
                             /\ (d \in Online)' => d \in Online
                             /\ Fresh(d)' => Fresh(d)
      PROVE  LimInv'
  <2>1. Kept(pipe, pipe', D) /\ Grows(pipe, pipe')
    BY <1>4, <1>5, KeptTrans
  <2>2. \A v \in V : Cmd(v, "KICK") \in Line(n)'
    BY <1>4, <1>5 DEF Grows, Line
  <2> QED
    BY <1>0, <1>1, <1>2, <1>3, <1>5, <2>1, <2>2, KickStep
<1>6. ASSUME session' = session
      PROVE  \A d \in Conn : /\ (d \in Online)' => d \in Online
                             /\ Fresh(d)' => Fresh(d)
  BY <1>1, <1>6 DEF Online, Fresh
<1>7. ASSUME NEW V \in SUBSET Conn, a.recs[c] = 0 \/ V \in Victims(a.recs, b),
             pipe' = Kicks(V), session' = session
      PROVE  LimInv'
  <2>0. PICK D : D = {}
    OBVIOUS
  <2>1. Kept(Kicks(V), pipe', D) /\ Grows(Kicks(V), pipe')
    BY <1>7, KeptSame
  <2>2. \A d \in Conn : /\ d \in D  => ~(d \in Online)' /\ ~Fresh(d)'
                        /\ (d \in Online)' => d \in Online
                        /\ Fresh(d)' => Fresh(d)
    BY <1>6, <1>7, <2>0
  <2>3. a.recs[c] = 0 \/ V \in Victims(a.recs, b)
    BY <1>7
  <2> QED
    BY <1>5, <2>1, <2>2, <2>3
<1>8. ASSUME NEW V \in SUBSET Conn, V \in Victims(a.recs, b), AuthLoginOk(c, Kicks(V))
      PROVE  LimInv'
  <2>1. CASE session[c] = "none" /\ pipe' = Kicks(V) /\ UNCHANGED objectVars
    BY <1>7, <1>8, <2>1 DEF objectVars
  <2>2. CASE session[c] # "none" /\ Stop(c, Kicks(V), FALSE)
    <3>1. Types /\ c \in bev /\ peer[c] # "new" /\ Kicks(V) \in AllPipes
      BY <1>3, <1>4, <2>2, NotNew DEF SessInv
    <3>2. /\ Kept(Kicks(V), pipe', {c}) /\ Grows(Kicks(V), pipe') /\ session'[c] = "stopped"
          /\ \A d \in Conn : /\ (d \in Online)' => d \in Online
                             /\ Fresh(d)' => Fresh(d)
      BY <1>1, <1>3, <2>2, <3>1, StopKept
    <3>3. ~(c \in Online)' /\ ~Fresh(c)'
      BY <3>2 DEF Online, Fresh
    <3>4. \A d \in Conn : /\ d \in {c} => ~(d \in Online)' /\ ~Fresh(d)'
                          /\ (d \in Online)' => d \in Online
                          /\ Fresh(d)' => Fresh(d)
      BY <3>2, <3>3
    <3>5. a.recs[c] = 0 \/ V \in Victims(a.recs, b)
      BY <1>8
    <3>6. Kept(Kicks(V), pipe', {c}) /\ Grows(Kicks(V), pipe')
      BY <3>2
    <3> QED
      BY <1>5, <3>4, <3>5, <3>6
  <2>3. CASE /\ pipe' = With(Kicks(V), At[c], "core", register_channel(c))
             /\ UNCHANGED <<session, logins, queue, woken>>
    <3>1. register_channel(c) \in Seq(Message) /\ "core" \in Context
      <4>1. [cmd |-> "ADD", conn |-> c, stamp |-> 1] \in Message /\ Cmd(c, "LIST") \in Message
        BY <1>3 DEF Cmd, Message
      <4> QED
        BY <4>1 DEF register_channel, Context
    <3> DEFINE s == register_channel(c)
    <3>2. s \in Seq(Message)
      BY <3>1
    <3> HIDE DEF s
    <3>3. /\ Kept(Kicks(V), With(Kicks(V), At[c], "core", s), {})
          /\ Grows(Kicks(V), With(Kicks(V), At[c], "core", s))
      BY <1>3, <1>4, <3>1, <3>2, WithKept
    <3>0. PICK D : D = {}
      OBVIOUS
    <3>4. Kept(Kicks(V), pipe', D) /\ Grows(Kicks(V), pipe')
      BY <2>3, <3>0, <3>3 DEF s
    <3>5. \A d \in Conn : /\ d \in D  => ~(d \in Online)' /\ ~Fresh(d)'
                          /\ (d \in Online)' => d \in Online
                          /\ Fresh(d)' => Fresh(d)
      BY <1>6, <2>3, <3>0
    <3>6. a.recs[c] = 0 \/ V \in Victims(a.recs, b)
      BY <1>8
    <3> QED
      BY <1>5, <3>4, <3>5, <3>6
  <2> QED
    BY <1>8, <2>1, <2>2, <2>3 DEF AuthLoginOk
<1>9. ASSUME NEW V \in Victims(a.recs, b) PROVE V \in SUBSET Conn
  <2> DEFINE T == {t \in Erased(a.recs, b) : Reported(a.recs, b, t) # {}}
  <2>1. PICK f \in {g \in [T -> Conn] : \A t \in T : g[t] \in Reported(a.recs, b, t)} :
           V = {f[t] : t \in T}
    BY DEF Victims
  <2> HIDE DEF T
  <2>2. f \in [T -> Conn]
    BY <2>1
  <2> QED
    BY <2>1, <2>2
<1>10. CASE a.recs[c] = 0 /\ pipe' = Kicks({c}) /\ session' = session
  BY <1>3, <1>7, <1>10
<1>11. CASE \E V \in Victims(a.recs, b) :
               \/ pipe' = Kicks(V) /\ session' = session
               \/ AuthLoginOk(c, Kicks(V))
  <2>1. PICK V \in Victims(a.recs, b) : \/ pipe' = Kicks(V) /\ session' = session
                                        \/ AuthLoginOk(c, Kicks(V))
    BY <1>11
  <2> QED
    BY <1>7, <1>8, <1>9, <2>1
<1> QED
  BY <1>1, <1>10, <1>11

LEMMA LimInvInit == ASSUME ConstantsOK, Init PROVE LimInv
<1>1. /\ bcast = [n \in Node |-> [k \in Context |-> <<>>]] /\ bcast \in Bcasts
      /\ lost = 0 /\ stalls = 0 /\ clock = 1
      /\ \A c \in Conn : session[c] = "none" /\ rec["auth"][c] = 0
      /\ \A n \in Node : pipe[n]["auth"] = <<>> /\ answers[n]["auth"] = <<>>
  BY DEF Init, Bcasts, Context
<1>2. \A n \in Node : Line(n) = {} /\ Heard(n) = {}
  BY <1>1 DEF Line, Heard, Range
<1>3. \A c \in Conn : c \notin Online
  BY <1>1 DEF Online
<1>4. ASSUME NEW c \in Conn PROVE LineOf(c)
  <2>1. At[c] \in Node
    BY DEF ConstantsOK
  <2>2. ~Adding(c)
    BY <1>2, <2>1 DEF Adding
  <2>3. Sorted(pipe[At[c]]["auth"], c)
    BY <1>1, <2>1 DEF Sorted
  <2> QED
    BY <1>2, <1>3, <2>2, <2>3 DEF LineOf, Unnamed
<1>5. Dated
  <2>1. \A c \in Conn : \A t \in Nat : ~Has(c, t)
    BY <1>1, <1>2 DEF Has
  <2> QED
    BY <1>1, <2>1 DEF Dated
<1>6. Crowds
  <2> SUFFICES ASSUME NEW O \in SUBSET Conn, Crowd(O) PROVE FALSE
    BY DEF Crowds
  <2>1. O = {}
    BY <1>3 DEF Crowd, Listed
  <2>2. Cardinality(O) = 0 /\ Limit \in Nat
    BY <2>1, FS_EmptySet DEF ConstantsOK
  <2> QED
    BY <2>2 DEF Crowd
<1> QED
  BY <1>1, <1>4, <1>5, <1>6 DEF LimInv

LEMMA LimInvStep ==
    ASSUME ConstantsOK, Strict, SessInv, LimInv, [Next]_vars PROVE LimInv'
<1>1. SessInv'
  BY SessInvStep
<1>2. ASSUME NEW c \in Conn,
             \/ Accept(c) \/ BevEventCallback(c) \/ BevReadCallback(c)
             \/ EventCallback(c) \/ HandleKick(c) \/ PeerCloses(c)
             \/ \E k \in Context : Expire(k, c)
      PROVE  LimInv'
  BY <1>1, <1>2, LimAccept, LimOthers, LimExpire
<1>3. ASSUME NEW n \in Node, Loop(n) PROVE LimInv'
  BY <1>1, <1>3, LimVerify, LimAddLogin, LimRegister, LimAuthBroadcast, LimOthers, LimRequest DEF Loop
<1>4. ASSUME NEW n \in Node, Server(n) PROVE LimInv'
  <2>1. CASE ExecVerify(n) \/ ExecKick(n)
    BY <1>1, <2>1, LimExecVerify, LimExecKick
  <2>2. ASSUME NEW k \in Context, ExecRecord(n, k) \/ ExecList(n, k) PROVE LimInv'
    <3>1. CASE k = "core"
      BY <1>1, <2>2, <3>1, LimCaster
    <3>2. CASE k = "auth"
      BY <1>1, <2>2, <3>2, LimRecord, LimList
    <3> QED
      BY <3>1, <3>2 DEF Context
  <2> QED
    BY <1>4, <2>1, <2>2 DEF Server
<1>5. ASSUME NEW n \in Node, Crash(n) \/ DieOfUndefined(n) PROVE LimInv'
  <2>1. Die(n)
    BY <1>5 DEF Crash, DieOfUndefined
  <2> QED
    BY <1>1, <2>1, LimDie
<1>6. ASSUME NEW n \in Node, NEW k \in Context, LoseBroadcast(n, k) PROVE LimInv'
  <2>1. lost < MaxLost /\ lost = 0 /\ MaxLost = 0
    BY <1>6 DEF LoseBroadcast, LimInv, Strict
  <2> QED
    BY <2>1
<1>7. CASE UNCHANGED vars
  BY <1>1, <1>7, LimOthers
<1> QED
  BY <1>2, <1>3, <1>4, <1>5, <1>6, <1>7 DEF Next

\* The records of an account that is limited, from add_login_record to the
\* broadcast that ends a session (Redis_Add_Login_Callback): of more sessions than
\* are allowed one is known to be too much, or will be.
THEOREM LimInvAlways == ASSUME Strict PROVE Spec => []LimInv
<1>1. Init => SessInv /\ LimInv
  BY ConstantsOK, SessInvInit, LimInvInit
<1>2. SessInv /\ LimInv /\ [Next]_vars => (SessInv /\ LimInv)'
  BY ConstantsOK, SessInvStep, LimInvStep
<1> QED
  BY <1>1, <1>2, PTL DEF Spec

\* When every message has been dealt with, the account has no more sessions than
\* _connect_limit allows, whatever nodes they are on (Redis_Add_Login_Callback).
THEOREM WithinLimitAlways == ASSUME Strict PROVE Spec => []WithinLimit
<1>1. ASSUME LimInv, Quiet PROVE Cardinality(Online) =< Limit
  <2>1. \A n \in Node : Line(n) = {} /\ Heard(n) = {} /\ Range(bcast[n]["auth"]) = {}
    BY <1>1 DEF Quiet, Context, Line, Heard, Range
  <2>2. ASSUME NEW c \in Conn PROVE /\ ~Doomed(c) /\ \A O : ~Knows(c, O)
                                    /\ c \in Online => Listed(c)
    BY <2>1, ConstantsOK DEF Doomed, Knows, Listed, ConstantsOK
  <2>3. Online \in SUBSET Conn
    BY DEF Online
  <2>4. ~Crowd(Online)
    BY <1>1, <2>2, <2>3 DEF LimInv, Crowds
  <2>5. ~(Cardinality(Online) > Limit)
    BY <2>2, <2>3, <2>4 DEF Crowd
  <2>6. Cardinality(Online) \in Nat /\ Limit \in Nat
    BY <2>3, ConstantsOK, FS_Subset, FS_CardinalityType DEF ConstantsOK
  <2> QED
    BY <2>5, <2>6
<1>2. LimInv => WithinLimit
  BY <1>1 DEF WithinLimit
<1> QED
  BY <1>2, LimInvAlways, PTL

-----------------------------------------------------------------------------
(* Types, the bound of the clock included: a connection that was never     *)
(* accepted, or waits for its session, has not moved the clock yet.        *)

Met == {c \in Conn : ~Fresh(c)}
CommandPipes == [Node -> [Context -> Seq(Command)]]
AnswerPipes == [Node -> [Context -> Seq(Answer)]]
\* What SessInv does not say of the types.
TypInv ==
    /\ woken \in [Node -> BOOLEAN]
    /\ pipe \in CommandPipes /\ answers \in AnswerPipes /\ bcast \in Bcasts
    /\ rec \in [Context -> Records] /\ clock # 0 /\ clock =< 1 + Cardinality(Met)
    /\ kicks \in 0 .. MaxKicks /\ lost \in 0 .. MaxLost
    /\ stalls \in 0 .. MaxStall /\ crashes \in 0 .. MaxCrash
Objects ==
    /\ session \in [Conn -> {"none", "starting", "running", "stopped"}]
    /\ logins \subseteq Conn /\ registered \subseteq Conn
    /\ queue \in [Node -> Seq(Request)] /\ woken \in [Node -> BOOLEAN]

LEMMA MaxTimeType ==
    ASSUME ConstantsOK
    PROVE  /\ Cardinality(Conn) \in Nat /\ MaxTime \in Nat /\ MaxTime = Cardinality(Conn) + 1
           /\ 1 \in Stamp
           /\ \A S \in SUBSET Conn : Cardinality(S) \in Nat /\ Cardinality(S) =< Cardinality(Conn)
<1>1. \A S \in SUBSET Conn :
          IsFiniteSet(S) /\ Cardinality(S) \in Nat /\ Cardinality(S) =< Cardinality(Conn)
  BY FS_Subset, FS_CardinalityType DEF ConstantsOK
<1> QED
  BY <1>1 DEF MaxTime, Stamp

LEMMA CommandType ==
    ASSUME ConstantsOK
    PROVE  /\ \A c \in Conn : \A x \in {"VERIFY", "LIST", "DEL", "KICK"} : Cmd(c, x) \in Command
           /\ \A c \in Conn : \A t \in Stamp : [cmd |-> "ADD", conn |-> c, stamp |-> t] \in Command
           /\ \A m \in Command : m.conn \in Conn /\ (m.cmd = "ADD" => m.stamp \in Stamp)
BY DEF Cmd, Command

LEMMA WithType ==
    ASSUME NEW p \in CommandPipes, NEW n \in Node, NEW k \in Context, NEW s \in Seq(Command)
    PROVE  With(p, n, k, s) \in CommandPipes
<1>1. p[n] \in [Context -> Seq(Command)] /\ p[n][k] \o s \in Seq(Command)
  BY DEF CommandPipes
<1>2. With(p, n, k, s) = [p EXCEPT ![n] = [p[n] EXCEPT ![k] = p[n][k] \o s]]
  BY DEF With, CommandPipes
<1> QED
  BY <1>1, <1>2 DEF CommandPipes

LEMMA PushType ==
    ASSUME ConstantsOK, Objects, NEW op \in {"CREATE", "DESTROY"}, NEW c \in Conn, Push(op, c)
    PROVE  queue' \in [Node -> Seq(Request)] /\ woken' \in [Node -> BOOLEAN]
<1>1. At[c] \in Node /\ [op |-> op, conn |-> c] \in Request
  BY DEF ConstantsOK, Request
<1>2. queue[At[c]] \in Seq(Request)
  BY <1>1 DEF Objects
<1>3. Append(queue[At[c]], [op |-> op, conn |-> c]) \in Seq(Request)
  BY <1>1, <1>2
<1> QED
  BY <1>1, <1>3 DEF Push, Objects

LEMMA StopType ==
    ASSUME ConstantsOK, Objects, NEW c \in Conn, NEW p \in CommandPipes, NEW b \in BOOLEAN,
           Stop(c, p, b)
    PROVE  pipe' \in CommandPipes /\ Objects'
<1>1. CASE session[c] = "stopped"
  BY <1>1 DEF Stop, objectVars, Objects
<1>2. CASE session[c] # "stopped"
  <2> DEFINE q == With(p, At[c], "auth", add_logout_record(c))
             r == With(q, At[c], "core", withdraw_channel(c))
  <2>1. /\ At[c] \in Node /\ "auth" \in Context /\ "core" \in Context
        /\ add_logout_record(c) \in Seq(Command) /\ withdraw_channel(c) \in Seq(Command)
    <3>1. Cmd(c, "DEL") \in Command
      BY CommandType
    <3> QED
      BY <3>1 DEF ConstantsOK, Context, add_logout_record, withdraw_channel
  <2>2. q \in CommandPipes
    BY <2>1, WithType
  <2>3. r \in CommandPipes
    BY <2>1, <2>2, WithType
  <2>4. /\ session' = [session EXCEPT ![c] = "stopped"] /\ logins' = logins \ {c}
        /\ registered' \in {registered, registered \ {c}} /\ Push("DESTROY", c)
        /\ pipe' \in {q, r}
    BY <1>2 DEF Stop, Stopping
  <2>5. queue' \in [Node -> Seq(Request)] /\ woken' \in [Node -> BOOLEAN]
    BY <2>4, PushType
  <2> QED
    BY <2>2, <2>3, <2>4, <2>5 DEF Objects
<1> QED
  BY <1>1, <1>2

\* Who has been met once stays met.
LEMMA MetGrows ==
    ASSUME ConstantsOK, SessInv, [Next]_vars, NEW c \in Conn, Fresh(c)'
    PROVE  Fresh(c)
<1>1. ASSUME session[c] # "none" => session'[c] # "none",
             c \in bev' => c \in bev \/ peer[c] = "new",
             peer'[c] = "new" => peer[c] = "new"
      PROVE  Fresh(c)
  BY <1>1 DEF Fresh
<1>2. ASSUME NEW d \in Conn, NEW p, NEW b, Stop(d, p, b) PROVE session[c] # "none" => session'[c] # "none"
  BY <1>2 DEF Stop, Stopping, objectVars, SessInv, Types
<1>3. ASSUME NEW d \in Conn,
             \/ Accept(d) \/ BevEventCallback(d) \/ BevReadCallback(d)
             \/ HandleKick(d) \/ PeerCloses(d)
             \/ \E k \in Context : Expire(k, d)
      PROVE  Fresh(c)
  BY <1>1, <1>3 DEF Accept, BevEventCallback, BevReadCallback, HandleKick, PeerCloses, Expire,
                    objectVars, socketVars, SessInv, Types
<1>4. ASSUME NEW d \in Conn, EventCallback(d) PROVE Fresh(c)
  BY <1>1, <1>2, <1>4 DEF EventCallback, socketVars
<1>5. ASSUME NEW n \in Node, Redis_Verify_Callback(n) PROVE Fresh(c)
  BY <1>1, <1>5 DEF Redis_Verify_Callback, Verified, Push
<1>6. ASSUME NEW n \in Node, Redis_Add_Login_Callback(n) PROVE Fresh(c)
  <2> DEFINE a == Head(answers[n]["auth"])
  <2>1. a.conn \in Conn
    <3>1. Handles(n, "auth", "LIST") /\ "auth" \in Context
      BY <1>6 DEF Redis_Add_Login_Callback, Context
    <3>2. a \in Result /\ a.cmd = "LIST"
      BY <3>1, HeardTail
    <3> QED
      BY <3>2 DEF Result
  <2>2. \/ UNCHANGED objectVars
        \/ \E p : AuthLoginOk(a.conn, p)
    BY <1>6 DEF Redis_Add_Login_Callback
  <2>3. bev' = bev /\ peer' = peer
    BY <1>6 DEF Redis_Add_Login_Callback, socketVars
  <2>4. session' = session \/ \E p, b : Stop(a.conn, p, b)
    BY <2>2 DEF AuthLoginOk, objectVars
  <2> HIDE DEF a
  <2> QED
    BY <1>1, <1>2, <2>1, <2>3, <2>4
<1>7. ASSUME NEW n \in Node, Redis_Register_Callback(n) PROVE Fresh(c)
  <2> DEFINE a == Head(answers[n]["core"])
  <2>1. a.conn \in Conn
    <3>1. Handles(n, "core", "LIST") /\ "core" \in Context
      BY <1>7 DEF Redis_Register_Callback, Context
    <3>2. a \in Result /\ a.cmd = "LIST"
      BY <3>1, HeardTail
    <3> QED
      BY <3>2 DEF Result
  <2>2. /\ bev' = bev /\ peer' = peer
        /\ \/ session' = session
           \/ session' = [session EXCEPT ![a.conn] = "running"]
           \/ Stop(a.conn, pipe, TRUE)
    BY <1>7 DEF Redis_Register_Callback, socketVars, objectVars
  <2>3. session \in [Conn -> {"none", "starting", "running", "stopped"}]
    BY DEF SessInv, Types
  <2> HIDE DEF a
  <2> QED
    BY <1>1, <1>2, <2>1, <2>2, <2>3
<1>8. ASSUME NEW n \in Node, Redis_Auth_Broadcast_Callback(n) \/ Redis_Broadcast_Callback(n) PROVE Fresh(c)
  <2>1. /\ bev' = bev /\ peer' = peer
        /\ \/ session' = session
           \/ \E d \in logins \cup registered : \E b : Stop(d, pipe, b)
    BY <1>8 DEF Redis_Auth_Broadcast_Callback, Redis_Broadcast_Callback, socketVars, objectVars, KickMap
  <2>2. logins \cup registered \subseteq Conn
    BY DEF SessInv, Types
  <2> QED
    BY <1>1, <1>2, <2>1, <2>2
<1>9. ASSUME NEW n \in Node, Request_Process_Cb(n) PROVE Fresh(c)
  <2>0. PICK m, d : m = Head(queue[n]) /\ d = m.conn
    OBVIOUS
  <2>1. /\ queue[n] # <<>> /\ queue \in Queues /\ queue' = [queue EXCEPT ![n] = Tail(@)]
        /\ peer' = peer
        /\ session \in [Conn -> {"none", "starting", "running", "stopped"}]
        /\ \/ session' = [session EXCEPT ![d] = "starting"] /\ bev' = bev
           \/ m.op = "DESTROY" /\ session' = [session EXCEPT ![d] = "none"] /\ bev' = bev \ {d}
    BY <1>9, <2>0 DEF Request_Process_Cb, SessInv, Types
  <2>2. d \in Conn /\ At[d] = n /\ Doing(queue, m.op, d) # 0
    BY <2>0, <2>1, PopEffect
  <2>3. CASE session' = [session EXCEPT ![d] = "starting"] /\ bev' = bev
    BY <1>1, <2>1, <2>3
  <2>4. CASE m.op = "DESTROY" /\ session' = [session EXCEPT ![d] = "none"] /\ bev' = bev \ {d}
    <3>1. up[n]
      BY <2>1 DEF SessInv, Dead
    <3>2. Owned(d)
      BY <2>2, <3>1 DEF SessInv
    <3>3. session[d] # "none"
      BY <2>2, <2>4, <3>2 DEF Owned, Num
    <3>4. peer[d] # "new"
      BY <2>2, <3>3, NotNew
    <3>5. c # d
      BY <2>1, <2>4, <3>4 DEF Fresh
    <3> QED
      BY <1>1, <2>1, <2>4, <3>5
  <2> QED
    BY <2>1, <2>3, <2>4
<1>10. ASSUME NEW n \in Node, Server(n) PROVE Fresh(c)
  <2>1. UNCHANGED <<socketVars, objectVars>>
    BY <1>10 DEF Server, ExecVerify, ExecKick, ExecRecord, ExecList, Executes
  <2> QED
    BY <1>1, <2>1 DEF socketVars, objectVars
<1>11. ASSUME NEW n \in Node, Crash(n) \/ DieOfUndefined(n) PROVE Fresh(c)
  <2>1. /\ bev' = bev \ Here(n)
        /\ peer' = [d \in Conn |-> IF d \in Here(n) /\ peer[d] = "up" THEN "gone" ELSE peer[d]]
        /\ session' = [d \in Conn |-> IF d \in Here(n) THEN "none" ELSE session[d]]
    BY <1>11 DEF Crash, DieOfUndefined, Die, Here
  <2>2. CASE c \notin Here(n)
    BY <1>1, <2>1, <2>2
  <2>3. CASE c \in Here(n)
    <3>1. peer[c] = "new"
      BY <2>1, <2>3 DEF Fresh
    <3> QED
      BY <3>1, NotNew DEF Fresh
  <2> QED
    BY <2>2, <2>3
<1>12. ASSUME NEW n \in Node, NEW k \in Context, LoseBroadcast(n, k) PROVE Fresh(c)
  BY <1>1, <1>12 DEF LoseBroadcast, socketVars, objectVars
<1>13. CASE UNCHANGED vars
  BY <1>1, <1>13 DEF vars, socketVars, objectVars
<1> QED
  BY <1>3, <1>4, <1>5, <1>6, <1>7, <1>8, <1>9, <1>10, <1>11, <1>12, <1>13 DEF Next, Loop

\* What the steps do to what is under way.
LEMMA HandlesType ==
    ASSUME TypInv, NEW n \in Node, NEW k \in Context, NEW x, Handles(n, k, x)
    PROVE  answers' \in AnswerPipes /\ Head(answers[n][k]) \in Answer /\ Head(answers[n][k]).cmd = x
<1>1. answers \in [Node -> [Context -> Seq(Answer)]] /\ answers[n] \in [Context -> Seq(Answer)]
      /\ answers[n][k] \in Seq(Answer) /\ answers[n][k] # <<>>
  BY DEF TypInv, AnswerPipes, Handles
<1>2. Tail(answers[n][k]) \in Seq(Answer) /\ Head(answers[n][k]) \in Answer
  BY <1>1
<1>3. answers' = [answers EXCEPT ![n] = [answers[n] EXCEPT ![k] = Tail(answers[n][k])]]
  BY <1>1 DEF Handles
<1> QED
  BY <1>1, <1>2, <1>3 DEF AnswerPipes, Handles

LEMMA ExecutesType ==
    ASSUME TypInv, NEW n \in Node, NEW k \in Context, NEW X, Executes(n, k, X)
    PROVE  /\ pipe' \in CommandPipes /\ Head(pipe[n][k]) \in Command
           /\ UNCHANGED <<woken, clock, kicks, lost, stalls, crashes>>
<1>1. pipe \in [Node -> [Context -> Seq(Command)]] /\ pipe[n] \in [Context -> Seq(Command)]
      /\ pipe[n][k] \in Seq(Command) /\ pipe[n][k] # <<>>
  BY DEF TypInv, CommandPipes, Executes
<1>2. Tail(pipe[n][k]) \in Seq(Command) /\ Head(pipe[n][k]) \in Command
  BY <1>1
<1>3. pipe' = [pipe EXCEPT ![n] = [pipe[n] EXCEPT ![k] = Tail(pipe[n][k])]]
  BY <1>1 DEF Executes
<1>4. pipe' \in CommandPipes
  BY <1>1, <1>2, <1>3 DEF CommandPipes
<1> QED
  BY <1>2, <1>4 DEF Executes, objectVars, faultVars

LEMMA AnswersType ==
    ASSUME TypInv, NEW n \in Node, NEW k \in Context, NEW a \in Answer, Answers(n, k, <<a>>)
    PROVE  answers' \in AnswerPipes
<1>1. answers \in [Node -> [Context -> Seq(Answer)]] /\ answers[n] \in [Context -> Seq(Answer)]
      /\ answers[n][k] \in Seq(Answer)
  BY DEF TypInv, AnswerPipes
<1>2. answers[n][k] \o <<a>> \in Seq(Answer)
  BY <1>1
<1>3. answers' \in {answers, [answers EXCEPT ![n] = [answers[n] EXCEPT ![k] = answers[n][k] \o <<a>>]]}
  BY <1>1 DEF Answers
<1> QED
  BY <1>1, <1>2, <1>3 DEF AnswerPipes

LEMMA BroadcastType ==
    ASSUME TypInv, NEW k \in Context, NEW c \in Conn, Broadcast(k, c)
    PROVE  bcast' \in Bcasts
<1>1. bcast \in [Node -> [Context -> Seq(Conn)]]
  BY DEF TypInv, Bcasts
<1>2. ASSUME NEW n \in Node PROVE bcast'[n] \in [Context -> Seq(Conn)]
  <2>1. bcast'[n] = IF up[n] THEN [bcast[n] EXCEPT ![k] = Append(bcast[n][k], c)] ELSE bcast[n]
    BY DEF Broadcast
  <2>2. bcast[n] \in [Context -> Seq(Conn)] /\ Append(bcast[n][k], c) \in Seq(Conn)
    BY <1>1
  <2> QED
    BY <2>1, <2>2
<1>3. bcast' = [n \in Node |-> IF up[n] THEN [bcast[n] EXCEPT ![k] = Append(@, c)] ELSE bcast[n]]
  BY DEF Broadcast
<1> QED
  BY <1>2, <1>3 DEF Bcasts

LEMMA BcastTailType ==
    ASSUME TypInv, NEW n \in Node, NEW k \in Context, bcast[n][k] # <<>>,
           bcast' = [bcast EXCEPT ![n][k] = Tail(@)]
    PROVE  bcast' \in Bcasts /\ Head(bcast[n][k]) \in Conn
<1>1. bcast \in [Node -> [Context -> Seq(Conn)]] /\ bcast[n] \in [Context -> Seq(Conn)]
      /\ bcast[n][k] \in Seq(Conn)
  BY DEF TypInv, Bcasts
<1>2. Tail(bcast[n][k]) \in Seq(Conn) /\ Head(bcast[n][k]) \in Conn
  BY <1>1
<1>3. bcast' = [bcast EXCEPT ![n] = [bcast[n] EXCEPT ![k] = Tail(bcast[n][k])]]
  BY <1>1
<1> QED
  BY <1>1, <1>2, <1>3 DEF Bcasts

LEMMA KickType ==
    ASSUME ConstantsOK, NEW V, V \subseteq Conn
    PROVE  SetToSeq({Cmd(v, "KICK") : v \in V}) \in Seq(Command)
<1> DEFINE K == {Cmd(v, "KICK") : v \in V}  s == SetToSeq(K)
<1>1. s \in Seq(K)
  BY KickSeq
<1>2. K \subseteq Command
  BY CommandType
<1> HIDE DEF K, s
<1>3. s \in Seq(Command)
  BY <1>1, <1>2
<1> QED
  BY <1>3 DEF K, s

\* Time does not pass without somebody being met.
LEMMA ClockStep ==
    ASSUME ConstantsOK, SessInv, TypInv, [Next]_vars,
           \/ clock' = clock
           \/ clock' = clock + 1 /\ \E c \in Conn : Fresh(c) /\ ~Fresh(c)'
    PROVE  clock' # 0 /\ clock' =< 1 + Cardinality(Met)'
<1>1. /\ clock \in Nat /\ clock # 0 /\ clock =< 1 + Cardinality(Met)
      /\ \A c \in Conn : Fresh(c)' => Fresh(c)
  BY MetGrows DEF SessInv, Types, TypInv
<1> DEFINE M == Met  N == Met'
<1>2. M \in SUBSET N /\ N \in SUBSET Conn
  BY <1>1 DEF Met
<1>3. (\E c \in Conn : Fresh(c) /\ ~Fresh(c)') => \E c \in Conn : c \in N /\ c \notin M
  BY DEF Met
<1>4. Cardinality(Met)' = Cardinality(N)
  OBVIOUS
<1>5. clock =< 1 + Cardinality(M)
  BY <1>1
<1> HIDE DEF M, N
<1>6. IsFiniteSet(N) /\ IsFiniteSet(M) /\ Cardinality(M) \in Nat /\ Cardinality(N) \in Nat
      /\ Cardinality(M) =< Cardinality(N) /\ (Cardinality(N) = Cardinality(M) => M = N)
  <2>1. IsFiniteSet(N)
    BY <1>2, FS_Subset DEF ConstantsOK
  <2>2. /\ IsFiniteSet(M) /\ Cardinality(M) =< Cardinality(N)
        /\ (Cardinality(N) = Cardinality(M) => M = N)
    BY <1>2, <2>1, FS_Subset
  <2> QED
    BY <2>1, <2>2, FS_CardinalityType
<1>7. CASE clock' = clock
  BY <1>1, <1>4, <1>5, <1>6, <1>7
<1>8. CASE clock' = clock + 1 /\ \E c \in Conn : Fresh(c) /\ ~Fresh(c)'
  <2>1. M # N
    BY <1>3, <1>8
  <2>2. Cardinality(M) + 1 =< Cardinality(N)
    BY <1>6, <2>1
  <2> QED
    BY <1>1, <1>4, <1>5, <1>6, <1>8, <2>2
<1> QED
  BY <1>7, <1>8

\* The clock does not exceed what a record may hold.
LEMMA StampType ==
    ASSUME ConstantsOK, SessInv, TypInv
    PROVE  clock \in Stamp /\ (interrupted \subseteq Conn => TypeOK)
<1>1. /\ clock \in Nat /\ clock # 0 /\ clock =< 1 + Cardinality(Met) /\ Met \in SUBSET Conn
  BY DEF SessInv, Types, TypInv, Met
<1>2. /\ Cardinality(Met) \in Nat /\ Cardinality(Met) =< Cardinality(Conn)
      /\ Cardinality(Conn) \in Nat /\ MaxTime = Cardinality(Conn) + 1
  BY <1>1, MaxTimeType
<1>3. clock \in Stamp
  BY <1>1, <1>2 DEF Stamp
<1>4. queue \in [Node -> Seq(Request)]
  BY DEF SessInv, Types, Queues
<1>5. ASSUME interrupted \subseteq Conn PROVE TypeOK
  BY <1>3, <1>4, <1>5 DEF TypeOK, SessInv, Types, TypInv, CommandPipes, AnswerPipes, Bcasts
<1> QED
  BY <1>3, <1>5

\* Steps that neither answer nor broadcast, nor touch a record or a counter.
Rest == UNCHANGED <<answers, bcast, rec, clock, kicks, lost, stalls, crashes>>

LEMMA TypQuiet ==
    ASSUME ConstantsOK, SessInv, TypInv, [Next]_vars,
           woken' \in [Node -> BOOLEAN], pipe' \in CommandPipes, answers' \in AnswerPipes,
           bcast' \in Bcasts, rec' \in [Context -> Records], clock' = clock,
           kicks' \in 0 .. MaxKicks, lost' \in 0 .. MaxLost,
           stalls' \in 0 .. MaxStall, crashes' \in 0 .. MaxCrash
    PROVE  TypInv'
BY ClockStep DEF TypInv

LEMMA ObjectsNow == ASSUME SessInv, TypInv PROVE Objects
BY DEF SessInv, Types, Queues, TypInv, Objects

LEMMA TypSocket ==
    ASSUME ConstantsOK, SessInv, TypInv, [Next]_vars, NEW c \in Conn,
           \/ Accept(c) \/ BevEventCallback(c) \/ BevReadCallback(c)
           \/ EventCallback(c) \/ HandleKick(c) \/ PeerCloses(c)
           \/ \E k \in Context : Expire(k, c)
    PROVE  TypInv'
<1>1. ASSUME UNCHANGED <<woken, pipe, answers, bcast, rec, clock, kicks, lost, stalls, crashes>>
      PROVE  TypInv'
  BY <1>1, TypQuiet DEF TypInv
<1>2. CASE Accept(c) \/ BevEventCallback(c) \/ PeerCloses(c)
  BY <1>1, <1>2 DEF Accept, BevEventCallback, PeerCloses, objectVars, wireVars, faultVars
<1>3. CASE BevReadCallback(c)
  <2> DEFINE s == <<Cmd(c, "VERIFY")>>
  <2>1. s \in Seq(Command) /\ At[c] \in Node /\ "auth" \in Context
    <3>1. Cmd(c, "VERIFY") \in Command
      BY CommandType
    <3> QED
      BY <3>1 DEF ConstantsOK, Context
  <2> HIDE DEF s
  <2>2. pipe \in CommandPipes /\ With(pipe, At[c], "auth", s) \in CommandPipes
    BY <2>1, WithType DEF TypInv
  <2>3. pipe' \in CommandPipes
    BY <1>3, <2>2 DEF BevReadCallback, s
  <2>4. Rest /\ woken' = woken
    BY <1>3 DEF BevReadCallback, objectVars, faultVars, Rest
  <2> QED
    BY <2>3, <2>4, TypQuiet DEF Rest, TypInv
<1>4. CASE EventCallback(c)
  <2>1. Rest /\ Stop(c, pipe, TRUE) /\ pipe \in CommandPipes
    BY <1>4 DEF EventCallback, faultVars, Rest, TypInv
  <2>2. pipe' \in CommandPipes /\ woken' \in [Node -> BOOLEAN]
    <3>1. Objects
      BY ObjectsNow
    <3>2. pipe' \in CommandPipes /\ Objects'
      BY <2>1, <3>1, StopType
    <3> QED
      BY <3>2 DEF Objects
  <2> QED
    BY <2>1, <2>2, TypQuiet DEF Rest, TypInv
<1>5. CASE HandleKick(c)
  <2>1. /\ UNCHANGED <<woken, pipe, answers, rec, clock, lost, stalls, crashes>>
        /\ kicks < MaxKicks /\ kicks' = kicks + 1 /\ Broadcast("core", c) /\ "core" \in Context
    BY <1>5 DEF HandleKick, objectVars, faultVars, Context
  <2>2. bcast' \in Bcasts
    BY <2>1, BroadcastType
  <2>3. kicks' \in 0 .. MaxKicks
    <3>1. kicks \in 0 .. MaxKicks /\ MaxKicks \in Nat
      BY DEF TypInv, ConstantsOK
    <3> QED
      BY <2>1, <3>1
  <2> QED
    BY <2>1, <2>2, <2>3, TypQuiet DEF TypInv
<1>6. ASSUME NEW k \in Context, Expire(k, c) PROVE TypInv'
  <2>1. /\ UNCHANGED <<woken, pipe, answers, bcast, clock, kicks, lost, crashes>>
        /\ stalls' = stalls \/ (stalls < MaxStall /\ stalls' = stalls + 1)
        /\ rec' = [rec EXCEPT ![k] = [rec[k] EXCEPT ![c] = 0]]
    BY <1>6 DEF Expire, objectVars, wireVars
  <2>2. stalls' \in 0 .. MaxStall
    <3>1. stalls \in 0 .. MaxStall /\ MaxStall \in Nat
      BY DEF TypInv, ConstantsOK
    <3> QED
      BY <2>1, <3>1
  <2>3. rec' \in [Context -> Records]
    <3>1. 0 \in 0 .. MaxTime /\ rec \in [Context -> Records]
      BY MaxTimeType DEF TypInv
    <3> QED
      BY <2>1, <3>1 DEF Records
  <2> QED
    BY <2>1, <2>2, <2>3, TypQuiet DEF TypInv
<1> QED
  BY <1>2, <1>3, <1>4, <1>5, <1>6

LEMMA TypServer ==
    ASSUME ConstantsOK, SessInv, TypInv, [Next]_vars, NEW n \in Node, Server(n)
    PROVE  TypInv'
<1>1. CASE ExecVerify(n)
  <2> DEFINE c == Head(pipe[n]["auth"]).conn
  <2>1. Executes(n, "auth", {"VERIFY"}) /\ "auth" \in Context /\ rec' = rec /\ bcast' = bcast
    BY <1>1 DEF ExecVerify, Context
  <2>2. /\ pipe' \in CommandPipes /\ Head(pipe[n]["auth"]) \in Command
        /\ UNCHANGED <<woken, clock, kicks, lost, stalls, crashes>>
    BY <2>1, ExecutesType
  <2>3. c \in Conn
    BY <2>2, CommandType DEF ConstantsOK
  <2>4. PICK ok \in BOOLEAN : Answers(n, "auth", <<[cmd |-> "VERIFY", conn |-> c, ok |-> ok]>>)
    BY <1>1 DEF ExecVerify
  <2> DEFINE a == [cmd |-> "VERIFY", conn |-> c, ok |-> ok]
  <2>5. a \in Answer
    BY <2>3 DEF Answer
  <2> HIDE DEF a
  <2>6. Answers(n, "auth", <<a>>)
    BY <2>4 DEF a
  <2>7. answers' \in AnswerPipes
    BY <2>1, <2>5, <2>6, AnswersType
  <2> QED
    BY <2>1, <2>2, <2>7, TypQuiet DEF TypInv
<1>2. CASE ExecKick(n)
  <2> DEFINE c == Head(pipe[n]["auth"]).conn
  <2>1. /\ Executes(n, "auth", {"KICK"}) /\ "auth" \in Context /\ rec' = rec /\ answers' = answers
        /\ Broadcast("auth", c)
    BY <1>2 DEF ExecKick, Context
  <2>2. /\ pipe' \in CommandPipes /\ Head(pipe[n]["auth"]) \in Command
        /\ UNCHANGED <<woken, clock, kicks, lost, stalls, crashes>>
    BY <2>1, ExecutesType
  <2>3. c \in Conn
    BY <2>2, CommandType
  <2>4. bcast' \in Bcasts
    BY <2>1, <2>3, BroadcastType
  <2> QED
    BY <2>1, <2>2, <2>4, TypQuiet DEF TypInv
<1>3. ASSUME NEW k \in Context, ExecRecord(n, k) PROVE TypInv'
  <2>0. PICK m, v : m = Head(pipe[n][k]) /\ v = IF m.cmd = "ADD" THEN m.stamp ELSE 0
    OBVIOUS
  <2>1. /\ Executes(n, k, {"ADD", "DEL"}) /\ answers' = answers /\ bcast' = bcast
        /\ rec' = [rec EXCEPT ![k] = [rec[k] EXCEPT ![m.conn] = v]]
    BY <1>3, <2>0 DEF ExecRecord
  <2>2. /\ pipe' \in CommandPipes /\ m \in Command
        /\ UNCHANGED <<woken, clock, kicks, lost, stalls, crashes>>
    BY <2>0, <2>1, ExecutesType
  <2>3. v \in 0 .. MaxTime
    <3>1. m.cmd = "ADD" => m.stamp \in Stamp
      BY <2>2, CommandType
    <3> QED
      BY <2>0, <3>1, MaxTimeType DEF Stamp
  <2>4. rec' \in [Context -> Records]
    BY <2>1, <2>3 DEF TypInv, Records
  <2> QED
    BY <2>1, <2>2, <2>4, TypQuiet DEF TypInv
<1>4. ASSUME NEW k \in Context, ExecList(n, k) PROVE TypInv'
  <2> DEFINE c == Head(pipe[n][k]).conn  a == [cmd |-> "LIST", conn |-> c, recs |-> rec[k]]
  <2>1. Executes(n, k, {"LIST"}) /\ rec' = rec /\ bcast' = bcast /\ Answers(n, k, <<a>>)
    BY <1>4 DEF ExecList
  <2>2. /\ pipe' \in CommandPipes /\ Head(pipe[n][k]) \in Command
        /\ UNCHANGED <<woken, clock, kicks, lost, stalls, crashes>>
    BY <2>1, ExecutesType
  <2>3. a \in Answer
    <3>1. c \in Conn /\ rec[k] \in Records
      BY <2>2, CommandType DEF TypInv
    <3> QED
      BY <3>1 DEF Answer
  <2> HIDE DEF a
  <2>4. answers' \in AnswerPipes
    BY <2>1, <2>3, AnswersType
  <2> QED
    BY <2>1, <2>2, <2>4, TypQuiet DEF TypInv
<1> QED
  BY <1>1, <1>2, <1>3, <1>4 DEF Server

LEMMA TypFaults ==
    ASSUME ConstantsOK, SessInv, TypInv, [Next]_vars, NEW n \in Node,
           Crash(n) \/ DieOfUndefined(n) \/ \E k \in Context : LoseBroadcast(n, k)
    PROVE  TypInv'
<1>1. ASSUME Crash(n) \/ DieOfUndefined(n) PROVE TypInv'
  <2>1. /\ woken' = [woken EXCEPT ![n] = FALSE]
        /\ answers' = [answers EXCEPT ![n] = [k \in Context |-> <<>>]]
        /\ bcast' = [bcast EXCEPT ![n] = [k \in Context |-> <<>>]]
        /\ UNCHANGED <<pipe, rec, clock, kicks, lost, stalls>>
        /\ crashes' = crashes \/ (crashes < MaxCrash /\ crashes' = crashes + 1)
    BY <1>1 DEF Crash, DieOfUndefined, Die
  <2>2. crashes' \in 0 .. MaxCrash
    <3>1. crashes \in 0 .. MaxCrash /\ MaxCrash \in Nat
      BY DEF TypInv, ConstantsOK
    <3> QED
      BY <2>1, <3>1
  <2>3. [k \in Context |-> <<>>] \in [Context -> Seq(Answer)]
        /\ [k \in Context |-> <<>>] \in [Context -> Seq(Conn)]
    OBVIOUS
  <2>4. woken' \in [Node -> BOOLEAN] /\ answers' \in AnswerPipes /\ bcast' \in Bcasts
    BY <2>1, <2>3 DEF TypInv, AnswerPipes, Bcasts
  <2> QED
    BY <2>1, <2>2, <2>4, TypQuiet DEF TypInv
<1>2. ASSUME NEW k \in Context, LoseBroadcast(n, k) PROVE TypInv'
  <2>1. /\ UNCHANGED <<woken, pipe, answers, rec, clock, kicks, stalls, crashes>>
        /\ lost < MaxLost /\ lost' = lost + 1
        /\ bcast' = [bcast EXCEPT ![n] = [bcast[n] EXCEPT ![k] = <<>>]]
    BY <1>2 DEF LoseBroadcast, objectVars
  <2>2. lost' \in 0 .. MaxLost
    <3>1. lost \in 0 .. MaxLost /\ MaxLost \in Nat
      BY DEF TypInv, ConstantsOK
    <3> QED
      BY <2>1, <3>1
  <2>3. bcast' \in Bcasts
    <3>1. <<>> \in Seq(Conn)
      OBVIOUS
    <3> QED
      BY <2>1, <3>1 DEF TypInv, Bcasts
  <2> QED
    BY <2>1, <2>2, <2>3, TypQuiet DEF TypInv
<1> QED
  BY <1>1, <1>2

LEMMA TypCallbacks ==
    ASSUME ConstantsOK, SessInv, TypInv, [Next]_vars, NEW n \in Node,
           \/ Redis_Verify_Callback(n) \/ Redis_Register_Callback(n)
           \/ Redis_Auth_Broadcast_Callback(n) \/ Redis_Broadcast_Callback(n)
    PROVE  TypInv'
<1>0. Objects /\ pipe \in CommandPipes /\ "auth" \in Context /\ "core" \in Context
  BY ObjectsNow DEF TypInv, Context
<1>1. ASSUME NEW c \in Conn, NEW b \in BOOLEAN, Stop(c, pipe, b)
      PROVE  pipe' \in CommandPipes /\ woken' \in [Node -> BOOLEAN]
  <2>1. pipe' \in CommandPipes /\ Objects'
    BY <1>0, <1>1, StopType
  <2> QED
    BY <2>1 DEF Objects
<1>2. CASE Redis_Verify_Callback(n)
  <2> DEFINE c == Head(answers[n]["auth"]).conn
  <2>1. /\ Handles(n, "auth", "VERIFY")
        /\ UNCHANGED <<pipe, bcast, rec, clock, kicks, lost, stalls, crashes>>
        /\ Push("CREATE", c) \/ woken' = woken
    BY <1>2 DEF Redis_Verify_Callback, Verified, faultVars
  <2>2. answers' \in AnswerPipes /\ c \in Conn
    <3>1. answers' \in AnswerPipes /\ Head(answers[n]["auth"]) \in Answer
      BY <1>0, <2>1, HandlesType
    <3> QED
      BY <3>1 DEF Answer
  <2> HIDE DEF c
  <2>3. woken' \in [Node -> BOOLEAN]
    BY <1>0, <2>1, <2>2, PushType DEF Objects
  <2> QED
    BY <1>0, <2>1, <2>2, <2>3, TypQuiet DEF TypInv
<1>3. CASE Redis_Register_Callback(n)
  <2> DEFINE c == Head(answers[n]["core"]).conn
  <2>1. /\ Handles(n, "core", "LIST")
        /\ UNCHANGED <<bcast, rec, clock, kicks, lost, stalls, crashes>>
        /\ Stop(c, pipe, TRUE) \/ (pipe' = pipe /\ woken' = woken)
    BY <1>3 DEF Redis_Register_Callback, objectVars, faultVars
  <2>2. answers' \in AnswerPipes /\ c \in Conn
    <3>1. answers' \in AnswerPipes /\ Head(answers[n]["core"]) \in Answer
      BY <1>0, <2>1, HandlesType
    <3> QED
      BY <3>1 DEF Answer
  <2> HIDE DEF c
  <2>3. pipe' \in CommandPipes /\ woken' \in [Node -> BOOLEAN]
    BY <1>0, <1>1, <2>1, <2>2 DEF Objects
  <2> QED
    BY <2>1, <2>2, <2>3, TypQuiet DEF TypInv
<1>4. CASE Redis_Auth_Broadcast_Callback(n)
  <2> DEFINE c == Head(bcast[n]["auth"])
  <2>1. /\ bcast[n]["auth"] # <<>> /\ bcast' = [bcast EXCEPT ![n]["auth"] = Tail(@)]
        /\ UNCHANGED <<answers, rec, clock, kicks, lost, stalls, crashes>>
        /\ Stop(c, pipe, session[c] = "running") \/ (pipe' = pipe /\ woken' = woken)
    BY <1>4 DEF Redis_Auth_Broadcast_Callback, objectVars, faultVars
  <2>2. bcast' \in Bcasts /\ c \in Conn
    BY <1>0, <2>1, BcastTailType
  <2> HIDE DEF c
  <2>3. (session[c] = "running") \in BOOLEAN
    OBVIOUS
  <2>4. pipe' \in CommandPipes /\ woken' \in [Node -> BOOLEAN]
    BY <1>0, <1>1, <2>1, <2>2, <2>3 DEF Objects
  <2> QED
    BY <2>1, <2>2, <2>4, TypQuiet DEF TypInv
<1>5. CASE Redis_Broadcast_Callback(n)
  <2> DEFINE c == Head(bcast[n]["core"])
  <2>1. /\ bcast[n]["core"] # <<>> /\ bcast' = [bcast EXCEPT ![n]["core"] = Tail(@)]
        /\ UNCHANGED <<answers, rec, clock, kicks, lost, stalls, crashes>>
        /\ Stop(c, pipe, session[c] = "running") \/ (pipe' = pipe /\ woken' = woken)
    BY <1>5 DEF Redis_Broadcast_Callback, objectVars, faultVars
  <2>2. bcast' \in Bcasts /\ c \in Conn
    BY <1>0, <2>1, BcastTailType
  <2> HIDE DEF c
  <2>3. (session[c] = "running") \in BOOLEAN
    OBVIOUS
  <2>4. pipe' \in CommandPipes /\ woken' \in [Node -> BOOLEAN]
    BY <1>0, <1>1, <2>1, <2>2, <2>3 DEF Objects
  <2> QED
    BY <2>1, <2>2, <2>4, TypQuiet DEF TypInv
<1> QED
  BY <1>2, <1>3, <1>4, <1>5

LEMMA TypAddLogin ==
    ASSUME ConstantsOK, SessInv, TypInv, [Next]_vars, NEW n \in Node, Redis_Add_Login_Callback(n)
    PROVE  TypInv'
<1>0. PICK c, r : c = Head(answers[n]["auth"]).conn /\ r = Head(answers[n]["auth"]).recs
  OBVIOUS
<1> DEFINE Kicks(V) == With(pipe, n, "auth", SetToSeq({Cmd(v, "KICK") : v \in V}))
<1>1. /\ Handles(n, "auth", "LIST") /\ "auth" \in Context /\ "core" \in Context
      /\ UNCHANGED <<bcast, rec, clock, kicks, lost, stalls, crashes>>
      /\ \/ pipe' = Kicks({c}) /\ woken' = woken
         \/ \E V \in Victims(r, Kind[c] \in Protected) :
                \/ pipe' = Kicks(V) /\ woken' = woken
                \/ AuthLoginOk(c, Kicks(V))
  BY <1>0 DEF Redis_Add_Login_Callback, objectVars, faultVars, Context
<1>2. answers' \in AnswerPipes /\ c \in Conn /\ At[c] \in Node
  <2>1. answers' \in AnswerPipes /\ Head(answers[n]["auth"]) \in Answer
    BY <1>1, HandlesType
  <2> QED
    BY <1>0, <2>1 DEF Answer, ConstantsOK
<1>3. Objects /\ pipe \in CommandPipes /\ woken \in [Node -> BOOLEAN]
  BY ObjectsNow DEF TypInv
<1>4. ASSUME NEW V \in SUBSET Conn PROVE Kicks(V) \in CommandPipes
  <2> DEFINE s == SetToSeq({Cmd(v, "KICK") : v \in V})
  <2>1. s \in Seq(Command)
    BY KickType
  <2> HIDE DEF s
  <2>2. With(pipe, n, "auth", s) \in CommandPipes
    BY <1>1, <1>3, <2>1, WithType
  <2> QED
    BY <2>2 DEF s
<1>5. ASSUME NEW b, NEW V \in Victims(r, b) PROVE V \in SUBSET Conn
  <2> DEFINE T == {t \in Erased(r, b) : Reported(r, b, t) # {}}
  <2>1. PICK f \in {g \in [T -> Conn] : \A t \in T : g[t] \in Reported(r, b, t)} :
           V = {f[t] : t \in T}
    BY DEF Victims
  <2> HIDE DEF T
  <2>2. f \in [T -> Conn]
    BY <2>1
  <2> QED
    BY <2>1, <2>2
<1> HIDE DEF Kicks
<1>6. ASSUME NEW V \in SUBSET Conn, AuthLoginOk(c, Kicks(V))
      PROVE  pipe' \in CommandPipes /\ woken' \in [Node -> BOOLEAN]
  <2>1. CASE pipe' = Kicks(V) /\ UNCHANGED objectVars
    BY <1>3, <1>4, <2>1 DEF objectVars
  <2>2. CASE Stop(c, Kicks(V), FALSE)
    <3>1. pipe' \in CommandPipes /\ Objects'
      BY <1>2, <1>3, <1>4, <2>2, StopType
    <3> QED
      BY <3>1 DEF Objects
  <2>3. CASE /\ pipe' = With(Kicks(V), At[c], "core", register_channel(c))
             /\ UNCHANGED <<session, logins, queue, woken>>
    <3> DEFINE s == register_channel(c)
    <3>1. s \in Seq(Command)
      <4>1. [cmd |-> "ADD", conn |-> c, stamp |-> 1] \in Command /\ Cmd(c, "LIST") \in Command
        BY <1>2, MaxTimeType, CommandType
      <4> QED
        BY <4>1 DEF register_channel
    <3> HIDE DEF s
    <3>2. With(Kicks(V), At[c], "core", s) \in CommandPipes
      BY <1>1, <1>2, <1>4, <3>1, WithType
    <3> QED
      BY <1>3, <2>3, <3>2 DEF s
  <2> QED
    BY <1>6, <2>1, <2>2, <2>3 DEF AuthLoginOk
<1>7. pipe' \in CommandPipes /\ woken' \in [Node -> BOOLEAN]
  <2>1. CASE pipe' = Kicks({c}) /\ woken' = woken
    BY <1>2, <1>3, <1>4, <2>1
  <2>2. ASSUME NEW V \in Victims(r, Kind[c] \in Protected),
               (pipe' = Kicks(V) /\ woken' = woken) \/ AuthLoginOk(c, Kicks(V))
        PROVE  pipe' \in CommandPipes /\ woken' \in [Node -> BOOLEAN]
    BY <1>3, <1>4, <1>5, <1>6, <2>2
  <2> QED
    BY <1>1, <2>1, <2>2
<1> QED
  BY <1>1, <1>2, <1>7, TypQuiet DEF TypInv

LEMMA TypRequest ==
    ASSUME ConstantsOK, SessInv, TypInv, [Next]_vars, NEW n \in Node, Request_Process_Cb(n)
    PROVE  TypInv'
<1>0. PICK m, c : m = Head(queue[n]) /\ c = m.conn
  OBVIOUS
<1>1. /\ queue[n] # <<>> /\ queue \in Queues /\ queue' = [queue EXCEPT ![n] = Tail(@)]
      /\ woken' = [woken EXCEPT ![n] = (Tail(queue[n]) # <<>>)] /\ "auth" \in Context
      /\ UNCHANGED <<answers, bcast, rec, kicks, lost, stalls, crashes>>
      /\ \/ /\ m.op = "CREATE" /\ session' = [session EXCEPT ![c] = "starting"]
            /\ pipe' = With(pipe, n, "auth", add_login_record(c))
            /\ clock' \in {clock, clock + 1}
         \/ m.op = "DESTROY" /\ UNCHANGED <<pipe, clock>>
  BY <1>0 DEF Request_Process_Cb, SessInv, Types, faultVars, Context
<1>2. c \in Conn /\ At[c] = n /\ Doing(queue, m.op, c) # 0
  BY <1>0, <1>1, PopEffect
<1>3. woken' \in [Node -> BOOLEAN]
  <2>1. (Tail(queue[n]) # <<>>) \in BOOLEAN
    OBVIOUS
  <2> QED
    BY <1>1, <2>1 DEF TypInv
<1>4. CASE m.op = "DESTROY" /\ UNCHANGED <<pipe, clock>>
  BY <1>1, <1>3, <1>4, TypQuiet DEF TypInv
<1>5. CASE /\ m.op = "CREATE" /\ session' = [session EXCEPT ![c] = "starting"]
           /\ pipe' = With(pipe, n, "auth", add_login_record(c))
           /\ clock' \in {clock, clock + 1}
  <2> DEFINE s == add_login_record(c)
  <2>1. s \in Seq(Command)
    <3>1. [cmd |-> "ADD", conn |-> c, stamp |-> clock] \in Command /\ Cmd(c, "LIST") \in Command
      BY <1>2, StampType, CommandType
    <3> QED
      BY <3>1 DEF add_login_record
  <2> HIDE DEF s
  <2>2. pipe' \in CommandPipes
    <3>1. With(pipe, n, "auth", s) \in CommandPipes
      BY <1>1, <2>1, WithType DEF TypInv
    <3> QED
      BY <1>5, <3>1 DEF s
  <2>3. Fresh(c) /\ ~Fresh(c)'
    <3>1. up[n]
      BY <1>1 DEF SessInv, Dead
    <3>2. Owned(c) /\ Doing(queue, "CREATE", c) # 0
      BY <1>2, <1>5, <3>1 DEF SessInv
    <3>3. session[c] = "none" /\ c \in bev
      BY <3>2, OneOwner
    <3>4. session'[c] = "starting"
      BY <1>2, <1>5 DEF SessInv, Types
    <3> QED
      BY <3>3, <3>4 DEF Fresh
  <2>4. clock' # 0 /\ clock' =< 1 + Cardinality(Met)'
    <3>1. clock' = clock \/ (clock' = clock + 1 /\ \E d \in Conn : Fresh(d) /\ ~Fresh(d)')
      BY <1>2, <1>5, <2>3
    <3> QED
      BY <3>1, ClockStep
  <2> QED
    BY <1>1, <1>3, <2>2, <2>4 DEF TypInv
<1> QED
  BY <1>1, <1>4, <1>5

LEMMA TypInvInit == ASSUME ConstantsOK, Init PROVE TypInv
<1>1. /\ woken \in [Node -> BOOLEAN] /\ pipe \in CommandPipes /\ answers \in AnswerPipes
      /\ bcast \in Bcasts /\ clock = 1
      /\ kicks = 0 /\ lost = 0 /\ stalls = 0 /\ crashes = 0
  <2>1. \A T : [k \in Context |-> <<>>] \in [Context -> Seq(T)]
    OBVIOUS
  <2> QED
    BY <2>1 DEF Init, CommandPipes, AnswerPipes, Bcasts
<1>2. rec \in [Context -> Records]
  <2>1. 0 \in 0 .. MaxTime
    BY MaxTimeType
  <2> QED
    BY <2>1 DEF Init, Records
<1>3. clock # 0 /\ clock =< 1 + Cardinality(Met)
  <2>1. Met \in SUBSET Conn
    BY DEF Met
  <2>2. Cardinality(Met) \in Nat
    BY <2>1, MaxTimeType
  <2> QED
    BY <1>1, <2>2
<1>4. /\ 0 \in 0 .. MaxKicks /\ 0 \in 0 .. MaxLost /\ 0 \in 0 .. MaxStall /\ 0 \in 0 .. MaxCrash
  BY DEF ConstantsOK
<1> QED
  BY <1>1, <1>2, <1>3, <1>4 DEF TypInv

LEMMA TypInvStep == ASSUME ConstantsOK, SessInv, TypInv, [Next]_vars PROVE TypInv'
<1>1. ASSUME NEW c \in Conn,
             \/ Accept(c) \/ BevEventCallback(c) \/ BevReadCallback(c)
             \/ EventCallback(c) \/ HandleKick(c) \/ PeerCloses(c)
             \/ \E k \in Context : Expire(k, c)
      PROVE  TypInv'
  BY <1>1, TypSocket
<1>2. ASSUME NEW n \in Node, Loop(n) PROVE TypInv'
  BY <1>2, TypCallbacks, TypAddLogin, TypRequest DEF Loop
<1>3. ASSUME NEW n \in Node, Server(n) PROVE TypInv'
  BY <1>3, TypServer
<1>4. ASSUME NEW n \in Node, Crash(n) \/ DieOfUndefined(n) \/ \E k \in Context : LoseBroadcast(n, k)
      PROVE  TypInv'
  BY <1>4, TypFaults
<1>5. CASE UNCHANGED vars
  <2>1. UNCHANGED <<woken, pipe, answers, bcast, rec, clock, kicks, lost, stalls, crashes>>
    BY <1>5 DEF vars, objectVars, wireVars, faultVars
  <2> QED
    BY <2>1, TypQuiet DEF TypInv
<1> QED
  BY <1>1, <1>2, <1>3, <1>4, <1>5 DEF Next

\* Only connections are kicked.
LEMMA InterruptType ==
    ASSUME SessInv, interrupted \subseteq Conn, [Next]_vars PROVE interrupted' \subseteq Conn
<1>1. ASSUME NEW n \in Node, Redis_Auth_Broadcast_Callback(n) PROVE interrupted' \subseteq Conn
  <2>1. \/ interrupted' = interrupted
        \/ \E c \in logins : interrupted' \in {interrupted, interrupted \cup {c}}
    BY <1>1 DEF Redis_Auth_Broadcast_Callback, Interrupt
  <2> QED
    BY <2>1 DEF SessInv, Types
<1>2. ASSUME NEW n \in Node, Redis_Broadcast_Callback(n) PROVE interrupted' \subseteq Conn
  <2>1. \/ interrupted' = interrupted
        \/ \E c \in registered : interrupted' \in {interrupted, interrupted \cup {c}}
    BY <1>2 DEF Redis_Broadcast_Callback, Interrupt, KickMap
  <2> QED
    BY <2>1 DEF SessInv, Types
<1>3. ASSUME NEW c \in Conn,
             \/ Accept(c) \/ BevEventCallback(c) \/ BevReadCallback(c)
             \/ EventCallback(c) \/ HandleKick(c) \/ PeerCloses(c)
             \/ \E k \in Context : Expire(k, c)
      PROVE  interrupted' = interrupted
  BY <1>3 DEF Accept, BevEventCallback, BevReadCallback, EventCallback, HandleKick, PeerCloses, Expire
<1>4. ASSUME NEW n \in Node, Redis_Verify_Callback(n) \/ Redis_Add_Login_Callback(n)
                             \/ Redis_Register_Callback(n) \/ Request_Process_Cb(n)
      PROVE  interrupted' = interrupted
  BY <1>4 DEF Redis_Verify_Callback, Redis_Add_Login_Callback, Redis_Register_Callback,
              Request_Process_Cb
<1>5. ASSUME NEW n \in Node, Server(n) PROVE interrupted' = interrupted
  BY <1>5 DEF Server, ExecVerify, ExecKick, ExecRecord, ExecList, Executes
<1>6. ASSUME NEW n \in Node, Crash(n) \/ DieOfUndefined(n) \/ \E k \in Context : LoseBroadcast(n, k)
      PROVE  interrupted' = interrupted
  BY <1>6 DEF Crash, DieOfUndefined, Die, LoseBroadcast
<1>7. CASE UNCHANGED vars
  BY <1>7 DEF vars
<1> QED
  BY <1>1, <1>2, <1>3, <1>4, <1>5, <1>6, <1>7 DEF Next, Loop

\* Every variable keeps its type: the clock of the logins is bounded because a
\* socket makes one session at most (Carrier's create requests).
THEOREM SessTypeCorrect == Spec => []TypeOK
<1>1. Init => SessInv /\ TypInv /\ interrupted \subseteq Conn
  BY ConstantsOK, SessInvInit, TypInvInit DEF Init
<1>2. SessInv /\ TypInv /\ interrupted \subseteq Conn /\ [Next]_vars
          => (SessInv /\ TypInv /\ interrupted \subseteq Conn)'
  BY ConstantsOK, SessInvStep, TypInvStep, InterruptType
<1>3. SessInv /\ TypInv /\ interrupted \subseteq Conn => TypeOK
  BY ConstantsOK, StampType
<1> QED
  BY <1>1, <1>2, <1>3, PTL DEF Spec
=============================================================================
