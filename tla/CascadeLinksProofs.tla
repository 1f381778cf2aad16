------------------------- MODULE CascadeLinksProofs -------------------------
(* One edge of the cascade, for every set of orders, every number of       *)
(* connections and every interleaving of the two nodes' goroutines: a      *)
(* registered session belongs to the order in force, and a session that    *)
(* runs is registered or about to be closed.                               *)
EXTENDS CascadeLinks, SequenceTheorems, TLAPS

-----------------------------------------------------------------------------
(* The inductive invariant                                                 *)

PendOps == {"answer", "authorize", "establish"}
UseOps == {"run", "close", "unregister", "down", "up"}
ConnSteps == {Do(op, c) : op \in PendOps \cup UseOps, c \in Conns}
Steps == ConnSteps \cup {Do("top", None), Do("exit", None)}

Types ==
  /\ edge \in [Nodes -> Orders \cup {None}]
  /\ reg \in [Nodes -> Conns \cup {None}]
  /\ held \in [Nodes -> [Conns -> Orders \cup {None}]]
  /\ est \in [Nodes -> SUBSET Conns] /\ shut \in [Nodes -> SUBSET Conns]
  /\ wire \in [Conns -> {"free", "hello", "accepted", "refused", "cut"}]
  /\ dialing \in BOOLEAN
  /\ job \in [Threads -> Seq(Steps)]

\* A handshake is the first thing its goroutine has to do, the dial loop's
\* next round the last, and a report of the end follows the unregistering.
Shape(t) ==
  \A i \in 1..Len(job[t]) : LET x == job[t][i] IN
    /\ x.op \in PendOps => i = 1 /\ t \in {DialLoop, Inbound(x.conn)}
    /\ x.op \in {"top", "exit"} => i = Len(job[t]) /\ t = DialLoop
    /\ x.op = "down" => i = 1 \/ (i = 2 /\ job[t][1] = Do("unregister", x.conn))
    /\ x.op = "answer" => t = DialLoop
    /\ x.op = "authorize" => t # DialLoop

Shapes ==
  /\ \A t \in Threads : Shape(t)
  /\ ~dialing => job[DialLoop] = <<>>

\* Goroutine t, or one of node n, has step op of connection c before it.
In(s, x) == \E i \in 1..Len(s) : s[i] = x
Says(n, op, c) == \E t \in Threads : t[1] = n /\ In(job[t], Do(op, c))

Pending(n, c) ==
  (\E op \in PendOps : Says(n, op, c)) \/ (n = Parent /\ wire[c] = "hello")
Untouched(n, c) ==
  reg[n] # c /\ c \notin shut[n] /\ \A op \in UseOps : ~Says(n, op, c)

\* A connection is new to a node until its handshake is over.
New(n, c) ==
  /\ wire[c] = "free" => ~Pending(n, c) /\ Untouched(n, c)
  /\ Pending(n, c) => Untouched(n, c)
  /\ Says(n, "authorize", c) => wire[c] \in {"hello", "cut"}
  /\ n = Parent /\ Says(n, "establish", c) => wire[c] # "hello"

\* A registered session is being served or closed; unregistering follows the
\* closing of the socket, and the session is then registered no more.
Ends(n, c) ==
  /\ reg[n] = c => \E op \in {"run", "close", "unregister"} : Says(n, op, c)
  /\ reg[n] = c /\ c \in shut[n] => Says(n, "unregister", c)
  /\ c \in shut[n] \/ Says(n, "unregister", c) => wire[c] = "cut"

DownLast ==
  \A t \in Threads : job[t] # <<>> /\ Head(job[t]).op = "down" => reg[t[1]] # Head(job[t]).conn

\* Nothing is lost sight of.
Known(n, c) ==
  held[n][c] # None /\ wire[c] \in {"hello", "accepted"} =>
    \/ reg[n] = c \/ (n = Parent /\ wire[c] = "hello")
    \/ \E op \in {"answer", "establish", "close"} : Says(n, op, c)

SessionOK(n, c) == New(n, c) /\ Ends(n, c) /\ Known(n, c)

IInv ==
  /\ Types /\ Shapes /\ RegisteredInForce /\ DownLast
  /\ \A n \in Nodes, c \in Conns : SessionOK(n, c)

-----------------------------------------------------------------------------
(* Goroutines and their steps                                              *)

LEMMA ThreadFacts ==
  /\ DialLoop \in Threads /\ DialLoop[1] = Child
  /\ \A n \in Nodes : /\ Control(n) \in Threads /\ Control(n)[1] = n /\ Control(n) # DialLoop
                      /\ Watchdog(n) \in Threads /\ Watchdog(n)[1] = n /\ Watchdog(n) # DialLoop
  /\ \A c \in Conns : Inbound(c) \in Threads /\ Inbound(c)[1] = Parent /\ Inbound(c) # DialLoop
  /\ \A t \in Threads : t[1] \in Nodes
  /\ Parent # Child
BY DEF Threads, Nodes, Control, Watchdog, DialLoop, Inbound, Parent, Child

LEMMA StepFacts ==
  /\ \A op, c : Do(op, c).op = op /\ Do(op, c).conn = c
  /\ \A op, c, op2, c2 : Do(op, c) = Do(op2, c2) => op = op2 /\ c = c2
  /\ \A c \in Conns, op \in PendOps \cup UseOps : Do(op, c) \in Steps
  /\ Do("top", None) \in Steps /\ Do("exit", None) \in Steps
  /\ \A x \in Steps : /\ x = Do(x.op, x.conn)
                      /\ x.op \notin {"top", "exit"} => x.conn \in Conns /\ x.op \in PendOps \cup UseOps
<1>1. \A op, c : Do(op, c).op = op /\ Do(op, c).conn = c
  BY DEF Do
<1>2. \A op, c, op2, c2 : Do(op, c) = Do(op2, c2) => op = op2 /\ c = c2
  BY <1>1
<1>3. /\ \A c \in Conns, op \in PendOps \cup UseOps : Do(op, c) \in Steps
      /\ Do("top", None) \in Steps /\ Do("exit", None) \in Steps
  BY DEF Steps, ConnSteps
<1>4. ASSUME NEW x \in Steps
      PROVE  /\ x = Do(x.op, x.conn)
             /\ x.op \notin {"top", "exit"} => x.conn \in Conns /\ x.op \in PendOps \cup UseOps
  <2>1. CASE x \in ConnSteps
    BY <1>1, <2>1 DEF ConnSteps
  <2>2. CASE x \in {Do("top", None), Do("exit", None)}
    BY <1>1, <2>2
  <2> QED
    BY <2>1, <2>2 DEF Steps
<1> QED
  BY <1>1, <1>2, <1>3, <1>4

\* What a goroutine has left when its first step is replaced.
LEMMA Prepended ==
  ASSUME NEW S, NEW s \in Seq(S), s # <<>>, NEW a \in Seq(S)
  PROVE  LET r == a \o Tail(s) IN
         /\ r \in Seq(S) /\ Len(r) = Len(a) + Len(s) - 1
         /\ \A i \in 1..Len(a) : i \in 1..Len(r) /\ r[i] = a[i]
         /\ \A i \in 1..Len(r) : i \notin 1..Len(a) =>
              i - Len(a) + 1 \in 2..Len(s) /\ r[i] = s[i - Len(a) + 1]
         /\ \A j \in 2..Len(s) : j - 1 + Len(a) \in 1..Len(r) /\ r[j - 1 + Len(a)] = s[j]
         /\ Len(s) \in Nat \ {0} /\ Len(a) \in Nat /\ Head(s) = s[1]
<1> DEFINE r == a \o Tail(s)
<1>1. /\ Tail(s) \in Seq(S) /\ Len(Tail(s)) = Len(s) - 1 /\ Head(s) = s[1]
      /\ \A i \in 1..Len(Tail(s)) : Tail(s)[i] = s[i + 1]
      /\ Len(s) \in Nat \ {0} /\ Len(a) \in Nat
  BY HeadTailProperties, EmptySeq, LenProperties
<1>2. /\ r \in Seq(S) /\ Len(r) = Len(a) + Len(Tail(s))
      /\ \A i \in 1..Len(r) : r[i] = IF i <= Len(a) THEN a[i] ELSE Tail(s)[i - Len(a)]
  BY <1>1, ConcatProperties
<1> HIDE DEF r
<1>3. ASSUME NEW i \in 1..Len(r), i \notin 1..Len(a)
      PROVE  i - Len(a) + 1 \in 2..Len(s) /\ r[i] = s[i - Len(a) + 1]
  <2>1. i - Len(a) \in 1..Len(Tail(s)) /\ ~(i <= Len(a)) /\ i - Len(a) + 1 \in 2..Len(s)
    BY <1>1, <1>2, <1>3
  <2> QED
    BY <1>1, <1>2, <2>1
<1>4. ASSUME NEW j \in 2..Len(s)
      PROVE  j - 1 + Len(a) \in 1..Len(r) /\ r[j - 1 + Len(a)] = s[j]
  <2> DEFINE i == j - 1 + Len(a)
  <2>1. i \in 1..Len(r) /\ i \notin 1..Len(a) /\ i - Len(a) + 1 = j
    BY <1>1, <1>2
  <2> HIDE DEF i
  <2>2. r[i] = s[i - Len(a) + 1]
    BY <1>3, <2>1
  <2> QED
    BY <2>1, <2>2 DEF i
<1>5. \A i \in 1..Len(a) : i \in 1..Len(r) /\ r[i] = a[i]
  BY <1>1, <1>2
<1>6. Len(r) = Len(a) + Len(s) - 1
  BY <1>1, <1>2
<1> QED
  BY <1>1, <1>2, <1>3, <1>4, <1>5, <1>6 DEF r

\* Goroutine t replaces its first step by those of a.
Goes(t, a) == job' = [job EXCEPT ![t] = a \o Tail(@)]

\* It has nothing new to do but a, and loses nothing but its first step.
LEMMA Gone ==
  ASSUME Types, NEW t \in Threads, job[t] # <<>>, NEW a \in Seq(Steps), Goes(t, a),
         NEW n, NEW op, NEW c
  PROVE  /\ Says(n, op, c)' => Says(n, op, c) \/ (n = t[1] /\ In(a, Do(op, c)))
         /\ n = t[1] /\ In(a, Do(op, c)) => Says(n, op, c)'
         /\ Says(n, op, c) /\ Do(op, c) # Head(job[t]) => Says(n, op, c)'
         /\ Says(n, op, c) /\ n # t[1] => Says(n, op, c)'
<1> DEFINE x == Do(op, c)
           s == job[t]
           r == a \o Tail(s)
<1>1. /\ job'[t] = r /\ \A u \in Threads : u # t => job'[u] = job[u]
      /\ s \in Seq(Steps) /\ DOMAIN job = Threads /\ DOMAIN job' = Threads
  BY DEF Types, Goes
<1>2. /\ Len(r) = Len(a) + Len(s) - 1
      /\ \A i \in 1..Len(a) : i \in 1..Len(r) /\ r[i] = a[i]
      /\ \A i \in 1..Len(r) : i \notin 1..Len(a) =>
           i - Len(a) + 1 \in 2..Len(s) /\ r[i] = s[i - Len(a) + 1]
      /\ \A j \in 2..Len(s) : j - 1 + Len(a) \in 1..Len(r) /\ r[j - 1 + Len(a)] = s[j]
      /\ Len(s) \in Nat \ {0} /\ Len(a) \in Nat /\ Head(s) = s[1]
  BY <1>1, Prepended
<1> HIDE DEF r, s, x
<1>3. \A j \in 2..Len(s) : j \in 1..Len(s)
  BY <1>2
<1>4. In(r, x) => In(a, x) \/ In(s, x)
  <2> SUFFICES ASSUME NEW i \in 1..Len(r), r[i] = x, i \notin 1..Len(a) PROVE In(s, x)
    BY <1>2 DEF In
  <2>1. i - Len(a) + 1 \in 1..Len(s) /\ s[i - Len(a) + 1] = x
    BY <1>2, <1>3
  <2> QED
    BY <2>1 DEF In
<1>5. In(a, x) => In(r, x)
  BY <1>2 DEF In
<1>6. In(s, x) /\ x # Head(s) => In(r, x)
  <2> SUFFICES ASSUME NEW i \in 1..Len(s), s[i] = x, x # Head(s) PROVE In(r, x)
    BY DEF In
  <2>1. i \in 2..Len(s)
    BY <1>2
  <2> QED
    BY <1>2, <2>1 DEF In
<1>7. \A u \in Threads : In(job'[u], x) => In(job[u], x) \/ (u = t /\ In(a, x))
  BY <1>1, <1>4 DEF s
<1>8. \A u \in Threads : In(job[u], x) /\ (x # Head(job[t]) \/ u # t) => In(job'[u], x)
  BY <1>1, <1>6 DEF s
<1>9. Says(n, op, c) = (\E u \in Threads : u[1] = n /\ In(job[u], x))
  BY DEF Says, x
<1>10. Says(n, op, c)' = (\E u \in Threads : u[1] = n /\ In(job'[u], x))
  BY DEF Says, x, In
<1> QED
  BY <1>1, <1>5, <1>7, <1>8, <1>9, <1>10 DEF x, s

\* Goroutine t starts with a.
Begins(t, a) == job' = [job EXCEPT ![t] = a]

\* One that had nothing to do has a to do, and nobody loses anything.
LEMMA Started ==
  ASSUME Types, NEW t \in Threads, job[t] = <<>>, NEW a \in Seq(Steps),
         Begins(t, a), NEW n, NEW op, NEW c
  PROVE  Says(n, op, c)' <=> Says(n, op, c) \/ (n = t[1] /\ In(a, Do(op, c)))
<1> DEFINE x == Do(op, c)
<1>1. job'[t] = a /\ \A u \in Threads : u # t => job'[u] = job[u]
  BY DEF Types, Begins
<1>2. ~In(job[t], x)
  BY EmptySeq DEF In
<1> HIDE DEF x
<1>3. Says(n, op, c) = (\E u \in Threads : u[1] = n /\ In(job[u], x))
  BY DEF Says, x
<1>4. Says(n, op, c)' = (\E u \in Threads : u[1] = n /\ In(job'[u], x))
  BY DEF Says, x, In
<1> QED
  BY <1>1, <1>2, <1>3, <1>4 DEF x

\* The first step is said by its goroutine's node.
LEMMA SaysHead ==
  ASSUME Types, NEW t \in Threads, job[t] # <<>>
  PROVE  /\ Head(job[t]) \in Steps /\ Head(job[t]) = job[t][1] /\ 1 \in 1..Len(job[t])
         /\ Head(job[t]) = Do(Head(job[t]).op, Head(job[t]).conn)
         /\ Says(t[1], Head(job[t]).op, Head(job[t]).conn)
<1>1. /\ job[t] \in Seq(Steps) /\ Head(job[t]) \in Steps /\ Head(job[t]) = job[t][1]
      /\ Len(job[t]) \in Nat \ {0}
  BY HeadTailProperties, EmptySeq DEF Types
<1>2. Head(job[t]) = Do(Head(job[t]).op, Head(job[t]).conn)
  BY <1>1, StepFacts
<1> QED
  BY <1>1, <1>2 DEF Says, In

\* The new first steps keep the shape of a goroutine's work.
LEMMA ShapeGoes ==
  ASSUME Types, Shapes, NEW t \in Threads, job[t] # <<>>, NEW a \in Seq(Steps), Goes(t, a),
         \A i \in 1..Len(a) :
           /\ a[i].op \in PendOps => i = 1 /\ t \in {DialLoop, Inbound(a[i].conn)}
           /\ a[i].op \in {"top", "exit"} => i = Len(a) /\ Len(job[t]) = 1 /\ t = DialLoop
           /\ a[i].op = "down" => i = 2 /\ a[1] = Do("unregister", a[i].conn)
           /\ a[i].op = "answer" => t = DialLoop
           /\ a[i].op = "authorize" => t # DialLoop,
         Head(job[t]).op = "unregister" => a = <<>>
  PROVE  \A u \in Threads : Shape(u)'
<1> DEFINE s == job[t]
           r == a \o Tail(s)
<1>1. job'[t] = r /\ (\A u \in Threads : u # t => job'[u] = job[u]) /\ s \in Seq(Steps)
  BY DEF Types, Goes
<1>2. /\ Len(r) = Len(a) + Len(s) - 1
      /\ \A i \in 1..Len(a) : i \in 1..Len(r) /\ r[i] = a[i]
      /\ \A i \in 1..Len(r) : i \notin 1..Len(a) =>
           i - Len(a) + 1 \in 2..Len(s) /\ r[i] = s[i - Len(a) + 1]
      /\ Len(s) \in Nat \ {0} /\ Len(a) \in Nat /\ Head(s) = s[1]
  BY <1>1, Prepended
<1>3. \A u \in Threads : u # t => Shape(u)'
  BY <1>1 DEF Shapes, Shape
<1>4. Shape(t)'
  <2> SUFFICES ASSUME NEW i \in 1..Len(r)
               PROVE  /\ r[i].op \in PendOps => i = 1 /\ t \in {DialLoop, Inbound(r[i].conn)}
                      /\ r[i].op \in {"top", "exit"} => i = Len(r) /\ t = DialLoop
                      /\ r[i].op = "down" => i = 1 \/ (i = 2 /\ r[1] = Do("unregister", r[i].conn))
                      /\ r[i].op = "answer" => t = DialLoop
                      /\ r[i].op = "authorize" => t # DialLoop
    BY <1>1 DEF Shape
  <2> HIDE DEF r, s
  <2>1. CASE i \in 1..Len(a)
    <3>1. r[i] = a[i] /\ (i = 2 => 1 \in 1..Len(a) /\ r[1] = a[1])
      BY <1>2, <2>1
    <3>2. Len(s) = 1 => Len(r) = Len(a)
      BY <1>2
    <3> QED
      BY <2>1, <3>1, <3>2 DEF s
  <2>2. CASE i \notin 1..Len(a)
    <3> DEFINE j == i - Len(a) + 1
    <3>1. j \in 2..Len(s) /\ r[i] = s[j] /\ j \in 1..Len(s)
      BY <1>2, <2>2
    <3>2. /\ s[j].op \in PendOps => j = 1
          /\ s[j].op \in {"top", "exit"} => j = Len(s) /\ t = DialLoop
          /\ s[j].op = "down" => j = 1 \/ (j = 2 /\ s[1] = Do("unregister", s[j].conn))
      BY <3>1 DEF Shapes, Shape, s
    <3>3. s[j].op = "down" => i = 1
      <4> SUFFICES ASSUME s[j].op = "down" PROVE i = 1
        OBVIOUS
      <4>1. j = 2 /\ Head(s).op = "unregister"
        BY <1>2, <3>1, <3>2, StepFacts
      <4>2. a = <<>>
        BY <4>1 DEF s
      <4> QED
        BY <4>1, <4>2, EmptySeq
    <3>4. j = Len(s) => i = Len(r)
      BY <1>2
    <3>5. s[j].op \notin PendOps
      BY <1>2, <3>1, <3>2
    <3> QED
      BY <3>1, <3>2, <3>3, <3>4, <3>5 DEF PendOps
  <2> QED
    BY <2>1, <2>2
<1> QED
  BY <1>3, <1>4

LEMMA ShapeStarts ==
  ASSUME Types, Shapes, NEW t \in Threads, NEW a \in Seq(Steps), Begins(t, a),
         \A i \in 1..Len(a) :
           /\ i = 1 /\ Len(a) = 1 /\ a[i].op # "down"
           /\ a[i].op \in PendOps => t \in {DialLoop, Inbound(a[i].conn)}
           /\ a[i].op \in {"top", "exit"} => t = DialLoop
           /\ a[i].op = "answer" => t = DialLoop
           /\ a[i].op = "authorize" => t # DialLoop
  PROVE  \A u \in Threads : Shape(u)'
<1>1. job'[t] = a /\ (\A u \in Threads : u # t => job'[u] = job[u])
  BY DEF Types, Begins
<1>2. \A u \in Threads : u # t => Shape(u)'
  BY <1>1 DEF Shapes, Shape
<1>3. Shape(t)'
  BY <1>1 DEF Shape
<1> QED
  BY <1>2, <1>3

\* A handshake step that is over is nobody's any more.
LEMMA PendGone ==
  ASSUME Types, Shapes, NEW t \in Threads, job[t] # <<>>, Head(job[t]).op \in PendOps,
         NEW a \in Seq(Steps), Goes(t, a), NEW op \in PendOps,
         NEW c, c = Head(job[t]).conn, Says(t[1], op, c)'
  PROVE  In(a, Do(op, c))
<1> DEFINE s == job[t]
           r == a \o Tail(s)
<1>1. job'[t] = r /\ (\A u \in Threads : u # t => job'[u] = job[u]) /\ s \in Seq(Steps)
  BY DEF Types, Goes
<1>2. /\ \A i \in 1..Len(a) : i \in 1..Len(r) /\ r[i] = a[i]
      /\ \A i \in 1..Len(r) : i \notin 1..Len(a) =>
           i - Len(a) + 1 \in 2..Len(s) /\ r[i] = s[i - Len(a) + 1]
      /\ Len(s) \in Nat \ {0} /\ Len(a) \in Nat
  BY <1>1, Prepended
<1>3. /\ Head(s) = s[1] /\ 1 \in 1..Len(s) /\ Head(s) \in Steps
  BY SaysHead
<1>4. t \in {DialLoop, Inbound(c)} /\ c \in Conns
  BY <1>3, StepFacts DEF Shapes, Shape, PendOps
<1>5. PICK u \in Threads : u[1] = t[1] /\ In(job'[u], Do(op, c))
  BY DEF Says, In
<1>6. PICK i \in 1..Len(job'[u]) : job'[u][i] = Do(op, c)
  BY <1>5 DEF In
<1>7. CASE u # t
  <2>1. job'[u] = job[u]
    BY <1>1, <1>7
  <2>2. u \in {DialLoop, Inbound(c)}
    BY <1>6, <2>1, StepFacts DEF Shapes, Shape
  <2> QED
    BY <1>4, <1>5, <1>7, <2>2, ThreadFacts
<1>8. CASE u = t
  <2> HIDE DEF r, s
  <2>1. i \in 1..Len(r) /\ r[i] = Do(op, c)
    BY <1>1, <1>6, <1>8
  <2>2. CASE i \in 1..Len(a)
    BY <1>2, <2>1, <2>2 DEF In, s
  <2>3. CASE i \notin 1..Len(a)
    <3> DEFINE j == i - Len(a) + 1
    <3>1. j \in 2..Len(s) /\ s[j] = Do(op, c) /\ j \in 1..Len(s) /\ j # 1
      BY <1>2, <2>1, <2>3
    <3> HIDE DEF j
    <3>2. j = 1
      BY <3>1, StepFacts DEF Shapes, Shape, s
    <3> QED
      BY <3>1, <3>2
  <2> QED
    BY <2>2, <2>3
<1> QED
  BY <1>7, <1>8

\* The end of a session is reported after its registration is gone.
LEMMA DownGoes ==
  ASSUME Types, Shapes, DownLast, NEW t \in Threads, job[t] # <<>>, NEW a \in Seq(Steps), Goes(t, a),
         a # <<>> => a[1].op # "down",
         Head(job[t]).op = "unregister" => reg'[t[1]] # Head(job[t]).conn,
         \A n \in Nodes : reg'[n] \in {reg[n], None} \/ ~Says(n, "down", reg'[n])
  PROVE  DownLast'
<1> DEFINE s == job[t]
           r == a \o Tail(s)
<1>1. /\ job'[t] = r /\ (\A u \in Threads : u # t => job'[u] = job[u])
      /\ s \in Seq(Steps) /\ DOMAIN job' = Threads
  BY DEF Types, Goes
<1>2. /\ r \in Seq(Steps) /\ Len(r) = Len(a) + Len(s) - 1
      /\ \A i \in 1..Len(a) : i \in 1..Len(r) /\ r[i] = a[i]
      /\ \A i \in 1..Len(r) : i \notin 1..Len(a) =>
           i - Len(a) + 1 \in 2..Len(s) /\ r[i] = s[i - Len(a) + 1]
      /\ Len(s) \in Nat \ {0} /\ Len(a) \in Nat /\ Head(s) = s[1]
  BY <1>1, Prepended
<1>3. ASSUME NEW u \in Threads, u # t, job[u] # <<>>, Head(job[u]).op = "down"
      PROVE  reg'[u[1]] # Head(job[u]).conn
  <2>1. Says(u[1], "down", Head(job[u]).conn) /\ Head(job[u]) \in Steps /\ u[1] \in Nodes
    BY <1>3, SaysHead, ThreadFacts
  <2>2. Head(job[u]).conn \in Conns /\ reg[u[1]] # Head(job[u]).conn
    BY <1>3, <2>1, StepFacts DEF DownLast
  <2> QED
    BY <2>1, <2>2, NameAssumption DEF Conns
<1>4. ASSUME r # <<>>, Head(r).op = "down" PROVE reg'[t[1]] # Head(r).conn
  <2> HIDE DEF r
  <2>1. Head(r) = r[1] /\ 1 \in 1..Len(r)
    BY <1>2, <1>4, HeadTailProperties, EmptySeq
  <2>2. CASE a # <<>>
    <3>1. 1 \in 1..Len(a)
      BY <1>2, <2>2, EmptySeq
    <3> QED
      BY <1>2, <1>4, <2>1, <2>2, <3>1
  <2>3. CASE a = <<>>
    <3>1. Len(a) = 0
      BY <2>3, EmptySeq
    <3>2. 2 \in 1..Len(s) /\ r[1] = s[2]
      BY <1>2, <2>1, <3>1
    <3>3. s[1] = Do("unregister", s[2].conn)
      BY <1>4, <2>1, <3>2 DEF Shapes, Shape
    <3>4. Head(s).op = "unregister" /\ Head(s).conn = s[2].conn
      BY <1>2, <3>3, StepFacts
    <3> QED
      BY <2>1, <3>2, <3>4
  <2> QED
    BY <2>2, <2>3
<1> QED
  BY <1>1, <1>3, <1>4 DEF DownLast

LEMMA Short ==
  /\ <<>> \in Seq(Steps) /\ Len(<<>>) = 0 /\ \A x : ~In(<<>>, x)
  /\ \A y \in Steps : /\ <<y>> \in Seq(Steps) /\ Len(<<y>>) = 1 /\ <<y>>[1] = y /\ <<y>> # <<>>
                      /\ \A x : In(<<y>>, x) <=> x = y
  /\ \A y, z \in Steps : /\ <<y, z>> \in Seq(Steps) /\ Len(<<y, z>>) = 2 /\ <<y, z>> # <<>>
                         /\ <<y, z>>[1] = y /\ <<y, z>>[2] = z
                         /\ \A x : In(<<y, z>>, x) <=> x = y \/ x = z
  /\ \A y, z \in Steps : <<>> \o <<z>> = <<z>> /\ <<y>> \o <<z>> = <<y, z>>
<1>1. <<>> \in Seq(Steps) /\ Len(<<>>) = 0 /\ \A x : ~In(<<>>, x)
  BY EmptySeq DEF In
<1>2. ASSUME NEW y \in Steps
      PROVE  /\ <<y>> \in Seq(Steps) /\ Len(<<y>>) = 1 /\ <<y>>[1] = y /\ <<y>> # <<>>
             /\ \A x : In(<<y>>, x) <=> x = y
  BY DEF In
<1>3. ASSUME NEW y \in Steps, NEW z \in Steps
      PROVE  /\ <<y, z>> \in Seq(Steps) /\ Len(<<y, z>>) = 2 /\ <<y, z>> # <<>>
             /\ <<y, z>>[1] = y /\ <<y, z>>[2] = z
             /\ \A x : In(<<y, z>>, x) <=> x = y \/ x = z
  <2>1. <<y, z>> \in Seq(Steps) /\ Len(<<y, z>>) = 2 /\ <<y, z>> # <<>>
        /\ <<y, z>>[1] = y /\ <<y, z>>[2] = z
    OBVIOUS
  <2>2. 1..2 = {1, 2}
    OBVIOUS
  <2> QED
    BY <2>1, <2>2 DEF In
<1>4. ASSUME NEW y \in Steps, NEW z \in Steps
      PROVE  <<>> \o <<z>> = <<z>> /\ <<y>> \o <<z>> = <<y, z>>
  <2>1. Append(<<y>>, z) = <<y>> \o <<z>> /\ Append(<<>>, z) = <<>> \o <<z>>
    BY <1>1, <1>2, AppendIsConcat
  <2>2. /\ Append(<<y>>, z) \in Seq(Steps) /\ Len(Append(<<y>>, z)) = 2
        /\ Append(<<y>>, z)[1] = y /\ Append(<<y>>, z)[2] = z
    BY <1>2, AppendProperties
  <2>3. /\ Append(<<>>, z) \in Seq(Steps) /\ Len(Append(<<>>, z)) = 1 /\ Append(<<>>, z)[1] = z
    BY <1>1, AppendProperties
  <2>4. /\ \A i \in 1..2 : Append(<<y>>, z)[i] = <<y, z>>[i]
        /\ \A i \in 1..1 : Append(<<>>, z)[i] = <<z>>[i]
    <3>1. 1..2 = {1, 2} /\ 1..1 = {1}
      OBVIOUS
    <3> QED
      BY <1>2, <1>3, <2>2, <2>3, <3>1
  <2>5. Append(<<y>>, z) = <<y, z>>
    <3> DEFINE p == Append(<<y>>, z)
               q == <<y, z>>
    <3>1. /\ p \in Seq(Steps) /\ q \in Seq(Steps) /\ Len(p) = Len(q)
          /\ \A i \in 1..Len(p) : p[i] = q[i]
      BY <1>3, <2>2, <2>4
    <3> HIDE DEF p, q
    <3>2. p = q
      BY <3>1, SeqEqual
    <3> QED
      BY <3>2 DEF p, q
  <2>6. Append(<<>>, z) = <<z>>
    BY <1>2, <2>3, <2>4, SeqEqual
  <2> QED
    BY <2>1, <2>5, <2>6
<1> QED
  BY <1>1, <1>2, <1>3, <1>4

LEMMA Single ==
  ASSUME NEW y \in Steps
  PROVE  /\ <<y>> \in Seq(Steps) /\ Len(<<y>>) = 1 /\ <<y>>[1] = y
         /\ \A x : In(<<y>>, x) <=> x = y
BY DEF In

-----------------------------------------------------------------------------
(* The steps of a session's end                                            *)

\* What goroutine t finds at the head of its work.
LEMMA AtHead ==
  ASSUME IInv, NEW t \in Threads, NEW op, At(t, op), op \notin {"top", "exit"}
  PROVE  LET c == Head(job[t]).conn IN
         /\ job[t] # <<>> /\ Head(job[t]) = Do(op, c) /\ c \in Conns /\ t[1] \in Nodes
         /\ Says(t[1], op, c) /\ op \in PendOps \cup UseOps
         /\ Types /\ Shapes /\ DownLast /\ job[t] \in Seq(Steps)
BY SaysHead, StepFacts, ThreadFacts DEF IInv, At, Types

\* The work of goroutines changes as its types and the dial loop demand.
LEMMA JobGoes ==
  ASSUME Types, Shapes, NEW t \in Threads, job[t] # <<>>, NEW a \in Seq(Steps), Goes(t, a)
  PROVE  /\ job' \in [Threads -> Seq(Steps)]
         /\ dialing' = dialing => (~dialing' => job'[DialLoop] = <<>>)
<1>1. a \o Tail(job[t]) \in Seq(Steps)
  BY Prepended DEF Types
<1>2. job' \in [Threads -> Seq(Steps)]
  BY <1>1 DEF Types, Goes
<1>3. \A u \in Threads : u # t => job'[u] = job[u]
  BY DEF Types, Goes
<1> QED
  BY <1>2, <1>3, ThreadFacts DEF Shapes

LEMMA CloseStep ==
  ASSUME IInv, NEW t \in Threads, CloseSession(t)
  PROVE  IInv'
<1> DEFINE n == t[1]
           c == Head(job[t]).conn
           a == IF c \in shut[n] THEN <<>> ELSE <<Do("unregister", c), Do("down", c)>>
<1>1. /\ At(t, "close") /\ shut' = [shut EXCEPT ![n] = @ \cup {c}]
      /\ wire' = IF c \in shut[n] THEN wire ELSE [wire EXCEPT ![c] = "cut"]
      /\ Goes(t, a) /\ UNCHANGED <<epoch, edge, reg, held, est, dialing, told>>
  BY DEF CloseSession, Continue, Goes, nodeVars
<1>2. /\ job[t] # <<>> /\ Head(job[t]) = Do("close", c) /\ c \in Conns /\ n \in Nodes
      /\ Says(n, "close", c)
      /\ Types /\ Shapes /\ DownLast /\ job[t] \in Seq(Steps)
  BY <1>1, AtHead
<1>3. Do("unregister", c) \in Steps /\ Do("down", c) \in Steps
  BY <1>2, StepFacts DEF UseOps
<1>4. a \in Seq(Steps) /\ \A x : In(a, x) <=> c \notin shut[n] /\ x \in {Do("unregister", c), Do("down", c)}
  BY <1>3, Short
<1>5. \A i \in 1..Len(a) : /\ i = 1 => a[i] = Do("unregister", c)
                           /\ i = 2 => a[i] = Do("down", c) /\ a[1] = Do("unregister", c)
                           /\ i \in {1, 2}
  BY <1>3, Short
<1>6. a # <<>> => a[1] = Do("unregister", c)
  BY <1>3, Short
<1> HIDE DEF a, c, n
<1>7. Types'
  <2>1. job' \in [Threads -> Seq(Steps)]
    BY <1>1, <1>2, <1>4, JobGoes
  <2>2. shut' \in [Nodes -> SUBSET Conns] /\ wire' \in [Conns -> {"free", "hello", "accepted", "refused", "cut"}]
    BY <1>1, <1>2 DEF Types
  <2> QED
    BY <1>1, <1>2, <2>1, <2>2 DEF Types
<1>8. Shapes'
  <2>0. \A i \in 1..Len(a) :
          /\ a[i].op \notin PendOps /\ a[i].op \notin {"top", "exit"}
          /\ a[i].op = "down" => i = 2 /\ a[1] = Do("unregister", a[i].conn)
    BY <1>5, StepFacts DEF PendOps
  <2>1. \A u \in Threads : Shape(u)'
    <3>1. Head(job[t]).op # "unregister"
      BY <1>2, StepFacts
    <3> QED
      BY <1>1, <1>2, <1>4, <2>0, <3>1, ShapeGoes DEF PendOps
  <2> QED
    BY <1>1, <1>2, <1>4, <2>1, JobGoes DEF Shapes
<1>9. RegisteredInForce'
  BY <1>1 DEF IInv, RegisteredInForce
<1>10. DownLast'
  BY <1>1, <1>2, <1>4, <1>6, DownGoes, StepFacts
<1>11. ASSUME NEW m \in Nodes, NEW d \in Conns PROVE SessionOK(m, d)'
  <2>1. \A op : /\ Says(m, op, d)' =>
                     Says(m, op, d) \/ (m = n /\ c \notin shut[n] /\ Do(op, d) \in {Do("unregister", c), Do("down", c)})
                /\ m = n /\ c \notin shut[n] /\ Do(op, d) \in {Do("unregister", c), Do("down", c)} => Says(m, op, d)'
                /\ Says(m, op, d) /\ Do(op, d) # Do("close", c) => Says(m, op, d)'
                /\ Says(m, op, d) /\ m # n => Says(m, op, d)'
    BY <1>1, <1>2, <1>4, Gone DEF n
  <2>2. \A op : /\ Says(m, op, d)' => Says(m, op, d) \/ (m = n /\ d = c /\ c \notin shut[n] /\ op \in {"unregister", "down"})
                /\ m = n /\ d = c /\ c \notin shut[n] /\ op \in {"unregister", "down"} => Says(m, op, d)'
                /\ Says(m, op, d) /\ ~(m = n /\ d = c /\ op = "close") => Says(m, op, d)'
    BY <2>1, StepFacts
  <2>3. SessionOK(m, d)
    BY DEF IInv
  <2>4. /\ shut'[m] = IF m = n THEN shut[m] \cup {c} ELSE shut[m]
        /\ wire'[d] = IF d = c /\ c \notin shut[n] THEN "cut" ELSE wire[d]
        /\ reg'[m] = reg[m] /\ held' = held
    BY <1>1, <1>2 DEF Types
  <2>5. m = n /\ d = c => ~Pending(m, d) /\ wire[d] # "free"
    BY <1>2, <2>3 DEF SessionOK, New, Untouched, UseOps
  <2>6. Pending(m, d)' => Pending(m, d)
    BY <2>2, <2>4 DEF Pending, PendOps
  <2>7. New(m, d)'
    BY <2>2, <2>3, <2>4, <2>5, <2>6 DEF SessionOK, New, Untouched, UseOps
  <2>8. Ends(m, d)'
    BY <2>2, <2>3, <2>4 DEF SessionOK, Ends
  <2>9. Known(m, d)'
    BY <2>2, <2>3, <2>4 DEF SessionOK, Ends, Known
  <2> QED
    BY <2>7, <2>8, <2>9 DEF SessionOK
<1> QED
  BY <1>7, <1>8, <1>9, <1>10, <1>11 DEF IInv

LEMMA ShapeKeeps ==
  ASSUME Types, Shapes, NEW t \in Threads, job[t] # <<>>, NEW a \in Seq(Steps), Goes(t, a),
         dialing' = dialing, \A i \in 1..Len(a) : a[i].op \in {"run", "close"},
         Head(job[t]).op = "unregister" => a = <<>>
  PROVE  Shapes'
<1>1. \A i \in 1..Len(a) : /\ a[i].op \notin PendOps /\ a[i].op \notin {"top", "exit"}
                           /\ a[i].op # "down"
  BY DEF PendOps
<1>2. \A u \in Threads : Shape(u)'
  BY <1>1, ShapeGoes DEF PendOps
<1> QED
  BY <1>2, JobGoes DEF Shapes

\* The last steps of a session's end, and the reports, take a step off.
LEMMA LastSteps ==
  ASSUME IInv, NEW t \in Threads, Unregister(t) \/ ReportDown(t) \/ ReportUp(t)
  PROVE  IInv'
<1> DEFINE n == t[1]
           c == Head(job[t]).conn
           op == Head(job[t]).op
           a == <<>>
<1>0. a \in Seq(Steps) /\ Len(a) = 0 /\ a = <<>> /\ \A x : ~In(a, x)
  BY Short
<1>1. /\ op \in {"unregister", "down", "up"} /\ At(t, op) /\ Goes(t, a)
      /\ UNCHANGED <<epoch, edge, held, shut, wire, dialing>>
  BY DEF Unregister, ReportDown, ReportUp, Continue, Goes, At, sessVars, nodeVars
<1>2. /\ job[t] # <<>> /\ Head(job[t]) = Do(op, c) /\ c \in Conns /\ n \in Nodes
      /\ Says(n, op, c)
      /\ Types /\ Shapes /\ DownLast /\ job[t] \in Seq(Steps)
  BY <1>1, AtHead
<1>3. /\ op = "unregister" => reg' = [reg EXCEPT ![n] = IF @ = c THEN None ELSE @] /\ est' = est
      /\ op = "down" => reg' = reg /\ est' = [est EXCEPT ![n] = @ \ {c}]
      /\ op = "up" => reg' = reg /\ est' = est
  BY DEF Unregister, ReportDown, ReportUp, At, sessVars, nodeVars
<1>4. c # None
  BY <1>2, NameAssumption DEF Conns
<1>5. op = "down" => reg[n] # c
  BY <1>2 DEF DownLast
<1>6. \A m \in Nodes : reg'[m] = IF m = n /\ op = "unregister" /\ reg[m] = c THEN None ELSE reg[m]
  BY <1>1, <1>2, <1>3 DEF Types
<1>7. \A m \in Nodes : est'[m] = IF m = n /\ op = "down" THEN est[m] \ {c} ELSE est[m]
  BY <1>1, <1>2, <1>3 DEF Types
<1> HIDE DEF a, c, n, op
<1>8. Types'
  <2>1. job' \in [Threads -> Seq(Steps)]
    BY <1>0, <1>1, <1>2, JobGoes
  <2>2. est' \in [Nodes -> SUBSET Conns] /\ reg' \in [Nodes -> Conns \cup {None}]
    BY <1>1, <1>2, <1>3 DEF Types
  <2> QED
    BY <1>1, <1>2, <2>1, <2>2 DEF Types
<1>9. Shapes'
  <2>1. \A i \in 1..Len(a) : a[i].op \in {"run", "close"}
    BY <1>0
  <2> QED
    BY <1>0, <1>1, <1>2, <2>1, ShapeKeeps
<1>10. RegisteredInForce'
  BY <1>1, <1>5, <1>6, <1>7 DEF IInv, RegisteredInForce
<1>11. DownLast'
  <2>1. Head(job[t]).op = "unregister" => reg'[t[1]] # Head(job[t]).conn
    BY <1>2, <1>4, <1>6 DEF n, c, op
  <2>2. \A m \in Nodes : reg'[m] \in {reg[m], None}
    BY <1>6
  <2> QED
    BY <1>0, <1>1, <1>2, <2>1, <2>2, DownGoes
<1>12. ASSUME NEW m \in Nodes, NEW d \in Conns PROVE SessionOK(m, d)'
  <2>1. \A o : /\ Says(m, o, d)' => Says(m, o, d)
               /\ Says(m, o, d) /\ ~(m = n /\ d = c /\ o = op) => Says(m, o, d)'
    <3>1. \A o : /\ Says(m, o, d)' => Says(m, o, d) \/ In(a, Do(o, d))
                 /\ Says(m, o, d) /\ Do(o, d) # Head(job[t]) => Says(m, o, d)'
                 /\ Says(m, o, d) /\ m # t[1] => Says(m, o, d)'
      BY <1>0, <1>1, <1>2, Gone
    <3> QED
      BY <1>0, <1>2, <3>1, StepFacts DEF n
  <2>2. SessionOK(m, d)
    BY DEF IInv
  <2>3. /\ wire' = wire /\ held' = held /\ shut' = shut /\ reg'[m] \in {reg[m], None} /\ d # None
        /\ reg'[m] # reg[m] => m = n /\ op = "unregister" /\ reg[m] = c
        /\ m = n /\ op = "unregister" => reg'[m] # c
    BY <1>1, <1>4, <1>6, NameAssumption DEF Conns
  <2>4. op = "unregister" => wire[c] = "cut"
    BY <1>2 DEF IInv, SessionOK, Ends
  <2>5. Pending(m, d)' => Pending(m, d)
    BY <2>1, <2>3 DEF Pending
  <2>6. Untouched(m, d) => Untouched(m, d)'
    BY <2>1, <2>3 DEF Untouched
  <2>7. New(m, d)'
    BY <2>1, <2>2, <2>3, <2>5, <2>6 DEF SessionOK, New
  <2>8. Ends(m, d)'
    BY <1>1, <2>1, <2>2, <2>3 DEF SessionOK, Ends
  <2>9. Known(m, d)'
    BY <1>1, <2>1, <2>2, <2>3, <2>4 DEF SessionOK, Known
  <2> QED
    BY <2>7, <2>8, <2>9 DEF SessionOK
<1> QED
  BY <1>8, <1>9, <1>10, <1>11, <1>12 DEF IInv

LEMMA ReadFailsStep ==
  ASSUME IInv, NEW t \in Threads, ReadFails(t)
  PROVE  IInv'
<1> DEFINE n == t[1]
           c == Head(job[t]).conn
           a == <<Do("close", c)>>
<1>1. /\ At(t, "run") /\ Goes(t, a)
      /\ UNCHANGED <<epoch, edge, reg, held, est, shut, wire, dialing>>
  BY DEF ReadFails, Continue, Goes, sessVars, nodeVars
<1>2. /\ job[t] # <<>> /\ Head(job[t]) = Do("run", c) /\ c \in Conns /\ n \in Nodes
      /\ Says(n, "run", c)
      /\ Types /\ Shapes /\ DownLast /\ job[t] \in Seq(Steps)
  BY <1>1, AtHead
<1>3. /\ a \in Seq(Steps) /\ (\A x : In(a, x) <=> x = Do("close", c))
      /\ Len(a) = 1 /\ a[1] = Do("close", c)
  BY <1>2, StepFacts, Short DEF UseOps
<1> HIDE DEF a, c, n
<1>4. Types'
  BY <1>1, <1>2, <1>3, JobGoes DEF Types
<1>5. Shapes'
  <2>1. \A i \in 1..Len(a) : a[i].op \in {"run", "close"}
    BY <1>3, StepFacts
  <2>2. Head(job[t]).op # "unregister"
    BY <1>2, StepFacts
  <2> QED
    BY <1>1, <1>2, <1>3, <2>1, <2>2, ShapeKeeps
<1>6. RegisteredInForce'
  BY <1>1 DEF IInv, RegisteredInForce
<1>7. DownLast'
  BY <1>1, <1>2, <1>3, StepFacts, DownGoes
<1>8. ASSUME NEW m \in Nodes, NEW d \in Conns PROVE SessionOK(m, d)'
  <2>1. \A o : /\ Says(m, o, d)' => Says(m, o, d) \/ (m = n /\ d = c /\ o = "close")
               /\ m = n /\ d = c /\ o = "close" => Says(m, o, d)'
               /\ Says(m, o, d) /\ ~(m = n /\ d = c /\ o = "run") => Says(m, o, d)'
    BY <1>1, <1>2, <1>3, Gone, StepFacts DEF n
  <2>2. SessionOK(m, d)
    BY DEF IInv
  <2>3. m = n /\ d = c => ~Pending(m, d) /\ wire[d] # "free"
    BY <1>2, <2>2 DEF SessionOK, New, Untouched, UseOps
  <2>4. Pending(m, d)' => Pending(m, d)
    BY <1>1, <2>1 DEF Pending, PendOps
  <2>5. New(m, d)'
    BY <1>1, <2>1, <2>2, <2>3, <2>4 DEF SessionOK, New, Untouched, UseOps
  <2>6. Ends(m, d)'
    BY <1>1, <2>1, <2>2 DEF SessionOK, Ends
  <2>7. Known(m, d)'
    BY <1>1, <2>1, <2>2 DEF SessionOK, Known
  <2> QED
    BY <2>5, <2>6, <2>7 DEF SessionOK
<1> QED
  BY <1>4, <1>5, <1>6, <1>7, <1>8 DEF IInv

-----------------------------------------------------------------------------
(* The handshake                                                           *)

\* edgeEstablished: what it registers is in force, and was new to the node.
LEMMA EstablishStep ==
  ASSUME IInv, NEW t \in Threads, Establish(t)
  PROVE  IInv'
<1> DEFINE n == t[1]
           c == Head(job[t]).conn
           old == reg[n]
           wanted == StillWanted(n, c)
           a == IF wanted THEN (IF old = None THEN <<>> ELSE <<Do("close", old)>>) \o <<Do("run", c)>>
                ELSE <<Do("close", c)>>
<1>1. /\ At(t, "establish") /\ Goes(t, a)
      /\ UNCHANGED <<epoch, edge, held, shut, wire, dialing>>
      /\ wanted => reg' = [reg EXCEPT ![n] = c] /\ est' = [est EXCEPT ![n] = (@ \ {old}) \cup {c}]
      /\ ~wanted => reg' = reg /\ est' = est
  BY DEF Establish, Continue, Goes
<1>2. /\ job[t] # <<>> /\ Head(job[t]) = Do("establish", c) /\ c \in Conns /\ n \in Nodes
      /\ Says(n, "establish", c)
      /\ Types /\ Shapes /\ DownLast /\ job[t] \in Seq(Steps)
  BY <1>1, AtHead
<1>3. /\ c # None /\ old \in Conns \cup {None}
      /\ \A d \in Conns : Do("close", d) \in Steps /\ Do("run", d) \in Steps
  BY <1>2, StepFacts, NameAssumption DEF UseOps, Types, Conns
<1>4. /\ a \in Seq(Steps) /\ a # <<>>
      /\ \A x : In(a, x) <=> \/ wanted /\ x = Do("run", c)
                             \/ wanted /\ old # None /\ x = Do("close", old)
                             \/ ~wanted /\ x = Do("close", c)
      /\ \A i \in 1..Len(a) : a[i] \in {Do("run", c), Do("close", old), Do("close", c)}
      /\ 1 \in 1..Len(a)
  <2>1. CASE ~wanted
    BY <1>2, <1>3, <2>1, Short
  <2>2. CASE wanted /\ old = None
    <3>1. a = <<Do("run", c)>>
      BY <1>2, <1>3, <2>2, Short
    <3> QED
      BY <1>2, <1>3, <2>2, <3>1, Short
  <2>3. CASE wanted /\ old # None
    <3>1. a = <<Do("close", old), Do("run", c)>>
      BY <1>2, <1>3, <2>3, Short
    <3>2. Do("close", old) \in Steps /\ Do("run", c) \in Steps
      BY <1>2, <1>3, <2>3
    <3> HIDE DEF a
    <3>3. \A i \in 1..Len(a) : i = 1 \/ i = 2
      BY <3>1, <3>2, Short
    <3> QED
      BY <2>3, <3>1, <3>2, <3>3, Short
  <2> QED
    BY <2>1, <2>2, <2>3
<1>5. wanted => /\ edge[n] # None /\ held[n][c].endpoint = edge[n].endpoint
                /\ held[n][c].epoch = edge[n].epoch
  BY DEF StillWanted, SameEdge
<1>6. Pending(n, c) /\ Untouched(n, c)
  BY <1>2 DEF IInv, SessionOK, New, Pending, PendOps
<1>7. \A m \in Nodes : /\ reg'[m] = IF m = n /\ wanted THEN c ELSE reg[m]
                       /\ est'[m] = IF m = n /\ wanted THEN (est[m] \ {old}) \cup {c} ELSE est[m]
  BY <1>1, <1>2 DEF Types
<1> HIDE DEF a, c, n, wanted
<1>8. Types'
  <2>1. job' \in [Threads -> Seq(Steps)]
    BY <1>1, <1>2, <1>4, JobGoes
  <2>2. reg' \in [Nodes -> Conns \cup {None}]
    BY <1>1, <1>2 DEF Types
  <2>3. CASE wanted
    <3>1. est' \in [Nodes -> SUBSET Conns]
      BY <1>1, <1>2, <2>3 DEF Types
    <3> QED
      BY <1>1, <1>2, <2>1, <2>2, <3>1 DEF Types
  <2>4. CASE ~wanted
    BY <1>1, <1>2, <2>1, <2>2, <2>4 DEF Types
  <2> QED
    BY <2>3, <2>4
<1>9. Shapes'
  <2>1. \A i \in 1..Len(a) : a[i].op \in {"run", "close"}
    BY <1>4, StepFacts
  <2>2. Head(job[t]).op # "unregister"
    BY <1>2, StepFacts
  <2> QED
    BY <1>1, <1>2, <1>4, <2>1, <2>2, ShapeKeeps
<1>10. RegisteredInForce'
  BY <1>1, <1>5, <1>7 DEF IInv, RegisteredInForce
<1>11. DownLast'
  <2>1. a[1].op # "down" /\ Head(job[t]).op # "unregister"
    BY <1>2, <1>4, StepFacts
  <2>2. \A m \in Nodes : reg'[m] \in {reg[m], None} \/ ~Says(m, "down", reg'[m])
    BY <1>6, <1>7 DEF Untouched, UseOps
  <2> QED
    BY <1>1, <1>2, <1>4, <2>1, <2>2, DownGoes
<1>12. ASSUME NEW m \in Nodes, NEW d \in Conns PROVE SessionOK(m, d)'
  <2>1. \A o : /\ Says(m, o, d)' => Says(m, o, d) \/ (m = n /\ In(a, Do(o, d)))
               /\ m = n /\ In(a, Do(o, d)) => Says(m, o, d)'
               /\ Says(m, o, d) /\ Do(o, d) # Head(job[t]) => Says(m, o, d)'
               /\ Says(m, o, d) /\ m # n => Says(m, o, d)'
    BY <1>1, <1>2, <1>4, Gone DEF n
  <2>2. \A o : In(a, Do(o, d)) <=> \/ wanted /\ o = "run" /\ d = c
                                   \/ wanted /\ d = old /\ o = "close"
                                   \/ ~wanted /\ o = "close" /\ d = c
    <3>1. d # None
      BY NameAssumption DEF Conns
    <3> QED
      BY <1>4, <3>1, StepFacts
  <2>3. \A o : Says(m, o, d) /\ ~(m = n /\ d = c /\ o = "establish") => Says(m, o, d)'
    BY <1>2, <2>1, StepFacts
  <2>4. SessionOK(m, d)
    BY DEF IInv
  <2>5. m = n /\ d = c => ~Pending(m, d)'
    <3> SUFFICES ASSUME m = n, d = c PROVE ~Pending(m, d)'
      OBVIOUS
    <3>1. \A o \in PendOps : ~In(a, Do(o, d))
      BY <2>2 DEF PendOps
    <3>2. ASSUME NEW o \in PendOps, Says(m, o, d)' PROVE FALSE
      <4>1. Head(job[t]).op \in PendOps /\ d = Head(job[t]).conn /\ Says(t[1], o, d)'
        BY <1>2, <3>2, StepFacts DEF PendOps, n
      <4> QED
        BY <1>1, <1>2, <1>4, <3>1, <4>1, PendGone
    <3>3. ~(m = Parent /\ wire'[d] = "hello")
      BY <1>1, <1>2, <2>4 DEF SessionOK, New
    <3> QED
      BY <3>2, <3>3 DEF Pending
  <2>6. ~(m = n /\ d = c) => (Pending(m, d)' => Pending(m, d))
    BY <1>1, <2>1, <2>2 DEF Pending, PendOps
  <2>7. /\ reg'[m] = IF m = n /\ wanted THEN c ELSE reg[m]
        /\ wire' = wire /\ shut' = shut /\ held' = held /\ (m = n => old = reg[m])
    BY <1>1, <1>7
  <2>8. wire[c] # "free"
    BY <1>2, <1>6 DEF IInv, SessionOK, New
  <2>9. ~(m = n /\ d = c) /\ Untouched(m, d) => Untouched(m, d)'
    BY <2>1, <2>2, <2>7 DEF Untouched, UseOps
  <2> HIDE DEF old
  <2>10. New(m, d)'
    <3>1. ~(m = n /\ d = c) => New(m, d)'
      BY <2>1, <2>2, <2>4, <2>6, <2>7, <2>9 DEF SessionOK, New
    <3>2. m = n /\ d = c => New(m, d)'
      BY <2>5, <2>7, <2>8 DEF New, Pending, PendOps
    <3> QED
      BY <3>1, <3>2
  <2>11. Ends(m, d)'
    <3>1. CASE m = n /\ wanted
      <4>1. CASE d = c
        <5>1. Says(m, "run", d)' /\ d \notin shut'[m]
          BY <1>6, <2>1, <2>2, <2>7, <3>1, <4>1 DEF Untouched
        <5>2. ~Says(m, "unregister", d)'
          BY <1>6, <2>1, <2>2, <3>1, <4>1 DEF Untouched, UseOps
        <5> QED
          BY <5>1, <5>2 DEF Ends
      <4>2. CASE d # c
        <5>1. reg'[m] # d
          BY <2>7, <3>1, <4>2
        <5> QED
          BY <2>1, <2>2, <2>4, <2>7, <5>1 DEF SessionOK, Ends
      <4> QED
        BY <4>1, <4>2
    <3>2. CASE ~(m = n /\ wanted)
      BY <2>1, <2>2, <2>3, <2>4, <2>7, <3>2 DEF SessionOK, Ends
    <3> QED
      BY <3>1, <3>2
  <2>12. Known(m, d)'
    BY <2>1, <2>2, <2>3, <2>4, <2>7 DEF SessionOK, Known
  <2> QED
    BY <2>10, <2>11, <2>12 DEF SessionOK
<1> QED
  BY <1>8, <1>9, <1>10, <1>11, <1>12 DEF IInv

\* A session that nothing touches stays as it is.
LEMMA Same ==
  ASSUME NEW m, NEW d, SessionOK(m, d), reg'[m] = reg[m], held'[m][d] = held[m][d],
         shut'[m] = shut[m], wire'[d] = wire[d], \A o : Says(m, o, d)' <=> Says(m, o, d)
  PROVE  SessionOK(m, d)'
<1>1. (Pending(m, d)' <=> Pending(m, d)) /\ (Untouched(m, d)' <=> Untouched(m, d))
  BY DEF Pending, Untouched
<1>2. New(m, d)'
  BY <1>1 DEF SessionOK, New
<1>3. Ends(m, d)'
  BY DEF SessionOK, Ends
<1>4. Known(m, d)'
  BY DEF SessionOK, Known
<1> QED
  BY <1>2, <1>3, <1>4 DEF SessionOK

\* What the dial loop finds at its top and at its exit: nothing else to do.
LEMMA AtLoop ==
  ASSUME IInv, NEW t \in Threads, NEW op \in {"top", "exit"}, At(t, op)
  PROVE  /\ t = DialLoop /\ t[1] = Child /\ job[t] # <<>> /\ Len(job[t]) = 1
         /\ Head(job[t]).op = op /\ Types /\ Shapes /\ DownLast /\ job[t] \in Seq(Steps)
         /\ \A o, d : d \in Conns => Head(job[t]) # Do(o, d)
<1>1. Types /\ Shapes /\ DownLast /\ job[t] # <<>> /\ Head(job[t]).op = op
  BY DEF IInv, At
<1>2. job[t] \in Seq(Steps) /\ Head(job[t]) \in Steps /\ Head(job[t]) = job[t][1] /\ 1 \in 1..Len(job[t])
  BY <1>1, SaysHead DEF Types
<1>3. t = DialLoop /\ Len(job[t]) = 1
  BY <1>1, <1>2 DEF Shapes, Shape
<1>4. Head(job[t]) \in {Do("top", None), Do("exit", None)}
  BY <1>1, <1>2, StepFacts DEF Steps, ConnSteps, PendOps, UseOps
<1>5. \A d \in Conns : d # None
  BY NameAssumption DEF Conns
<1> QED
  BY <1>1, <1>2, <1>3, <1>4, <1>5, StepFacts, ThreadFacts

LEMMA DialTopStep ==
  ASSUME IInv, NEW t \in Threads, DialTop(t)
  PROVE  IInv'
<1>1. /\ t = DialLoop /\ t[1] = Child /\ job[t] # <<>> /\ Len(job[t]) = 1
      /\ Head(job[t]).op = "top" /\ Types /\ Shapes /\ DownLast /\ job[t] \in Seq(Steps)
      /\ \A o, d : d \in Conns => Head(job[t]) # Do(o, d)
  BY AtLoop DEF DialTop
<1>2. UNCHANGED <<epoch, edge, reg, est, shut, dialing>>
  BY DEF DialTop, nodeVars
<1>3. CASE edge[Child] = None
  <2> DEFINE a == <<Do("exit", None)>>
  <2>1. Goes(t, a) /\ held' = held /\ wire' = wire
    BY <1>3 DEF DialTop, Continue, Goes
  <2>2. a \in Seq(Steps) /\ Len(a) = 1 /\ a[1] = Do("exit", None) /\ \A x : In(a, x) <=> x = Do("exit", None)
    BY StepFacts, Short
  <2> HIDE DEF a
  <2>3. Types'
    BY <1>1, <1>2, <2>1, <2>2, JobGoes DEF Types
  <2>4. Shapes'
    <3>1. \A i \in 1..Len(a) : i = Len(a) /\ a[i].op = "exit"
      BY <2>2, StepFacts
    <3>2. \A u \in Threads : Shape(u)'
      BY <1>1, <2>1, <2>2, <3>1, ShapeGoes DEF PendOps
    <3> QED
      BY <1>1, <1>2, <2>1, <2>2, <3>2, JobGoes DEF Shapes
  <2>5. RegisteredInForce'
    BY <1>2, <2>1 DEF IInv, RegisteredInForce
  <2>6. DownLast'
    BY <1>1, <1>2, <2>1, <2>2, StepFacts, DownGoes
  <2>7. ASSUME NEW m \in Nodes, NEW d \in Conns PROVE SessionOK(m, d)'
    <3>1. d # None
      BY NameAssumption DEF Conns
    <3>2. \A o : Says(m, o, d)' <=> Says(m, o, d)
      BY <1>1, <2>1, <2>2, <3>1, Gone, StepFacts
    <3>3. SessionOK(m, d)
      BY DEF IInv
    <3> QED
      BY <1>2, <2>1, <3>2, <3>3, Same
  <2> QED
    BY <2>3, <2>4, <2>5, <2>6, <2>7 DEF IInv
<1>4. CASE edge[Child] # None
  <2>1. PICK c \in Conns : /\ wire[c] = "free" /\ wire' = [wire EXCEPT ![c] = "hello"]
                           /\ held' = [held EXCEPT ![Child][c] = edge[Child]]
                           /\ Goes(t, <<Do("answer", c), Do("top", None)>>)
    BY <1>4 DEF DialTop, Continue, Goes
  <2> DEFINE a == <<Do("answer", c), Do("top", None)>>
  <2>2. Do("answer", c) \in Steps /\ Do("top", None) \in Steps
    BY StepFacts DEF PendOps
  <2>3. /\ a \in Seq(Steps) /\ Len(a) = 2 /\ a[1] = Do("answer", c) /\ a[2] = Do("top", None)
        /\ \A x : In(a, x) <=> x = Do("answer", c) \/ x = Do("top", None)
    BY <2>2, Short
  <2>4. Goes(t, a)
    BY <2>1
  <2> HIDE DEF a
  <2>5. \A m \in Nodes : SessionOK(m, c) /\ ~Pending(m, c) /\ Untouched(m, c)
    BY <2>1 DEF IInv, SessionOK, New
  <2>6. /\ \A m \in Nodes, d \in Conns : held'[m][d] = IF m = Child /\ d = c THEN edge[Child] ELSE held[m][d]
        /\ \A d \in Conns : wire'[d] = IF d = c THEN "hello" ELSE wire[d]
    BY <1>1, <2>1 DEF Types
  <2>7. Types'
    <3>1. job' \in [Threads -> Seq(Steps)]
      BY <1>1, <2>3, <2>4, JobGoes
    <3>2. held' \in [Nodes -> [Conns -> Orders \cup {None}]]
      BY <1>1, <2>1, ThreadFacts DEF Types, Nodes
    <3>3. wire' \in [Conns -> {"free", "hello", "accepted", "refused", "cut"}]
      BY <1>1, <2>1 DEF Types
    <3> QED
      BY <1>1, <1>2, <3>1, <3>2, <3>3 DEF Types
  <2>8. Shapes'
    <3>1. \A i \in 1..Len(a) : \/ i = 1 /\ a[i] = Do("answer", c)
                               \/ i = 2 /\ i = Len(a) /\ a[i] = Do("top", None)
      BY <2>3
    <3>2. \A i \in 1..Len(a) :
            /\ a[i].op \in PendOps => i = 1
            /\ a[i].op \in {"top", "exit"} => i = Len(a)
            /\ a[i].op # "down" /\ a[i].op # "authorize"
      BY <3>1, StepFacts DEF PendOps
    <3>3. Head(job[t]).op # "unregister"
      BY <1>1
    <3>4. \A u \in Threads : Shape(u)'
      BY <1>1, <2>3, <2>4, <3>2, <3>3, ShapeGoes
    <3> QED
      BY <1>1, <1>2, <2>3, <2>4, <3>4, JobGoes DEF Shapes
  <2>9. RegisteredInForce'
    <3>1. \A m \in Nodes : reg[m] # None => reg[m] \in Conns /\ held'[m][reg[m]] = held[m][reg[m]]
      BY <1>1, <2>5, <2>6 DEF Types, Untouched
    <3> QED
      BY <1>2, <3>1 DEF IInv, RegisteredInForce
  <2>10. DownLast'
    BY <1>1, <1>2, <2>3, <2>4, StepFacts, DownGoes
  <2>11. ASSUME NEW m \in Nodes, NEW d \in Conns PROVE SessionOK(m, d)'
    <3>1. d # None /\ SessionOK(m, d)
      BY NameAssumption DEF Conns, IInv
    <3>2. \A o : Says(m, o, d)' <=> Says(m, o, d) \/ (m = Child /\ d = c /\ o = "answer")
      BY <1>1, <2>3, <2>4, <3>1, Gone, StepFacts
    <3>3. CASE d # c
      BY <1>2, <2>6, <3>1, <3>2, <3>3, Same
    <3>4. CASE d = c
      <4>1. \A o \in UseOps : ~Says(m, o, d)'
        BY <2>5, <3>2, <3>4 DEF Untouched, UseOps
      <4>2. wire'[d] = "hello" /\ reg'[m] # d /\ d \notin shut'[m]
        BY <1>2, <2>5, <2>6, <3>4 DEF Untouched
      <4>3. Untouched(m, d)'
        BY <4>1, <4>2 DEF Untouched
      <4>4. ~Says(m, "establish", d)'
        BY <2>5, <3>2, <3>4 DEF Pending, PendOps
      <4>5. New(m, d)'
        BY <4>2, <4>3, <4>4 DEF New
      <4>6. Ends(m, d)'
        BY <4>1, <4>2 DEF Ends, UseOps
      <4>7. m = Child \/ m = Parent
        BY DEF Nodes
      <4>8. Known(m, d)'
        BY <3>2, <3>4, <4>2, <4>7 DEF Known
      <4> QED
        BY <4>5, <4>6, <4>8 DEF SessionOK
    <3> QED
      BY <3>3, <3>4
  <2> QED
    BY <2>7, <2>8, <2>9, <2>10, <2>11 DEF IInv
<1> QED
  BY <1>3, <1>4

LEMMA DialExitStep ==
  ASSUME IInv, NEW t \in Threads, DialExit(t)
  PROVE  IInv'
<1> DEFINE a == <<>>
<1>1. /\ t = DialLoop /\ job[t] # <<>> /\ Len(job[t]) = 1
      /\ Head(job[t]).op = "exit" /\ Types /\ Shapes /\ DownLast /\ job[t] \in Seq(Steps)
      /\ \A o, d : d \in Conns => Head(job[t]) # Do(o, d)
  BY AtLoop DEF DialExit
<1>2. /\ UNCHANGED <<epoch, edge, reg, held, est, shut, wire>> /\ dialing' = FALSE /\ Goes(t, a)
  BY DEF DialExit, Continue, Goes, nodeVars, sessVars
<1>3. a \in Seq(Steps) /\ Len(a) = 0 /\ a = <<>> /\ \A x : ~In(a, x)
  BY Short
<1>4. job'[t] = <<>>
  <2>1. job'[t] = a \o Tail(job[t])
    BY <1>1, <1>2 DEF Types, Goes
  <2> HIDE DEF a
  <2>2. a \o Tail(job[t]) \in Seq(Steps) /\ Len(a \o Tail(job[t])) = 0
    BY <1>1, <1>3, Prepended
  <2> QED
    BY <2>1, <2>2, EmptySeq
<1> HIDE DEF a
<1>5. Types'
  BY <1>1, <1>2, <1>3, JobGoes DEF Types
<1>6. Shapes'
  <2>1. \A i \in 1..Len(a) : FALSE
    BY <1>3
  <2>2. \A u \in Threads : Shape(u)'
    BY <1>1, <1>2, <1>3, <2>1, ShapeGoes
  <2> QED
    BY <1>1, <1>4, <2>2 DEF Shapes
<1>7. RegisteredInForce'
  BY <1>2 DEF IInv, RegisteredInForce
<1>8. DownLast'
  BY <1>1, <1>2, <1>3, DownGoes
<1>9. ASSUME NEW m \in Nodes, NEW d \in Conns PROVE SessionOK(m, d)'
  <2>1. \A o : Says(m, o, d)' <=> Says(m, o, d)
    BY <1>1, <1>2, <1>3, Gone, ZenonT(30)
  <2>2. SessionOK(m, d)
    BY DEF IInv
  <2> QED
    BY <1>2, <2>1, <2>2, Same
<1> QED
  BY <1>5, <1>6, <1>7, <1>8, <1>9 DEF IInv

\* dialEdge returns: the session is new to the child, or given up.
LEMMA DialAnswerStep ==
  ASSUME IInv, NEW t \in Threads, DialAnswer(t)
  PROVE  IInv'
<1> DEFINE n == t[1]
           c == Head(job[t]).conn
           a == IF wire[c] = "accepted" THEN <<Do("establish", c)>> ELSE <<>>
<1>1. /\ At(t, "answer") /\ Goes(t, a) /\ wire[c] \in {"accepted", "refused", "cut"}
      /\ wire' = IF wire[c] = "refused" THEN [wire EXCEPT ![c] = "cut"] ELSE wire
      /\ UNCHANGED <<epoch, edge, reg, held, est, shut, dialing>>
  BY DEF DialAnswer, Continue, Goes, sessVars, nodeVars
<1>2. /\ job[t] # <<>> /\ Head(job[t]) = Do("answer", c) /\ c \in Conns /\ n \in Nodes
      /\ Says(n, "answer", c)
      /\ Types /\ Shapes /\ DownLast /\ job[t] \in Seq(Steps)
  BY <1>1, AtHead
<1>3. /\ a \in Seq(Steps) /\ (\A x : In(a, x) <=> wire[c] = "accepted" /\ x = Do("establish", c))
      /\ \A i \in 1..Len(a) : i = 1 /\ a[i] = Do("establish", c)
      /\ a # <<>> => a[1] = Do("establish", c)
  BY <1>2, StepFacts, Short DEF PendOps
<1>4. t = DialLoop /\ n = Child
  BY <1>2, SaysHead, StepFacts, ThreadFacts DEF Shapes, Shape
<1>5. \A d \in Conns : wire'[d] = IF d = c /\ wire[c] = "refused" THEN "cut" ELSE wire[d]
  BY <1>1, <1>2 DEF Types
<1> HIDE DEF a, c, n
<1>6. Types'
  <2>1. wire' \in [Conns -> {"free", "hello", "accepted", "refused", "cut"}]
    BY <1>1, <1>2 DEF Types
  <2> QED
    BY <1>1, <1>2, <1>3, <2>1, JobGoes DEF Types
<1>7. Shapes'
  <2>1. \A i \in 1..Len(a) : i = 1 /\ a[i].op = "establish"
    BY <1>3, StepFacts
  <2>2. Head(job[t]).op # "unregister"
    BY <1>2, StepFacts
  <2>3. \A u \in Threads : Shape(u)'
    BY <1>1, <1>2, <1>3, <1>4, <2>1, <2>2, ShapeGoes
  <2> QED
    BY <1>1, <1>2, <1>3, <2>3, JobGoes DEF Shapes
<1>8. RegisteredInForce'
  BY <1>1 DEF IInv, RegisteredInForce
<1>9. DownLast'
  BY <1>1, <1>2, <1>3, StepFacts, DownGoes
<1>10. ASSUME NEW m \in Nodes, NEW d \in Conns PROVE SessionOK(m, d)'
  <2>1. \A o : /\ Says(m, o, d)' => Says(m, o, d) \/ (m = n /\ d = c /\ o = "establish" /\ wire[c] = "accepted")
               /\ m = n /\ d = c /\ o = "establish" /\ wire[c] = "accepted" => Says(m, o, d)'
               /\ Says(m, o, d) /\ ~(m = n /\ d = c /\ o = "answer") => Says(m, o, d)'
    BY <1>1, <1>2, <1>3, Gone, StepFacts DEF n
  <2>2. SessionOK(m, d)
    BY DEF IInv
  <2>3. m = n /\ d = c => Pending(m, d) /\ Untouched(m, d)
    BY <1>2, <2>2 DEF SessionOK, New, Pending, PendOps
  <2>4. Pending(m, d)' => Pending(m, d)
    BY <1>5, <2>1, <2>3 DEF Pending
  <2>5. Untouched(m, d) => Untouched(m, d)'
    BY <1>1, <2>1 DEF Untouched, UseOps
  <2>6. wire'[d] # "free" \/ wire[d] = "free"
    BY <1>5
  <2>7. New(m, d)'
    BY <1>1, <1>4, <1>5, <2>1, <2>2, <2>4, <2>5, <2>6, ThreadFacts DEF SessionOK, New
  <2>8. Ends(m, d)'
    BY <1>1, <1>5, <2>1, <2>2 DEF SessionOK, Ends
  <2>9. Known(m, d)'
    BY <1>1, <1>5, <2>1, <2>2 DEF SessionOK, Known
  <2> QED
    BY <2>7, <2>8, <2>9 DEF SessionOK
<1> QED
  BY <1>6, <1>7, <1>8, <1>9, <1>10 DEF IInv

\* Only the parent's side has a hello to authorize.
LEMMA AuthorizeIsParents ==
  ASSUME Shapes, NEW n, NEW c \in Conns, Says(n, "authorize", c)
  PROVE  n = Parent
BY StepFacts, ThreadFacts DEF Says, In, Shapes, Shape, PendOps

\* authorizeInbound: the answer, and a session that is new to the parent.
LEMMA AuthorizeStep ==
  ASSUME IInv, NEW t \in Threads, Authorize(t)
  PROVE  IInv'
<1> DEFINE n == t[1]
           c == Head(job[t]).conn
           granted == /\ edge[Parent] # None
                      /\ epoch[Parent] = held[Child][c].epoch
                      /\ edge[Parent].token = held[Child][c].token
                      /\ VerifyToken(held[Child][c].token)
           served == granted /\ wire[c] # "cut"
           a == IF served THEN <<Do("establish", c)>> ELSE <<>>
<1>1. /\ At(t, "authorize") /\ Goes(t, a)
      /\ wire' = IF wire[c] = "cut" THEN wire
                 ELSE [wire EXCEPT ![c] = IF granted THEN "accepted" ELSE "refused"]
      /\ held' = IF served THEN [held EXCEPT ![Parent][c] = edge[Parent]] ELSE held
      /\ UNCHANGED <<epoch, edge, reg, est, shut, dialing>>
  BY DEF Authorize, Continue, Goes, nodeVars
<1>2. /\ job[t] # <<>> /\ Head(job[t]) = Do("authorize", c) /\ c \in Conns /\ n \in Nodes
      /\ Says(n, "authorize", c)
      /\ Types /\ Shapes /\ DownLast /\ job[t] \in Seq(Steps)
  BY <1>1, AtHead
<1>3. /\ a \in Seq(Steps) /\ (\A x : In(a, x) <=> served /\ x = Do("establish", c))
      /\ \A i \in 1..Len(a) : i = 1 /\ a[i] = Do("establish", c)
      /\ a # <<>> => a[1] = Do("establish", c)
  <2>1. Do("establish", c) \in Steps
    BY <1>2, StepFacts DEF PendOps
  <2> DEFINE y == Do("establish", c)
  <2>2. (served => a = <<y>>) /\ (~served => a = <<>>)
    OBVIOUS
  <2> HIDE DEF a, served, y
  <2>3. CASE served
    <3>1. y \in Steps /\ a = <<y>>
      BY <2>1, <2>2, <2>3 DEF y
    <3>2. Len(a) = 1 /\ a \in Seq(Steps) /\ a[1] = y /\ \A x : In(a, x) <=> x = y
      BY <3>1, Single
    <3>3. 1..Len(a) = {1}
      BY <3>2
    <3> QED
      BY <2>3, <3>2, <3>3 DEF y
  <2>4. CASE ~served
    <3>1. a = <<>> /\ Len(a) = 0 /\ a \in Seq(Steps) /\ \A x : ~In(a, x)
      BY <2>2, <2>4, Short
    <3>2. 1..Len(a) = {}
      BY <3>1
    <3> QED
      BY <2>4, <3>1, <3>2
  <2> QED
    BY <2>3, <2>4
<1>4. n = Parent
  BY <1>2, AuthorizeIsParents
<1>5. t = Inbound(c)
  BY <1>2, SaysHead, StepFacts, ThreadFacts DEF Shapes, Shape, PendOps
<1>6. /\ wire[c] \in {"hello", "cut"} /\ Untouched(Parent, c)
  BY <1>2, <1>4 DEF IInv, SessionOK, New, Pending, PendOps
<1> HIDE DEF granted
<1>7. /\ \A d \in Conns : wire'[d] = IF d = c /\ wire[c] = "hello"
                                     THEN IF granted THEN "accepted" ELSE "refused" ELSE wire[d]
      /\ \A m \in Nodes, d \in Conns : held'[m][d] = IF m = Parent /\ d = c /\ served THEN edge[Parent] ELSE held[m][d]
  BY <1>1, <1>2, <1>6 DEF Types
<1> HIDE DEF a, c, n, served
<1>8. Types'
  <2>1. wire' \in [Conns -> {"free", "hello", "accepted", "refused", "cut"}]
    BY <1>1, <1>2 DEF Types
  <2>2. held' \in [Nodes -> [Conns -> Orders \cup {None}]]
    <3>1. CASE served
      BY <1>1, <1>2, <1>4, <3>1 DEF Types
    <3>2. CASE ~served
      BY <1>1, <1>2, <3>2 DEF Types
    <3> QED
      BY <3>1, <3>2
  <2> QED
    BY <1>1, <1>2, <1>3, <2>1, <2>2, JobGoes DEF Types
<1>9. Shapes'
  <2>1. \A i \in 1..Len(a) : i = 1 /\ a[i].op = "establish" /\ a[i].conn = c
    BY <1>3, StepFacts
  <2>2. Head(job[t]).op # "unregister"
    BY <1>2, StepFacts
  <2>3. \A u \in Threads : Shape(u)'
    BY <1>1, <1>2, <1>3, <1>5, <2>1, <2>2, ShapeGoes
  <2> QED
    BY <1>1, <1>2, <1>3, <2>3, JobGoes DEF Shapes
<1>10. RegisteredInForce'
  <2>1. \A m \in Nodes : reg[m] # None => reg[m] \in Conns /\ held'[m][reg[m]] = held[m][reg[m]]
    BY <1>2, <1>6, <1>7 DEF Types, Untouched
  <2> QED
    BY <1>1, <2>1 DEF IInv, RegisteredInForce
<1>11. DownLast'
  BY <1>1, <1>2, <1>3, StepFacts, DownGoes
<1>12. ASSUME NEW m \in Nodes, NEW d \in Conns PROVE SessionOK(m, d)'
  <2>1. \A o : /\ Says(m, o, d)' => Says(m, o, d) \/ (m = n /\ d = c /\ o = "establish" /\ served)
               /\ m = n /\ d = c /\ o = "establish" /\ served => Says(m, o, d)'
               /\ Says(m, o, d) /\ ~(m = n /\ d = c /\ o = "authorize") => Says(m, o, d)'
    BY <1>1, <1>2, <1>3, Gone, StepFacts DEF n
  <2>2. SessionOK(m, d) /\ (Says(m, "authorize", d) => m = Parent)
    BY <1>2, AuthorizeIsParents DEF IInv
  <2>3. CASE d # c
    BY <1>1, <1>7, <2>1, <2>2, <2>3, Same
  <2>4. CASE d = c
    <3>1. m = n => ~Says(m, "authorize", d)'
      <4>1. ~In(a, Do("authorize", c))
        BY <1>3, StepFacts
      <4>2. Head(job[t]).op \in PendOps /\ "authorize" \in PendOps
        BY <1>2, StepFacts DEF PendOps
      <4> QED
        BY <1>1, <1>2, <1>3, <2>4, <4>1, <4>2, PendGone DEF n, c
    <3>2. ~Says(m, "authorize", d)'
      BY <1>4, <2>1, <2>2, <3>1
    <3>3. wire'[d] \in {"accepted", "refused", "cut"} /\ (wire[d] = "cut" => wire'[d] = "cut")
      BY <1>6, <1>7, <2>4
    <3>4. Untouched(m, d) => Untouched(m, d)'
      BY <1>1, <2>1 DEF Untouched, UseOps
    <3>5. m = Parent => Untouched(m, d)
      BY <1>6, <2>4
    <3>6. m # Parent /\ Pending(m, d)' => Pending(m, d)
      BY <1>4, <2>1 DEF Pending
    <3>7. New(m, d)'
      BY <2>2, <3>2, <3>3, <3>4, <3>5, <3>6 DEF SessionOK, New
    <3>8. Ends(m, d)'
      BY <1>1, <2>1, <2>2, <3>3 DEF SessionOK, Ends
    <3>9. Known(m, d)'
      <4>1. CASE m = Parent
        <5>1. wire'[d] \in {"hello", "accepted"} => served
          BY <1>6, <1>7, <2>4 DEF served
        <5> QED
          BY <1>4, <2>1, <2>4, <4>1, <5>1 DEF Known
      <4>2. CASE m # Parent
        <5>1. wire'[d] \in {"hello", "accepted"} => wire[d] = "hello"
          BY <1>6, <1>7, <2>4
        <5> QED
          BY <1>1, <1>4, <1>7, <2>1, <2>2, <4>2, <5>1 DEF SessionOK, Known
      <4> QED
        BY <4>1, <4>2
    <3> QED
      BY <3>7, <3>8, <3>9 DEF SessionOK
  <2> QED
    BY <2>3, <2>4
<1> QED
  BY <1>8, <1>9, <1>10, <1>11, <1>12 DEF IInv

-----------------------------------------------------------------------------
(* Commands, the watchdog, the listener and the network                    *)

LEMMA DownStarts ==
  ASSUME Types, DownLast, NEW t \in Threads, NEW a \in Seq(Steps), Begins(t, a),
         a # <<>> => Head(a).op # "down",
         \A n \in Nodes : reg'[n] \in {reg[n], None}
  PROVE  DownLast'
<1>1. job'[t] = a /\ (\A u \in Threads : u # t => job'[u] = job[u])
  BY DEF Types, Begins
<1>2. ASSUME NEW u \in Threads, job'[u] # <<>>, Head(job'[u]).op = "down"
      PROVE  reg'[u[1]] # Head(job'[u]).conn
  <2>1. u # t /\ job'[u] = job[u]
    BY <1>1, <1>2
  <2>2. Head(job[u]) \in Steps /\ u[1] \in Nodes
    BY <1>2, <2>1, SaysHead, ThreadFacts
  <2>3. Head(job[u]).conn \in Conns /\ reg[u[1]] # Head(job[u]).conn
    BY <1>2, <2>1, <2>2, StepFacts DEF DownLast
  <2> QED
    BY <2>1, <2>2, <2>3, NameAssumption DEF Conns
<1> QED
  BY <1>2 DEF DownLast

LEMMA TickStep ==
  ASSUME IInv, NEW n \in Nodes, Tick(n)
  PROVE  IInv'
<1> DEFINE c == reg[n]
           t == Watchdog(n)
           a == <<Do("up", c)>>
<1>1. /\ c \in est[n] /\ job[t] = <<>> /\ Begins(t, a)
      /\ UNCHANGED <<epoch, edge, reg, held, est, shut, wire, dialing>>
  BY DEF Tick, Start, Begins, Idle, sessVars, nodeVars
<1>2. /\ Types /\ Shapes /\ DownLast /\ c \in Conns
      /\ t \in Threads /\ t[1] = n /\ t # DialLoop
  BY <1>1, ThreadFacts DEF IInv, Types
<1>3. /\ a \in Seq(Steps) /\ Len(a) = 1 /\ a[1] = Do("up", c) /\ Head(a) = Do("up", c)
      /\ \A x : In(a, x) <=> x = Do("up", c)
  BY <1>2, StepFacts, Short DEF UseOps
<1> HIDE DEF a, c, t
<1>4. Types'
  BY <1>1, <1>2, <1>3 DEF Types, Begins
<1>5. Shapes'
  <2>1. \A i \in 1..Len(a) : i = 1 /\ Len(a) = 1 /\ a[i].op = "up"
    BY <1>3, StepFacts
  <2>2. \A u \in Threads : Shape(u)'
    BY <1>1, <1>2, <1>3, <2>1, ShapeStarts DEF PendOps
  <2> QED
    BY <1>1, <1>2, <2>2, ThreadFacts DEF Shapes, Types, Begins
<1>6. RegisteredInForce'
  BY <1>1 DEF IInv, RegisteredInForce
<1>7. DownLast'
  BY <1>1, <1>2, <1>3, StepFacts, DownStarts
<1>8. ASSUME NEW m \in Nodes, NEW d \in Conns PROVE SessionOK(m, d)'
  <2>1. \A o : Says(m, o, d)' <=> Says(m, o, d) \/ (m = n /\ d = c /\ o = "up")
    BY <1>1, <1>2, <1>3, Started, StepFacts
  <2>2. SessionOK(m, d)
    BY DEF IInv
  <2>3. m = n /\ d = c => ~Pending(m, d) /\ wire[d] # "free"
    BY <2>2 DEF SessionOK, New, Untouched, c
  <2>4. Pending(m, d)' => Pending(m, d)
    BY <1>1, <2>1 DEF Pending, PendOps
  <2>5. New(m, d)'
    BY <1>1, <2>1, <2>2, <2>3, <2>4 DEF SessionOK, New, Untouched
  <2>6. Ends(m, d)'
    BY <1>1, <2>1, <2>2 DEF SessionOK, Ends
  <2>7. Known(m, d)'
    BY <1>1, <2>1, <2>2 DEF SessionOK, Known
  <2> QED
    BY <2>5, <2>6, <2>7 DEF SessionOK
<1> QED
  BY <1>4, <1>5, <1>6, <1>7, <1>8 DEF IInv

LEMMA AcceptStep ==
  ASSUME IInv, NEW c \in Conns, Accept(c)
  PROVE  IInv'
<1> DEFINE t == Inbound(c)
           a == <<Do("authorize", c)>>
<1>1. /\ wire[c] = "hello" /\ job[t] = <<>> /\ Begins(t, a)
      /\ UNCHANGED <<epoch, edge, reg, held, est, shut, wire, dialing>>
  BY DEF Accept, Start, Begins, Idle, sessVars, nodeVars
<1>2. /\ Types /\ Shapes /\ DownLast
      /\ t \in Threads /\ t[1] = Parent /\ t # DialLoop
  BY ThreadFacts DEF IInv
<1>3. /\ a \in Seq(Steps) /\ Len(a) = 1 /\ a[1] = Do("authorize", c) /\ Head(a) = Do("authorize", c)
      /\ \A x : In(a, x) <=> x = Do("authorize", c)
  BY StepFacts, Short DEF PendOps
<1> HIDE DEF a
<1>4. Types'
  BY <1>1, <1>2, <1>3 DEF Types, Begins
<1>5. Shapes'
  <2>1. \A i \in 1..Len(a) : i = 1 /\ Len(a) = 1 /\ a[i].op = "authorize" /\ a[i].conn = c
    BY <1>3, StepFacts
  <2>2. \A u \in Threads : Shape(u)'
    BY <1>1, <1>2, <1>3, <2>1, ShapeStarts DEF PendOps
  <2> QED
    BY <1>1, <1>2, <2>2, ThreadFacts DEF Shapes, Types, Begins
<1>6. RegisteredInForce'
  BY <1>1 DEF IInv, RegisteredInForce
<1>7. DownLast'
  BY <1>1, <1>2, <1>3, StepFacts, DownStarts
<1> HIDE DEF t
<1>8. ASSUME NEW m \in Nodes, NEW d \in Conns PROVE SessionOK(m, d)'
  <2>1. \A o : Says(m, o, d)' <=> Says(m, o, d) \/ (m = Parent /\ d = c /\ o = "authorize")
    BY <1>1, <1>2, <1>3, Started, StepFacts
  <2>2. SessionOK(m, d)
    BY DEF IInv
  <2>3. Pending(m, d)' => Pending(m, d)
    BY <1>1, <2>1 DEF Pending
  <2>4. Untouched(m, d)' <=> Untouched(m, d)
    BY <1>1, <2>1 DEF Untouched, UseOps
  <2>5. New(m, d)'
    BY <1>1, <2>1, <2>2, <2>3, <2>4 DEF SessionOK, New
  <2>6. Ends(m, d)'
    BY <1>1, <2>1, <2>2 DEF SessionOK, Ends
  <2>7. Known(m, d)'
    BY <1>1, <2>1, <2>2 DEF SessionOK, Known
  <2> QED
    BY <2>5, <2>6, <2>7 DEF SessionOK
<1> QED
  BY <1>4, <1>5, <1>6, <1>7, <1>8 DEF IInv

\* An order that withdraws the registration of a session has it closed.
LEMMA Withdrawn ==
  ASSUME NEW m \in Nodes, NEW d \in Conns, NEW n \in Nodes, NEW removed \in BOOLEAN,
         SessionOK(m, d), removed => reg[n] # None, d # None,
         reg'[m] = IF m = n /\ removed THEN None ELSE reg[m],
         held'[m][d] = None \/ held'[m][d] = held[m][d] \/ reg'[m] = d,
         UNCHANGED <<shut, wire>>,
         \A o : Says(m, o, d)' <=> Says(m, o, d) \/ (m = n /\ removed /\ d = reg[n] /\ o = "close")
  PROVE  SessionOK(m, d)'
<1>1. Pending(m, d)' <=> Pending(m, d)
  BY DEF Pending, PendOps
<1>2. m = n /\ d = reg[n] => ~Pending(m, d) /\ wire[d] # "free"
  BY DEF SessionOK, New, Untouched
<1>3. New(m, d)'
  BY <1>1, <1>2 DEF SessionOK, New, Untouched
<1>4. Ends(m, d)'
  BY DEF SessionOK, Ends
<1>5. Known(m, d)'
  BY DEF SessionOK, Known
<1> QED
  BY <1>3, <1>4, <1>5 DEF SessionOK

LEMMA CloseRoomStep ==
  ASSUME IInv, NEW n \in Nodes, CloseRoom(n)
  PROVE  IInv'
<1> DEFINE c == reg[n]
           t == Control(n)
           a == IF c = None THEN <<>> ELSE <<Do("close", c)>>
<1>1. /\ job[t] = <<>> /\ Begins(t, a)
      /\ edge' = [edge EXCEPT ![n] = None] /\ reg' = [reg EXCEPT ![n] = None]
      /\ UNCHANGED <<held, est, shut, wire, dialing>>
  BY DEF CloseRoom, Start, Begins, Idle, sessVars
<1>2. /\ Types /\ Shapes /\ DownLast /\ c \in Conns \cup {None}
      /\ t \in Threads /\ t[1] = n /\ t # DialLoop
  BY ThreadFacts DEF IInv, Types
<1>3. /\ a \in Seq(Steps) /\ (a # <<>> => Head(a) = Do("close", c))
      /\ \A x : In(a, x) <=> c # None /\ x = Do("close", c)
      /\ \A i \in 1..Len(a) : i = 1 /\ Len(a) = 1 /\ a[i] = Do("close", c)
  <2>1. CASE c = None
    BY <2>1, Short
  <2>2. CASE c # None
    BY <1>2, <2>2, StepFacts, Short DEF UseOps
  <2> QED
    BY <2>1, <2>2
<1>4. \A m \in Nodes : reg'[m] = (IF m = n THEN None ELSE reg[m]) /\ (m # n => edge'[m] = edge[m])
  BY <1>1, <1>2 DEF Types
<1> HIDE DEF a, t
<1>5. Types'
  BY <1>1, <1>2, <1>3 DEF Types, Begins
<1>6. Shapes'
  <2>1. \A i \in 1..Len(a) : i = 1 /\ Len(a) = 1 /\ a[i].op = "close"
    BY <1>3, StepFacts
  <2>2. \A u \in Threads : Shape(u)'
    BY <1>1, <1>2, <1>3, <2>1, ShapeStarts DEF PendOps
  <2> QED
    BY <1>1, <1>2, <2>2, ThreadFacts DEF Shapes, Types, Begins
<1>7. RegisteredInForce'
  BY <1>1, <1>4 DEF IInv, RegisteredInForce
<1>8. DownLast'
  BY <1>1, <1>2, <1>3, <1>4, StepFacts, DownStarts
<1>9. ASSUME NEW m \in Nodes, NEW d \in Conns PROVE SessionOK(m, d)'
  <2>1. d # None /\ SessionOK(m, d)
    BY NameAssumption DEF Conns, IInv
  <2> DEFINE removed == c # None
  <2>2. \A o : Says(m, o, d)' <=> Says(m, o, d) \/ (m = n /\ removed /\ d = reg[n] /\ o = "close")
    BY <1>1, <1>2, <1>3, <2>1, Started, StepFacts
  <2>3. reg'[m] = IF m = n /\ removed THEN None ELSE reg[m]
    BY <1>4
  <2> QED
    BY <1>1, <2>1, <2>2, <2>3, Withdrawn
<1> QED
  BY <1>5, <1>6, <1>7, <1>8, <1>9 DEF IInv

LEMMA CutStep ==
  ASSUME IInv, NEW c \in Conns, Cut(c)
  PROVE  IInv'
<1>1. /\ wire[c] \in {"hello", "accepted"} /\ wire' = [wire EXCEPT ![c] = "cut"]
      /\ UNCHANGED <<epoch, edge, reg, held, est, shut, dialing, job>>
  BY DEF Cut, sessVars, nodeVars
<1>2. \A d \in Conns : wire'[d] = IF d = c THEN "cut" ELSE wire[d]
  BY <1>1 DEF IInv, Types
<1>3. Types' /\ Shapes' /\ RegisteredInForce' /\ DownLast'
  BY <1>1 DEF IInv, Types, Shapes, Shape, RegisteredInForce, DownLast
<1>4. ASSUME NEW m \in Nodes, NEW d \in Conns PROVE SessionOK(m, d)'
  <2>1. SessionOK(m, d) /\ \A o : Says(m, o, d)' <=> Says(m, o, d)
    BY <1>1 DEF IInv, Says, In
  <2>2. (Pending(m, d)' => Pending(m, d)) /\ (Untouched(m, d)' <=> Untouched(m, d))
    BY <1>1, <1>2, <2>1 DEF Pending, Untouched
  <2>3. New(m, d)'
    BY <1>1, <1>2, <2>1, <2>2 DEF SessionOK, New
  <2>4. Ends(m, d)' /\ Known(m, d)'
    BY <1>1, <1>2, <2>1 DEF SessionOK, Ends, Known
  <2> QED
    BY <2>3, <2>4 DEF SessionOK
<1> QED
  BY <1>3, <1>4 DEF IInv

LEMMA ForgetStep ==
  ASSUME IInv, NEW c \in Conns, Forget(c)
  PROVE  IInv'
<1>1. /\ wire[c] = "cut" /\ wire' = [wire EXCEPT ![c] = "free"]
      /\ \A t \in Threads : \A i \in 1..Len(job[t]) : job[t][i].conn # c
      /\ held' = [n \in Nodes |-> [held[n] EXCEPT ![c] = None]]
      /\ shut' = [n \in Nodes |-> shut[n] \ {c}]
      /\ UNCHANGED <<epoch, edge, reg, est, dialing, job>>
  BY DEF Forget, nodeVars
<1>2. /\ \A d \in Conns : wire'[d] = IF d = c THEN "free" ELSE wire[d]
      /\ \A m \in Nodes : shut'[m] = shut[m] \ {c}
      /\ \A m \in Nodes, d \in Conns : held'[m][d] = IF d = c THEN None ELSE held[m][d]
  BY <1>1 DEF IInv, Types
<1>3. \A m \in Nodes : \A o : ~Says(m, o, c)
  BY <1>1, StepFacts DEF Says, In
<1>4. \A m \in Nodes : reg[m] # c
  BY <1>3 DEF IInv, SessionOK, Ends
<1>5. Types'
  <2>1. held' \in [Nodes -> [Conns -> Orders \cup {None}]]
    BY <1>1 DEF IInv, Types
  <2>2. shut' \in [Nodes -> SUBSET Conns] /\ wire' \in [Conns -> {"free", "hello", "accepted", "refused", "cut"}]
    BY <1>1 DEF IInv, Types
  <2> QED
    BY <1>1, <2>1, <2>2 DEF IInv, Types
<1>6. Shapes' /\ DownLast'
  BY <1>1 DEF IInv, Shapes, Shape, DownLast
<1>7. RegisteredInForce'
  <2>1. \A m \in Nodes : reg[m] # None => reg[m] \in Conns /\ held'[m][reg[m]] = held[m][reg[m]]
    BY <1>2, <1>4 DEF IInv, Types
  <2> QED
    BY <1>1, <2>1 DEF IInv, RegisteredInForce
<1>8. ASSUME NEW m \in Nodes, NEW d \in Conns PROVE SessionOK(m, d)'
  <2>1. SessionOK(m, d) /\ \A o : Says(m, o, d)' <=> Says(m, o, d)
    BY <1>1 DEF IInv, Says, In
  <2>2. CASE d # c
    <3>1. (Pending(m, d)' <=> Pending(m, d)) /\ (Untouched(m, d)' <=> Untouched(m, d))
      BY <1>1, <1>2, <2>1, <2>2 DEF Pending, Untouched
    <3>2. New(m, d)' /\ Known(m, d)'
      BY <1>1, <1>2, <2>1, <2>2, <3>1 DEF SessionOK, New, Known
    <3>3. Ends(m, d)'
      BY <1>1, <1>2, <2>1, <2>2 DEF SessionOK, Ends
    <3> QED
      BY <3>2, <3>3 DEF SessionOK
  <2>3. CASE d = c
    <3>1. ~Pending(m, d)' /\ Untouched(m, d)' /\ \A o : ~Says(m, o, d)'
      BY <1>1, <1>2, <1>3, <1>4, <2>1, <2>3 DEF Pending, Untouched
    <3>2. New(m, d)'
      BY <3>1 DEF New
    <3>3. Ends(m, d)' /\ Known(m, d)'
      BY <1>1, <1>2, <1>4, <2>3, <3>1 DEF Ends, Known
    <3> QED
      BY <3>2, <3>3 DEF SessionOK
  <2> QED
    BY <2>2, <2>3
<1> QED
  BY <1>5, <1>6, <1>7, <1>8 DEF IInv

\* applyEdges: the session that is not of the new edge set is closed, the one
\* that stays takes over the order, and the dial loop starts if there is none.
LEMMA SetCascadeEdgesStep ==
  ASSUME IInv, NEW n \in Nodes, NEW o \in Orders, SetCascadeEdges(n, o)
  PROVE  IInv'
<1> DEFINE new == InForce(o)
           c == reg[n]
           removed == c # None /\ (new = None \/ ~SameEdge(held[n][c], new))
           dial == n = Child /\ new # None /\ ~dialing
           t == Control(n)
           a == CloseRemoved(n, new)
<1>1. Types /\ Shapes /\ DownLast /\ RegisteredInForce
  BY DEF IInv
<1>2. CASE o.epoch < epoch[n]
  <2>1. UNCHANGED <<edge, reg, held, est, shut, wire, dialing, job>>
    BY <1>2 DEF SetCascadeEdges
  <2>2. Types' /\ Shapes' /\ RegisteredInForce' /\ DownLast'
    BY <1>1, <2>1 DEF Types, Shapes, Shape, RegisteredInForce, DownLast
  <2>3. ASSUME NEW m \in Nodes, NEW d \in Conns PROVE SessionOK(m, d)'
    <3>1. SessionOK(m, d) /\ \A op : Says(m, op, d)' <=> Says(m, op, d)
      BY <2>1 DEF IInv, Says, In
    <3> QED
      BY <2>1, <3>1, Same
  <2> QED
    BY <2>2, <2>3 DEF IInv
<1>3. CASE ~(o.epoch < epoch[n])
  <2>1. /\ edge' = [edge EXCEPT ![n] = new]
        /\ reg' = [reg EXCEPT ![n] = IF removed THEN None ELSE c]
        /\ held' = IF c = None \/ removed THEN held ELSE [held EXCEPT ![n][c] = new]
        /\ dialing' = (dialing \/ dial)
        /\ job[t] = <<>>
        /\ job' = [job EXCEPT ![t] = a, ![DialLoop] = IF dial THEN <<Do("top", None)>> ELSE @]
        /\ UNCHANGED <<est, shut, wire>>
    BY <1>3 DEF SetCascadeEdges, Idle
  <2>2. /\ new \in Orders \cup {None} /\ c \in Conns \cup {None} /\ removed \in BOOLEAN
        /\ t \in Threads /\ t[1] = n /\ t # DialLoop
    BY <1>1, ThreadFacts DEF Types, InForce
  <2>3. /\ a \in Seq(Steps) /\ (a # <<>> => Head(a) = Do("close", c))
        /\ \A x : In(a, x) <=> removed /\ x = Do("close", c)
        /\ \A i \in 1..Len(a) : i = 1 /\ a[i] = Do("close", c)
    <3>1. CASE removed
      <4>1. a = <<Do("close", c)>>
        BY <3>1 DEF CloseRemoved
      <4> QED
        BY <2>2, <3>1, <4>1, StepFacts, Short DEF UseOps
    <3>2. CASE ~removed
      <4>1. a = <<>>
        BY <3>2 DEF CloseRemoved
      <4> QED
        BY <3>2, <4>1, Short
    <3> QED
      BY <3>1, <3>2
  <2>4. ~removed /\ c # None => new # None /\ held[n][c].endpoint = new.endpoint
    BY DEF SameEdge
  <2> HIDE DEF new, removed, t, a
  <2>5. /\ \A m \in Nodes : reg'[m] = IF m = n /\ removed THEN None ELSE reg[m]
        /\ \A m \in Nodes : edge'[m] = IF m = n THEN new ELSE edge[m]
    BY <1>1, <2>1 DEF Types
  <2>6. \A m \in Nodes, d \in Conns : held'[m][d] = IF m = n /\ d = c /\ ~removed THEN new ELSE held[m][d]
    <3>1. \A d \in Conns : d # None
      BY NameAssumption DEF Conns
    <3>2. CASE c = None \/ removed
      BY <2>1, <3>1, <3>2
    <3>3. CASE ~(c = None \/ removed)
      <4>1. held' = [held EXCEPT ![n][c] = new] /\ ~removed
        BY <2>1, <3>3
      <4> HIDE DEF c
      <4> QED
        BY <1>1, <4>1 DEF Types
    <3> QED
      BY <3>2, <3>3
  <2>7. dial => job[DialLoop] = <<>>
    BY <1>1 DEF Shapes
  <2> DEFINE b == <<Do("top", None)>>
  <2>8. /\ b \in Seq(Steps) /\ Len(b) = 1 /\ b[1] = Do("top", None) /\ Head(b) = Do("top", None)
        /\ b # <<>> /\ \A x : In(b, x) <=> x = Do("top", None)
    BY StepFacts, Short
  <2>9. job' = [job EXCEPT ![t] = a, ![DialLoop] = IF dial THEN b ELSE @]
    BY <2>1
  <2> HIDE DEF b
  <2>10. /\ job'[t] = a /\ job'[DialLoop] = IF dial THEN b ELSE job[DialLoop]
         /\ \A u \in Threads : u # t /\ u # DialLoop => job'[u] = job[u]
    BY <1>1, <2>2, <2>9, ThreadFacts DEF Types
  <2>11. Types'
    <3>1. job' \in [Threads -> Seq(Steps)]
      BY <1>1, <2>2, <2>3, <2>8, <2>9, ThreadFacts DEF Types
    <3>2. held' \in [Nodes -> [Conns -> Orders \cup {None}]]
      <4>1. CASE c = None \/ removed
        BY <1>1, <2>1, <4>1 DEF Types
      <4>2. CASE ~(c = None \/ removed)
        <5>1. held' = [held EXCEPT ![n][c] = new]
          BY <2>1, <4>2
        <5>2. c \in Conns
          BY <2>2, <4>2
        <5> HIDE DEF c
        <5> QED
          BY <1>1, <2>2, <5>1, <5>2 DEF Types
      <4> QED
        BY <4>1, <4>2
    <3>3. edge' \in [Nodes -> Orders \cup {None}]
      BY <1>1, <2>1, <2>2 DEF Types
    <3>4. reg' \in [Nodes -> Conns \cup {None}]
      BY <1>1, <2>1 DEF Types
    <3>5. dialing' \in BOOLEAN
      BY <2>1
    <3> QED
      BY <1>1, <2>1, <3>1, <3>2, <3>3, <3>4, <3>5 DEF Types
  <2>12. Shapes'
    <3>1. \A i \in 1..Len(a) : a[i].op = "close"
      BY <2>3, StepFacts
    <3>2. \A i \in 1..Len(b) : i = Len(b) /\ b[i].op = "top"
      BY <2>8, StepFacts
    <3>3. Shape(t)'
      BY <2>10, <3>1 DEF Shape, PendOps
    <3>4. Shape(DialLoop)'
      <4>1. CASE dial
        <5>1. job'[DialLoop] = b
          BY <2>10, <4>1
        <5> QED
          BY <3>2, <5>1 DEF Shape, PendOps
      <4>2. CASE ~dial
        <5>1. job'[DialLoop] = job[DialLoop]
          BY <2>10, <4>2
        <5> QED
          BY <1>1, <5>1, ThreadFacts DEF Shapes, Shape
      <4> QED
        BY <4>1, <4>2
    <3>5. \A u \in Threads : u # t /\ u # DialLoop => Shape(u)'
      BY <1>1, <2>10 DEF Shapes, Shape
    <3>6. ~dialing' => job'[DialLoop] = <<>>
      BY <1>1, <2>1, <2>10 DEF Shapes
    <3> QED
      BY <3>3, <3>4, <3>5, <3>6 DEF Shapes
  <2>13. RegisteredInForce'
    <3>1. ASSUME NEW m \in Nodes, reg'[m] # None
          PROVE  /\ edge'[m] # None
                 /\ held'[m][reg'[m]].endpoint = edge'[m].endpoint
                 /\ held'[m][reg'[m]].epoch = edge'[m].epoch
                 /\ reg'[m] \in est'[m]
      <4>1. reg'[m] = reg[m] /\ reg[m] \in Conns /\ reg[m] \in est'[m]
        BY <1>1, <2>1, <2>5, <3>1 DEF Types, RegisteredInForce
      <4>2. CASE m = n
        <5>1. ~removed /\ held'[m][reg'[m]] = new /\ edge'[m] = new
          BY <2>5, <2>6, <3>1, <4>1, <4>2
        <5> QED
          BY <2>4, <3>1, <4>1, <4>2, <5>1
      <4>3. CASE m # n
        <5>1. held'[m][reg'[m]] = held[m][reg[m]] /\ edge'[m] = edge[m]
          BY <2>5, <2>6, <4>1, <4>3
        <5> QED
          BY <1>1, <3>1, <4>1, <5>1 DEF RegisteredInForce
      <4> QED
        BY <4>2, <4>3
    <3> QED
      BY <3>1 DEF RegisteredInForce
  <2>14. DownLast'
    <3>1. ASSUME NEW u \in Threads, job'[u] # <<>>, Head(job'[u]).op = "down"
          PROVE  reg'[u[1]] # Head(job'[u]).conn
      <4>1. job'[u] = job[u]
        <5>1. Do("close", c).op # "down" /\ Do("top", None).op # "down"
          BY StepFacts
        <5> QED
          BY <2>3, <2>8, <2>10, <3>1, <5>1
      <4>2. Head(job[u]) \in Steps /\ u[1] \in Nodes
        BY <1>1, <3>1, <4>1, SaysHead, ThreadFacts
      <4>3. Head(job[u]).conn \in Conns /\ reg[u[1]] # Head(job[u]).conn
        BY <1>1, <3>1, <4>1, <4>2, StepFacts DEF DownLast
      <4> QED
        BY <2>5, <4>1, <4>2, <4>3, NameAssumption DEF Conns
    <3> QED
      BY <3>1 DEF DownLast
  <2>15. ASSUME NEW m \in Nodes, NEW d \in Conns PROVE SessionOK(m, d)'
    <3>1. d # None /\ SessionOK(m, d)
      BY NameAssumption DEF Conns, IInv
    <3>2. ASSUME NEW op
          PROVE  Says(m, op, d)' <=> Says(m, op, d) \/ (m = n /\ removed /\ d = reg[n] /\ op = "close")
      <4> DEFINE x == Do(op, d)
      <4>1. x # Do("top", None) /\ (x = Do("close", c) <=> d = c /\ op = "close")
        BY <3>1, StepFacts
      <4>2. ~In(job[t], x) /\ (dial => ~In(job[DialLoop], x))
        BY <2>1, <2>7, Short
      <4> HIDE DEF x
      <4>3. \A u \in Threads : In(job'[u], x) <=> In(job[u], x) \/ (u = t /\ removed /\ d = c /\ op = "close")
        BY <2>2, <2>3, <2>8, <2>10, <4>1, <4>2
      <4>4. Says(m, op, d) = (\E u \in Threads : u[1] = m /\ In(job[u], x))
        BY DEF Says, x
      <4>5. Says(m, op, d)' = (\E u \in Threads : u[1] = m /\ In(job'[u], x))
        BY DEF Says, x, In
      <4> QED
        BY <2>2, <4>3, <4>4, <4>5
    <3>3. reg'[m] = IF m = n /\ removed THEN None ELSE reg[m]
      BY <2>5
    <3>4. held'[m][d] = None \/ held'[m][d] = held[m][d] \/ reg'[m] = d
      BY <2>6, <3>3
    <3>5. removed => reg[n] # None
      BY DEF removed
    <3> QED
      BY <2>1, <2>2, <3>1, <3>2, <3>3, <3>4, <3>5, Withdrawn
  <2> QED
    BY <2>11, <2>12, <2>13, <2>14, <2>15 DEF IInv
<1> QED
  BY <1>2, <1>3

-----------------------------------------------------------------------------
(* The theorems                                                            *)

LEMMA InvInit == Init => IInv
<1> SUFFICES ASSUME Init PROVE IInv
  OBVIOUS
<1>1. /\ \A t \in Threads : job[t] = <<>> /\ Len(job[t]) = 0
      /\ \A n, op, c : ~Says(n, op, c)
  BY EmptySeq DEF Init, Says, In
<1>2. Types
  BY EmptySeq DEF Init, Types
<1>3. Shapes /\ DownLast
  BY <1>1, ThreadFacts DEF Shapes, Shape, DownLast
<1>4. RegisteredInForce
  BY DEF Init, RegisteredInForce
<1>5. ASSUME NEW n \in Nodes, NEW c \in Conns PROVE SessionOK(n, c)
  <2>1. reg[n] # c /\ shut[n] = {} /\ wire[c] = "free" /\ held[n][c] = None
    BY NameAssumption DEF Init, Conns
  <2>2. ~Pending(n, c) /\ Untouched(n, c)
    BY <1>1, <2>1 DEF Pending, Untouched
  <2>3. New(n, c) /\ Ends(n, c) /\ Known(n, c)
    BY <1>1, <2>1, <2>2 DEF New, Ends, Known
  <2> QED
    BY <2>3 DEF SessionOK
<1> QED
  BY <1>2, <1>3, <1>4, <1>5 DEF IInv

\* The invariant does not speak of tokens whose time is over.
LEMMA InvStutter ==
  ASSUME IInv, Expire \/ UNCHANGED vars
  PROVE  IInv'
<1>1. UNCHANGED <<epoch, edge, reg, held, est, shut, wire, dialing, job>>
  BY DEF Expire, vars, nodeVars, sessVars
<1>2. Types' /\ Shapes' /\ RegisteredInForce' /\ DownLast'
  BY <1>1 DEF IInv, Types, Shapes, Shape, RegisteredInForce, DownLast
<1>3. ASSUME NEW m \in Nodes, NEW d \in Conns PROVE SessionOK(m, d)'
  <2>1. SessionOK(m, d) /\ \A op : Says(m, op, d)' <=> Says(m, op, d)
    BY <1>1 DEF IInv, Says, In
  <2> QED
    BY <1>1, <2>1, Same
<1> QED
  BY <1>2, <1>3 DEF IInv

\* The inductive invariant: the types, the shape of what each goroutine has
\* left to do, and for each end of each connection how registration, handshake
\* and end of its session relate (state.go, server.go, edge.go).
THEOREM Invariant == Spec => []IInv
<1>1. ASSUME IInv, [Next]_vars PROVE IInv'
  <2>1. ASSUME NEW n \in Nodes, NEW o \in Orders, SetCascadeEdges(n, o) PROVE IInv'
    BY <1>1, <2>1, SetCascadeEdgesStep
  <2>2. ASSUME NEW n \in Nodes, CloseRoom(n) \/ Tick(n) PROVE IInv'
    BY <1>1, <2>2, CloseRoomStep, TickStep
  <2>3. ASSUME NEW t \in Threads, Step(t) PROVE IInv'
    BY <1>1, <2>3, DialTopStep, DialExitStep, DialAnswerStep, AuthorizeStep, EstablishStep,
       ReadFailsStep, CloseStep, LastSteps DEF Step
  <2>4. ASSUME NEW c \in Conns, Accept(c) \/ Cut(c) \/ Forget(c) PROVE IInv'
    BY <1>1, <2>4, AcceptStep, CutStep, ForgetStep
  <2>5. CASE Expire \/ UNCHANGED vars
    BY <1>1, <2>5, InvStutter
  <2> QED
    BY <1>1, <2>1, <2>2, <2>3, <2>4, <2>5 DEF Next
<1> QED
  BY <1>1, InvInit, PTL DEF Spec

\* The registered session of a node is one of the edge set in force there, at
\* its endpoint and epoch, and is established, whatever orders come while
\* handshakes, sessions and their ends are under way (applyEdges,
\* edgeEstablished, onEdgeClosed).
THEOREM RegisteredSessionInForce == Spec => []RegisteredInForce
<1>1. IInv => RegisteredInForce
  BY DEF IInv
<1> QED
  BY <1>1, Invariant, PTL

\* A session that runs on an accepted connection is registered, or some
\* goroutine is about to register or to close it: none is beyond the reach of
\* the orders to come (edgeEstablished, edgeSession.close).
THEOREM NoSessionOrphaned == Spec => []NoOrphan
<1>1. IInv => NoOrphan
  <2> SUFFICES ASSUME IInv, NEW n \in Nodes, NEW c \in Conns, Settled(c), held[n][c] # None,
                      wire[c] = "accepted"
               PROVE  reg[n] = c
    BY DEF NoOrphan
  <2>1. ASSUME NEW op \in {"answer", "establish", "close"} PROVE ~Says(n, op, c)
    BY <2>1, StepFacts DEF Settled, Says, In
  <2> QED
    BY <2>1 DEF IInv, SessionOK, Known
<1> QED
  BY <1>1, Invariant, PTL
=============================================================================
