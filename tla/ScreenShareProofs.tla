------------------------- MODULE ScreenShareProofs -------------------------
(* The life of a screen, for any numbers of tracks, companions and viewers *)
(* and every interleaving of the goroutines that begin and end             *)
(* publications: each is counted once and discounted once, and nothing of  *)
(* it outlives its tracks.  And, when operations come one after the other, *)
(* everyone receives the layer that is meant for it.                       *)
EXTENDS ScreenShare, FiniteSetTheorems, SequenceTheorems, TLAPS

-----------------------------------------------------------------------------
(* The inductive invariant                                                 *)

DoOps == {"strip", "admit", "admitCompanion", "announce", "attach", "companionTcv",
          "attachCompanion", "live", "epilogue", "finish", "finishCompanion", "clear",
          "uncount", "tellEnded", "reportEnded", "endCompanion", "stopUplink",
          "stopCompanion", "unlist"}
ForOps == {"cascade", "detach", "rebuild", "ensure", "follow"}
Steps == [op : DoOps] \cup [op : ForOps, kind : Kinds]

Ops(s) == {s[i].op : i \in 1..Len(s)}
Track(x) == <<"track", x>>

Types ==
  /\ job \in [Threads -> Seq(Steps)]
  /\ up \in [Uplinks -> {"off", "called", "live", "over"}]
  /\ publishing \in BOOLEAN /\ companion \in BOOLEAN /\ gauge \in Int
  /\ layers \in [Qualities -> Tracks \cup {None}]

\* A track is admitted or stripped before anything else is done about it.
Entering == {"admit", "admitCompanion", "strip"}

\* An announcement is the next thing to do, and the counter is decremented
\* right after the layers have been cleared: no goroutine owes either twice.
Tidy(s) ==
  s # <<>> =>
    /\ "announce" \notin Ops(Tail(s))
    /\ "uncount" \in Ops(Tail(s)) =>
         Head(s).op = "clear" /\ Tail(s) # <<>> /\ "uncount" \notin Ops(Tail(Tail(s)))
    /\ \A op \in Entering : op \in Ops(s) => Tail(s) = <<>>

\* Whose goroutines admit, strip and start read loops.
Placed(t) ==
  /\ Ops(job[t]) \cap Entering # {} =>
       \E x \in Uplinks : /\ t = Track(x) /\ up[x] = "called"
                          /\ "admit" \in Ops(job[t]) => x \in Tracks /\ Quality(x) # ""
                          /\ "admitCompanion" \in Ops(job[t]) => x \in Companions
  /\ "live" \in Ops(job[t]) => \E x \in Uplinks : t = Track(x)

\* The read loop of x runs or is to run; its epilogue, or what ends a
\* companion, is still to come.
Runs(x) == up[x] = "live" \/ "live" \in Ops(job[Track(x)])
Owes(x) == Runs(x) \/ "epilogue" \in Ops(job[Track(x)])
Will(op) == \E t \in Threads : op \in Ops(job[t])

\* A layer is filed by a track whose epilogue is to come, and a publication has
\* such a track or someone about to finish it, also when its layers have been
\* cleared by the end of the one before.
LayersOwed ==
  \A q \in Qualities : layers[q] # None => Quality(layers[q]) # "" /\ Owes(layers[q])
ScreenOwed ==
  publishing => Will("finish") \/ \E x \in Tracks : Quality(x) # "" /\ Owes(x)
CompanionOwed ==
  companion => Will("finishCompanion") \/ \E x \in Companions : Runs(x)

Owers(op) == {t \in Threads : op \in Ops(job[t])}
Counted ==
  /\ IsFiniteSet(Owers("announce")) /\ IsFiniteSet(Owers("uncount"))
  /\ gauge + Cardinality(Owers("announce")) - Cardinality(Owers("uncount"))
       = IF publishing THEN 1 ELSE 0

IInv ==
  /\ Types
  /\ \A t \in Threads : Tidy(job[t]) /\ Placed(t)
  /\ LayersOwed /\ ScreenOwed /\ CompanionOwed /\ Counted

-----------------------------------------------------------------------------
(* Steps and sequences of them                                             *)

LEMMA StepFacts ==
  /\ \A op \in DoOps : Do(op) \in Steps /\ Do(op).op = op
  /\ \A op \in ForOps, kind \in Kinds : For(op, kind) \in Steps /\ For(op, kind).op = op
  /\ \A kind \in Kinds : Rebuild(kind) \in Steps /\ Rebuild(kind).op = "rebuild"
  /\ \A s \in Steps : s.op \in DoOps \cup ForOps
  /\ Screen \in Kinds /\ Audio \in Kinds
BY DEF Do, For, Rebuild, Steps, DoOps, ForOps, Kinds

\* The steps that the model's operations plan.
LEMMA Named ==
  /\ \A kind \in Kinds : Rebuild(kind) \in Steps /\ Rebuild(kind).op = "rebuild"
  /\ \A kind \in Kinds : For("detach", kind) \in Steps /\ For("detach", kind).op = "detach"
  /\ \A kind \in Kinds : For("ensure", kind) \in Steps /\ For("ensure", kind).op = "ensure"
  /\ \A kind \in Kinds : For("follow", kind) \in Steps /\ For("follow", kind).op = "follow"
  /\ Do("reportEnded") \in Steps /\ Do("reportEnded").op = "reportEnded"
  /\ Do("live") \in Steps /\ Do("live").op = "live"
  /\ Do("finish") \in Steps /\ Do("finish").op = "finish"
  /\ Do("stopUplink") \in Steps /\ Do("stopUplink").op = "stopUplink"
  /\ Do("unlist") \in Steps /\ Do("unlist").op = "unlist"
  /\ Do("strip") \in Steps /\ Do("strip").op = "strip"
  /\ Do("finishCompanion") \in Steps /\ Do("finishCompanion").op = "finishCompanion"
  /\ Do("endCompanion") \in Steps /\ Do("endCompanion").op = "endCompanion"
  /\ Screen \in Kinds /\ Audio \in Kinds
<1>1. {"reportEnded", "live", "finish", "stopUplink", "unlist", "strip", "finishCompanion", "endCompanion"} \subseteq DoOps
  BY DEF DoOps
<1>2. {"detach", "ensure", "follow"} \subseteq ForOps
  BY DEF ForOps
<1> QED
  BY <1>1, <1>2, StepFacts

LEMMA StopNamed == Do("stopCompanion") \in Steps /\ Do("stopCompanion").op = "stopCompanion"
<1>1. "stopCompanion" \in DoOps
  BY DEF DoOps
<1> QED
  BY <1>1, StepFacts

LEMMA StepIsDo ==
  ASSUME NEW s \in Steps, NEW op \in DoOps
  PROVE  s.op = op <=> s = Do(op)
<1>1. CASE s \in [op : DoOps]
  BY <1>1 DEF Do
<1>2. CASE s \in [op : ForOps, kind : Kinds]
  <2>1. s.op \in ForOps
    BY <1>2
  <2>2. op \notin ForOps
    BY DEF DoOps, ForOps
  <2>3. Do(op).op = op
    BY DEF Do
  <2> QED
    BY <2>1, <2>2, <2>3
<1> QED
  BY <1>1, <1>2 DEF Steps

LEMMA ThreadFacts ==
  /\ Control \in Threads /\ Closer \in Threads /\ Cascade \in Threads
  /\ \A x \in Uplinks : Track(x) \in Threads
  /\ \A v \in Viewers : <<"loop", v>> \in Threads /\ <<"connect", v>> \in Threads
  /\ \A x, y : Track(x) = Track(y) => x = y
  /\ \A x : Track(x)[2] = x
BY DEF Control, Closer, Cascade, Threads, Track

\* The operations left after the first step, and after the second.
LEMMA OpsOfTail ==
  ASSUME NEW s \in Seq(Steps), s # <<>>
  PROVE  /\ Tail(s) \in Seq(Steps) /\ Head(s) \in Steps /\ Len(s) \in Nat \ {0}
         /\ Head(s) = s[1]
         /\ Ops(Tail(s)) = {s[i].op : i \in 2..Len(s)}
         /\ Ops(s) = {Head(s).op} \cup Ops(Tail(s))
<1>1. /\ Tail(s) \in Seq(Steps) /\ Len(Tail(s)) = Len(s) - 1 /\ Head(s) = s[1] /\ Head(s) \in Steps
      /\ \A i \in 1..Len(Tail(s)) : Tail(s)[i] = s[i + 1]
      /\ Len(s) \in Nat \ {0}
  BY HeadTailProperties, EmptySeq, LenProperties
<1>2. ASSUME NEW i \in 1..Len(Tail(s))
      PROVE  i + 1 \in 2..Len(s) /\ Tail(s)[i].op = s[i + 1].op
  BY <1>1
<1>3. ASSUME NEW j \in 2..Len(s)
      PROVE  j - 1 \in 1..Len(Tail(s)) /\ Tail(s)[j - 1].op = s[j].op
  <2>1. j - 1 \in 1..Len(Tail(s)) /\ (j - 1) + 1 = j
    BY <1>1
  <2> QED
    BY <1>1, <2>1
<1>4. Ops(Tail(s)) = {s[i].op : i \in 2..Len(s)}
  <2>1. ASSUME NEW o \in Ops(Tail(s)) PROVE o \in {s[i].op : i \in 2..Len(s)}
    BY <1>2 DEF Ops
  <2>2. ASSUME NEW o \in {s[i].op : i \in 2..Len(s)} PROVE o \in Ops(Tail(s))
    BY <1>3 DEF Ops
  <2> QED
    BY <2>1, <2>2
<1>5. 1..Len(s) = {1} \cup 2..Len(s)
  BY <1>1
<1>6. Ops(s) = {Head(s).op} \cup {s[i].op : i \in 2..Len(s)}
  BY <1>1, <1>5 DEF Ops
<1> QED
  BY <1>1, <1>4, <1>6

LEMMA Joined ==
  ASSUME NEW a \in Seq(Steps), NEW b \in Seq(Steps)
  PROVE  /\ a \o b \in Seq(Steps) /\ Len(a \o b) = Len(a) + Len(b)
         /\ Len(a) \in Nat /\ Len(b) \in Nat
         /\ \A i \in 1..Len(a \o b) : (a \o b)[i] = IF i <= Len(a) THEN a[i] ELSE b[i - Len(a)]
BY ConcatProperties, LenProperties

LEMMA OpsOfConcat ==
  ASSUME NEW a \in Seq(Steps), NEW b \in Seq(Steps)
  PROVE  a \o b \in Seq(Steps) /\ Ops(a \o b) = Ops(a) \cup Ops(b)
<1> DEFINE r == a \o b
<1>1. /\ r \in Seq(Steps) /\ Len(r) = Len(a) + Len(b) /\ Len(a) \in Nat /\ Len(b) \in Nat
      /\ \A i \in 1..Len(r) : r[i] = IF i <= Len(a) THEN a[i] ELSE b[i - Len(a)]
  BY Joined
<1> HIDE DEF r
<1>2. ASSUME NEW o \in Ops(r) PROVE o \in Ops(a) \cup Ops(b)
  <2>1. PICK i \in 1..Len(r) : o = r[i].op
    BY DEF Ops
  <2>2. CASE i <= Len(a)
    BY <1>1, <2>1, <2>2 DEF Ops
  <2>3. CASE ~(i <= Len(a))
    <3>1. i - Len(a) \in 1..Len(b) /\ o = b[i - Len(a)].op
      BY <1>1, <2>1, <2>3
    <3> QED
      BY <3>1 DEF Ops
  <2> QED
    BY <2>2, <2>3
<1>3. ASSUME NEW o \in Ops(a) PROVE o \in Ops(r)
  <2>1. PICK i \in 1..Len(a) : o = a[i].op
    BY DEF Ops
  <2>2. i \in 1..Len(r) /\ r[i] = a[i]
    BY <1>1
  <2> QED
    BY <2>1, <2>2 DEF Ops
<1>4. ASSUME NEW o \in Ops(b) PROVE o \in Ops(r)
  <2>1. PICK i \in 1..Len(b) : o = b[i].op
    BY DEF Ops
  <2>2. i + Len(a) \in 1..Len(r) /\ ~(i + Len(a) <= Len(a)) /\ (i + Len(a)) - Len(a) = i
    BY <1>1
  <2>3. r[i + Len(a)] = b[i]
    BY <1>1, <2>2
  <2> QED
    BY <2>1, <2>2, <2>3 DEF Ops
<1> QED
  BY <1>1, <1>2, <1>3, <1>4 DEF r

\* The sequences that the actions put in, all of at most four steps.
LEMMA ShortOps ==
  /\ <<>> \in Seq(Steps) /\ Ops(<<>>) = {}
  /\ \A x \in Steps : <<x>> \in Seq(Steps) /\ Ops(<<x>>) = {x.op}
  /\ \A x, y \in Steps : <<x, y>> \in Seq(Steps) /\ Ops(<<x, y>>) = {x.op, y.op}
  /\ \A x, y, z, w \in Steps :
       <<x, y, z, w>> \in Seq(Steps) /\ Ops(<<x, y, z, w>>) = {x.op, y.op, z.op, w.op}
<1>1. <<>> \in Seq(Steps) /\ Ops(<<>>) = {}
  BY DEF Ops
<1>2. ASSUME NEW x \in Steps PROVE <<x>> \in Seq(Steps) /\ Ops(<<x>>) = {x.op}
  <2>1. Len(<<x>>) = 1 /\ <<x>>[1] = x /\ 1..1 = {1}
    OBVIOUS
  <2> QED
    BY <2>1 DEF Ops
<1>3. ASSUME NEW x \in Steps, NEW y \in Steps
      PROVE  <<x, y>> \in Seq(Steps) /\ Ops(<<x, y>>) = {x.op, y.op}
  <2>1. Len(<<x, y>>) = 2 /\ <<x, y>>[1] = x /\ <<x, y>>[2] = y /\ 1..2 = {1, 2}
    OBVIOUS
  <2> QED
    BY <2>1 DEF Ops
<1>4. ASSUME NEW x \in Steps, NEW y \in Steps, NEW z \in Steps, NEW w \in Steps
      PROVE  <<x, y, z, w>> \in Seq(Steps) /\ Ops(<<x, y, z, w>>) = {x.op, y.op, z.op, w.op}
  <2> DEFINE s == <<x, y, z, w>>
  <2>1. s \in Seq(Steps) /\ Len(s) = 4 /\ s[1] = x /\ s[2] = y /\ s[3] = z /\ s[4] = w
    OBVIOUS
  <2>2. 1..4 = {1, 2, 3, 4}
    OBVIOUS
  <2> HIDE DEF s
  <2>3. Ops(s) = {s[i].op : i \in {1, 2, 3, 4}}
    BY <2>1, <2>2 DEF Ops
  <2>4. Ops(s) = {x.op, y.op, z.op, w.op}
    BY <2>1, <2>3
  <2> QED
    BY <2>1, <2>4 DEF s
<1> QED
  BY <1>1, <1>2, <1>3, <1>4

LEMMA TripleOps ==
  ASSUME NEW x \in Steps, NEW y \in Steps, NEW z \in Steps
  PROVE  <<x, y, z>> \in Seq(Steps) /\ Ops(<<x, y, z>>) = {x.op, y.op, z.op}
<1> DEFINE s == <<x, y, z>>
<1>1. s \in Seq(Steps) /\ Len(s) = 3 /\ s[1] = x /\ s[2] = y /\ s[3] = z
  OBVIOUS
<1>2. 1..3 = {1, 2, 3}
  OBVIOUS
<1> HIDE DEF s
<1>3. Ops(s) = {s[i].op : i \in {1, 2, 3}}
  BY <1>1, <1>2 DEF Ops
<1>4. Ops(s) = {x.op, y.op, z.op}
  BY <1>1, <1>3
<1> QED
  BY <1>1, <1>4 DEF s

-----------------------------------------------------------------------------
(* What a step of a goroutine does to the sequences                        *)

Special == Entering \cup {"announce", "uncount"}
Plain(s) == Ops(s) \cap Special = {}

LEMMA PlainIsTidy ==
  ASSUME NEW s \in Seq(Steps), Ops(s) \cap Special = {}
  PROVE  Tidy(s)
<1>1. s # <<>> => Ops(Tail(s)) \subseteq Ops(s)
  BY OpsOfTail
<1> QED
  BY <1>1 DEF Tidy, Special

LEMMA OneIsTidy ==
  ASSUME NEW x \in Steps
  PROVE  Tidy(<<x>>)
<1>1. Tail(<<x>>) = <<>>
  OBVIOUS
<1> QED
  BY <1>1, ShortOps DEF Tidy

\* The rest of a tidy sequence.
LEMMA RestIsPlain ==
  ASSUME NEW s \in Seq(Steps), s # <<>>, Tidy(s)
  PROVE  /\ Ops(Tail(s)) \cap (Entering \cup {"announce"}) = {}
         /\ "uncount" \in Ops(Tail(s)) => Head(s).op = "clear"
         /\ Head(s).op \in Entering => Tail(s) = <<>>
         /\ Tidy(Tail(s))
<1>1. Ops(s) = {Head(s).op} \cup Ops(Tail(s)) /\ Tail(s) \in Seq(Steps)
  BY OpsOfTail
<1>2. ASSUME NEW op \in Entering PROVE op \notin Ops(Tail(s))
  BY <1>1, <1>2, ShortOps DEF Tidy
<1>3. Ops(Tail(s)) \cap (Entering \cup {"announce"}) = {}
  BY <1>2 DEF Tidy
<1>4. Tidy(Tail(s))
  <2>1. CASE Tail(s) = <<>>
    BY <2>1 DEF Tidy
  <2>2. CASE Tail(s) # <<>>
    <3>1. Ops(Tail(Tail(s))) \subseteq Ops(Tail(s))
      BY <1>1, <2>2, OpsOfTail
    <3> QED
      BY <1>3, <3>1 DEF Tidy
  <2> QED
    BY <2>1, <2>2
<1> QED
  BY <1>1, <1>3, <1>4 DEF Tidy

\* Goroutine t exchanges the operations gone for the operations new.
Shift(t, gone, new) ==
  /\ \A u \in Threads \ {t} : job'[u] = job[u]
  /\ \E rest : /\ Ops(job[t]) = gone \cup rest /\ Ops(job'[t]) = new \cup rest
               /\ rest \cap (Entering \cup {"announce"}) = {}
               /\ "uncount" \in rest => gone = {"clear"}

Orderly == job' \in [Threads -> Seq(Steps)] /\ \A u \in Threads : Tidy(job'[u])

LEMMA Moved ==
  ASSUME Types, \A u \in Threads : Tidy(job[u]),
         NEW t \in Threads, NEW op, At(t, op), NEW a \in Seq(Steps), Continue(t, a)
  PROVE  /\ job' \in [Threads -> Seq(Steps)] /\ job'[t] = a \o Tail(job[t])
         /\ Shift(t, {op}, Ops(a))
         /\ op \in Ops(job[t])
         /\ op \in Entering => job'[t] = a /\ Ops(job[t]) = {op}
         /\ Plain(a) /\ op \notin {"clear"} => Orderly
         /\ Tidy(job'[t]) => Orderly
<1> DEFINE s == job[t]
<1>1. s \in Seq(Steps) /\ s # <<>> /\ Head(s).op = op /\ Tidy(s)
  BY DEF At, Types
<1>2. /\ Tail(s) \in Seq(Steps) /\ Ops(s) = {op} \cup Ops(Tail(s))
  BY <1>1, OpsOfTail
<1>3. a \o Tail(s) \in Seq(Steps) /\ Ops(a \o Tail(s)) = Ops(a) \cup Ops(Tail(s))
  BY <1>2, OpsOfConcat
<1>4. /\ Ops(Tail(s)) \cap (Entering \cup {"announce"}) = {}
      /\ "uncount" \in Ops(Tail(s)) => op = "clear"
      /\ op \in Entering => Tail(s) = <<>>
  BY <1>1, RestIsPlain
<1>5. /\ job' \in [Threads -> Seq(Steps)] /\ job'[t] = a \o Tail(job[t])
      /\ \A u \in Threads \ {t} : job'[u] = job[u]
  BY <1>3 DEF Continue, Types
<1>6. Shift(t, {op}, Ops(a))
  BY <1>2, <1>3, <1>4, <1>5 DEF Shift
<1>7. Tidy(job'[t]) => Orderly
  BY <1>5 DEF Orderly
<1>8. ASSUME Plain(a), op \notin {"clear"} PROVE Tidy(job'[t])
  <2>1. Ops(job'[t]) \cap Special = {}
    BY <1>3, <1>4, <1>5, <1>8 DEF Special, Plain
  <2> QED
    BY <1>3, <1>5, <2>1, PlainIsTidy
<1>9. op \in Entering => job'[t] = a /\ Ops(job[t]) = {op}
  <2>1. a \o <<>> = a
    OBVIOUS
  <2> QED
    BY <1>2, <1>4, <1>5, <2>1, ShortOps
<1> QED
  BY <1>2, <1>5, <1>6, <1>7, <1>8, <1>9

LEMMA MovedOn ==
  ASSUME Types, \A u \in Threads : Tidy(job[u]),
         NEW t \in Threads, NEW op, At(t, op), Continue(t, <<>>), op \notin {"clear"}
  PROVE  /\ Shift(t, {op}, {}) /\ Orderly /\ op \in Ops(job[t])
         /\ op \in Entering => Ops(job[t]) = {op}
<1> DEFINE a == <<>>
<1>1. a \in Seq(Steps) /\ Ops(a) = {} /\ Continue(t, a)
  BY ShortOps
<1> HIDE DEF a
<1>2. Plain(a)
  BY <1>1 DEF Plain
<1>3. /\ Shift(t, {op}, Ops(a)) /\ Orderly /\ op \in Ops(job[t])
      /\ op \in Entering => Ops(job[t]) = {op}
  BY <1>1, <1>2, Moved
<1> QED
  BY <1>1, <1>3

LEMMA MovedPlain ==
  ASSUME Types, \A u \in Threads : Tidy(job[u]),
         NEW t \in Threads, NEW op, At(t, op), NEW a \in Seq(Steps), Continue(t, a),
         Plain(a), op \notin {"clear"}
  PROVE  Shift(t, {op}, Ops(a)) /\ Orderly
BY Moved

LEMMA Began ==
  ASSUME Types, \A u \in Threads : Tidy(job[u]),
         NEW t \in Threads, NEW a \in Seq(Steps), Start(t, a), Tidy(a)
  PROVE  Orderly /\ Shift(t, {}, Ops(a)) /\ Ops(job[t]) = {}
<1>1. Ops(job[t]) = {}
  BY ShortOps DEF Start
<1>2. /\ job' \in [Threads -> Seq(Steps)] /\ job'[t] = a
      /\ \A u \in Threads \ {t} : job'[u] = job[u]
  BY DEF Start, Types
<1>3. Shift(t, {}, Ops(a))
  <2>1. Ops(job[t]) = {} \cup {} /\ Ops(job'[t]) = Ops(a) \cup {}
    BY <1>1, <1>2
  <2> QED
    BY <1>2, <2>1 DEF Shift
<1> QED
  BY <1>1, <1>2, <1>3 DEF Orderly

LEMMA ShiftFacts ==
  ASSUME NEW t \in Threads, NEW gone, NEW new, Shift(t, gone, new)
  PROVE  /\ \A u \in Threads : \A op : op \in Ops(job[u]) /\ op \notin gone => op \in Ops(job'[u])
         /\ \A u \in Threads : \A op : op \in Ops(job'[u]) /\ op \notin new => op \in Ops(job[u])
         /\ \A u \in Threads \ {t} : job'[u] = job[u]
         /\ Ops(job'[t]) \cap (Entering \cup {"announce"}) \subseteq new
         /\ "uncount" \in Ops(job'[t]) /\ gone # {"clear"} => "uncount" \in new
         /\ "announce" \in Ops(job[t]) => "announce" \in gone
         /\ "uncount" \in Ops(job[t]) /\ gone # {"clear"} => "uncount" \in gone
         /\ gone \subseteq Ops(job[t])
         /\ new \subseteq Ops(job'[t])
<1>1. PICK rest : /\ Ops(job[t]) = gone \cup rest /\ Ops(job'[t]) = new \cup rest
                  /\ rest \cap (Entering \cup {"announce"}) = {}
                  /\ "uncount" \in rest => gone = {"clear"}
  BY DEF Shift
<1>2. ASSUME NEW u \in Threads, NEW op, op \in Ops(job[u]), op \notin gone
      PROVE  op \in Ops(job'[u])
  BY <1>1, <1>2 DEF Shift
<1>3. ASSUME NEW u \in Threads, NEW op, op \in Ops(job'[u]), op \notin new
      PROVE  op \in Ops(job[u])
  BY <1>1, <1>3 DEF Shift
<1> QED
  BY <1>1, <1>2, <1>3 DEF Shift

\* The state of a track changes only by its own goroutine.
LEMMA PlacedKept ==
  ASSUME \A u \in Threads : Placed(u),
         NEW t \in Threads, NEW gone, NEW new, Shift(t, gone, new),
         new \cap Entering # {} => Placed(t)',
         "live" \in new => \E x \in Uplinks : t = Track(x),
         \A y \in Uplinks : Track(y) # t => up'[y] = up[y]
  PROVE  \A u \in Threads : Placed(u)'
<1> SUFFICES ASSUME NEW u \in Threads PROVE Placed(u)'
  OBVIOUS
<1>1. "live" \in Ops(job'[u]) => \E x \in Uplinks : u = Track(x)
  BY ShiftFacts DEF Placed
<1>2. CASE u = t
  <2>1. CASE new \cap Entering = {}
    <3>1. Ops(job'[u]) \cap Entering = {}
      BY <1>2, <2>1, ShiftFacts
    <3> QED
      BY <1>1, <3>1 DEF Placed
  <2>2. CASE new \cap Entering # {}
    BY <1>2, <2>2
  <2> QED
    BY <2>1, <2>2
<1>3. CASE u # t
  <2>1. job'[u] = job[u]
    BY <1>3, ShiftFacts
  <2>2. CASE Ops(job[u]) \cap Entering = {}
    BY <1>1, <2>1, <2>2 DEF Placed
  <2>3. CASE Ops(job[u]) \cap Entering # {}
    <3>1. PICK x \in Uplinks : /\ u = Track(x) /\ up[x] = "called"
                               /\ "admit" \in Ops(job[u]) => x \in Tracks /\ Quality(x) # ""
                               /\ "admitCompanion" \in Ops(job[u]) => x \in Companions
      BY <2>3 DEF Placed
    <3>2. up'[x] = "called"
      BY <1>3, <3>1
    <3> QED
      BY <1>1, <2>1, <3>1, <3>2 DEF Placed
  <2> QED
    BY <2>2, <2>3
<1> QED
  BY <1>2, <1>3

LEMMA OwedKept ==
  ASSUME NEW t \in Threads, NEW gone, NEW new, Shift(t, gone, new)
  PROVE  /\ \A op : op \notin gone /\ Will(op) => Will(op)'
         /\ \A op : op \in new => Will(op)'
         /\ \A x \in Uplinks : up'[x] = up[x] /\ "live" \notin gone /\ Runs(x) => Runs(x)'
         /\ \A x \in Uplinks : up'[x] = up[x] /\ "live" \notin gone /\ "epilogue" \notin gone /\ Owes(x) => Owes(x)'
         /\ \A x \in Uplinks : up'[x] = up[x] /\ Track(x) # t =>
              (Runs(x) => Runs(x)') /\ (Owes(x) => Owes(x)')
<1>1. ASSUME NEW op, op \notin gone, Will(op) PROVE Will(op)'
  BY <1>1, ShiftFacts DEF Will
<1>2. ASSUME NEW op, op \in new PROVE Will(op)'
  BY <1>2, ShiftFacts DEF Will
<1>3. ASSUME NEW x \in Uplinks, up'[x] = up[x]
      PROVE  /\ "live" \notin gone /\ Runs(x) => Runs(x)'
             /\ "live" \notin gone /\ "epilogue" \notin gone /\ Owes(x) => Owes(x)'
             /\ Track(x) # t => (Runs(x) => Runs(x)') /\ (Owes(x) => Owes(x)')
  <2>1. Track(x) \in Threads
    BY ThreadFacts
  <2>2. /\ "live" \in Ops(job[Track(x)]) /\ ("live" \notin gone \/ Track(x) # t) => "live" \in Ops(job'[Track(x)])
        /\ "epilogue" \in Ops(job[Track(x)]) /\ ("epilogue" \notin gone \/ Track(x) # t) =>
             "epilogue" \in Ops(job'[Track(x)])
    BY <2>1, ShiftFacts
  <2> QED
    BY <1>3, <2>2 DEF Owes, Runs, Track
<1> QED
  BY <1>1, <1>2, <1>3

\* Nothing that is counted is begun or ended.
LEMMA OwersKept ==
  ASSUME NEW t \in Threads, NEW gone, NEW new, Shift(t, gone, new),
         NEW op, op \notin gone, op \notin new
  PROVE  Owers(op)' = Owers(op)
BY ShiftFacts DEF Owers

LEMMA CountedKept ==
  ASSUME Counted, NEW t \in Threads, NEW gone, NEW new, Shift(t, gone, new),
         (gone \cup new) \cap {"announce", "uncount"} = {},
         gauge' = gauge, publishing' = publishing
  PROVE  Counted'
<1>1. Owers("announce")' = Owers("announce") /\ Owers("uncount")' = Owers("uncount")
  BY OwersKept
<1> QED
  BY <1>1 DEF Counted

screenVars == <<up, publishing, companion, gauge, layers>>

\* What is to come stays to come.
LEMMA OwedStays ==
  ASSUME Types, LayersOwed, ScreenOwed, CompanionOwed,
         UNCHANGED <<publishing, companion, layers>>,
         \A x \in Uplinks : (Owes(x) => Owes(x)') /\ (Runs(x) => Runs(x)'),
         Will("finish") => Will("finish")',
         Will("finishCompanion") => Will("finishCompanion")'
  PROVE  LayersOwed' /\ ScreenOwed' /\ CompanionOwed'
<1>1. LayersOwed'
  BY DEF LayersOwed, Types, Uplinks
<1>2. ScreenOwed'
  BY DEF ScreenOwed, Uplinks
<1>3. CompanionOwed'
  BY DEF CompanionOwed, Uplinks
<1> QED
  BY <1>1, <1>2, <1>3

\* Steps that have nothing to do with the life of a publication.
LEMMA Aside ==
  ASSUME IInv, NEW t \in Threads, NEW gone, NEW new, Shift(t, gone, new), Orderly,
         UNCHANGED screenVars, new \cap (Special \cup {"live"}) = {},
         gone \cap {"live", "epilogue", "finish", "finishCompanion", "announce", "uncount"} = {}
  PROVE  IInv'
<1> USE DEF IInv, screenVars
<1>1. Types'
  BY DEF Types, Orderly
<1>2. \A u \in Threads : Placed(u)'
  BY PlacedKept DEF Special
<1>3. LayersOwed' /\ ScreenOwed' /\ CompanionOwed'
  BY OwedKept, OwedStays
<1>4. Counted'
  BY CountedKept DEF Special
<1> QED
  BY <1>1, <1>2, <1>3, <1>4 DEF Orderly

LEMMA AsideMove ==
  ASSUME IInv, NEW t \in Threads, NEW op, At(t, op), NEW a \in Seq(Steps), Continue(t, a),
         UNCHANGED screenVars, Ops(a) \cap (Special \cup {"live"}) = {},
         op \notin {"live", "epilogue", "finish", "finishCompanion", "announce", "uncount", "clear"}
  PROVE  IInv'
<1>1. Plain(a)
  BY DEF Plain
<1>2. Shift(t, {op}, Ops(a)) /\ Orderly
  BY <1>1, Moved DEF IInv
<1> QED
  BY <1>2, Aside

LEMMA AsideDone ==
  ASSUME IInv, NEW t \in Threads, NEW op, At(t, op), Continue(t, <<>>), UNCHANGED screenVars,
         op \notin {"live", "epilogue", "finish", "finishCompanion", "announce", "uncount", "clear"}
  PROVE  IInv'
<1> DEFINE a == <<>>
<1>1. a \in Seq(Steps) /\ Ops(a) = {} /\ Continue(t, a)
  BY ShortOps
<1> HIDE DEF a
<1> QED
  BY <1>1, AsideMove

LEMMA AsideStart ==
  ASSUME IInv, NEW t \in Threads, NEW a \in Seq(Steps), Start(t, a),
         UNCHANGED screenVars, Ops(a) \cap (Special \cup {"live"}) = {}
  PROVE  IInv'
<1>1. Tidy(a)
  BY PlainIsTidy
<1>2. Shift(t, {}, Ops(a)) /\ Orderly
  BY <1>1, Began DEF IInv
<1> QED
  BY <1>2, Aside

\* Either kind's step, and the fanouts that it concerns.
Detach(t) == DetachScreenPublisher(t) \/ DetachScreenAudioPublisher(t)
RebuildFanout(t) == RebuildScreenFanout(t) \/ RebuildScreenAudioFanout(t)
Fanouts(kind) == IF kind = Audio THEN {None} ELSE LayerTracks

\* The steps of publishing, attaching and detaching that follow from others.
LEMMA IdleSteps ==
  ASSUME IInv, NEW t \in Threads,
         \/ CascadePublish(t) \/ StoreCompanionTcv(t) \/ TellEnded(t) \/ ReportEnded(t)
         \/ EndCompanion(t) \/ StopScreenUplink(t) \/ StopScreenAudioUplink(t)
         \/ AttachScreen(t) \/ AttachCompanion(t)
         \/ EnsureDownTrack(t) \/ Follow(t) \/ Detach(t) \/ RebuildFanout(t)
         \/ RemoveParticipant(t)
  PROVE  IInv'
<1>1. CASE CascadePublish(t)
  <2>1. At(t, "cascade") /\ Continue(t, <<>>) /\ UNCHANGED screenVars
    BY <1>1 DEF CascadePublish, screenVars, pubVars, linkVars
  <2> QED
    BY <2>1, AsideDone
<1>2. CASE StoreCompanionTcv(t)
  <2>1. At(t, "companionTcv") /\ Continue(t, <<>>) /\ UNCHANGED screenVars
    BY <1>2 DEF StoreCompanionTcv, screenVars, pubVars, linkVars
  <2> QED
    BY <2>1, AsideDone
<1>3. CASE TellEnded(t)
  <2>1. CASE life = "in"
    <3> DEFINE a == <<For("detach", Screen), Do("reportEnded")>>
    <3>1. a \in Seq(Steps) /\ Ops(a) = {"detach", "reportEnded"}
      BY Named, ShortOps, SMTT(30)
    <3>2. At(t, "tellEnded") /\ Continue(t, a) /\ UNCHANGED screenVars
      BY <1>3, <2>1 DEF TellEnded, screenVars, pubVars, linkVars
    <3> HIDE DEF a
    <3> QED
      BY <3>1, <3>2, AsideMove DEF Special, Entering
  <2>2. CASE life # "in"
    <3>1. At(t, "tellEnded") /\ Continue(t, <<>>) /\ UNCHANGED screenVars
      BY <1>3, <2>2 DEF TellEnded, screenVars, pubVars, linkVars
    <3> QED
      BY <3>1, AsideDone
  <2> QED
    BY <2>1, <2>2
<1>4. CASE ReportEnded(t)
  <2>1. At(t, "reportEnded") /\ Continue(t, <<>>) /\ UNCHANGED screenVars
    BY <1>4 DEF ReportEnded, screenVars, pubVars, linkVars
  <2> QED
    BY <2>1, AsideDone
<1>5. CASE EndCompanion(t)
  <2> DEFINE a == IF life = "in" THEN <<For("detach", Audio)>> ELSE <<>>
  <2>1. a \in Seq(Steps) /\ Ops(a) \subseteq {"detach"}
    <3>1. For("detach", Audio) \in Steps /\ For("detach", Audio).op = "detach"
      BY Named
    <3>2. a = <<For("detach", Audio)>> \/ a = <<>>
      OBVIOUS
    <3> QED
      BY <3>1, <3>2, ShortOps
  <2>2. At(t, "endCompanion") /\ Continue(t, a) /\ UNCHANGED screenVars
    BY <1>5 DEF EndCompanion, screenVars, pubVars, linkVars
  <2> HIDE DEF a
  <2> QED
    BY <2>1, <2>2, AsideMove DEF Special, Entering
<1>6. CASE StopScreenUplink(t) \/ StopScreenAudioUplink(t)
  <2>1. CASE StopScreenUplink(t)
    <3>1. At(t, "stopUplink") /\ Continue(t, <<>>) /\ UNCHANGED screenVars
      BY <2>1 DEF StopScreenUplink, screenVars, pubVars, linkVars
    <3> QED
      BY <3>1, AsideDone
  <2>2. CASE StopScreenAudioUplink(t)
    <3>1. At(t, "stopCompanion") /\ Continue(t, <<>>) /\ UNCHANGED screenVars
      BY <2>2 DEF StopScreenAudioUplink, screenVars, pubVars, linkVars
    <3> QED
      BY <3>1, AsideDone
  <2> QED
    BY <1>6, <2>1, <2>2
<1>7. CASE AttachScreen(t)
  <2> DEFINE a == <<Rebuild(Screen)>>
  <2>1. a \in Seq(Steps) /\ Ops(a) = {"rebuild"}
    BY Named, ShortOps, SMTT(30)
  <2>2. At(t, "attach") /\ Continue(t, a) /\ UNCHANGED screenVars
    BY <1>7 DEF AttachScreen, Attach, screenVars, pubVars, linkVars
  <2> HIDE DEF a
  <2> QED
    BY <2>1, <2>2, AsideMove DEF Special, Entering
<1>8. CASE AttachCompanion(t)
  <2> DEFINE a == <<Rebuild(Audio)>>
  <2>1. a \in Seq(Steps) /\ Ops(a) = {"rebuild"}
    BY Named, ShortOps, SMTT(30)
  <2>2. At(t, "attachCompanion") /\ Continue(t, a) /\ UNCHANGED screenVars
    BY <1>8 DEF AttachCompanion, Attach, screenVars, pubVars, linkVars
  <2> HIDE DEF a
  <2> QED
    BY <2>1, <2>2, AsideMove DEF Special, Entering
<1>9. CASE EnsureDownTrack(t)
  <2>1. At(t, "ensure") /\ Continue(t, <<>>) /\ UNCHANGED screenVars
    BY <1>9 DEF EnsureDownTrack, screenVars, pubVars, linkVars
  <2> QED
    BY <2>1, AsideDone
<1>10. CASE Follow(t)
  <2> DEFINE k == Head(job[t]).kind
             a == IF On(k) THEN <<Rebuild(k)>> ELSE <<>>
  <2>1. k \in Kinds
    <3>1. Head(job[t]) \in Steps /\ Head(job[t]).op = "follow"
      BY <1>10, OpsOfTail DEF Follow, At, IInv, Types
    <3>2. Head(job[t]) \notin [op : DoOps]
      BY <3>1 DEF DoOps
    <3> QED
      BY <3>1, <3>2 DEF Steps
  <2>2. a \in Seq(Steps) /\ Ops(a) \subseteq {"rebuild"}
    BY <2>1, StepFacts, ShortOps
  <2>3. At(t, "follow") /\ Continue(t, a) /\ UNCHANGED screenVars
    BY <1>10 DEF Follow, screenVars, pubVars, linkVars
  <2> HIDE DEF a
  <2> QED
    BY <2>2, <2>3, AsideMove DEF Special, Entering
<1>11. CASE Detach(t)
  <2>1. At(t, "detach") /\ Continue(t, <<>>) /\ UNCHANGED screenVars
    BY <1>11 DEF Detach, DetachScreenPublisher, DetachScreenAudioPublisher, screenVars, pubVars, linkVars
  <2> QED
    BY <2>1, AsideDone
<1>12. CASE RebuildFanout(t)
  <2>1. At(t, "rebuild") /\ Continue(t, <<>>) /\ UNCHANGED screenVars
    BY <1>12 DEF RebuildFanout, RebuildScreenFanout, RebuildScreenAudioFanout, screenVars, pubVars, linkVars
  <2> QED
    BY <2>1, AsideDone
<1>13. CASE RemoveParticipant(t)
  <2> DEFINE a == <<Do("finish"), Do("finishCompanion"), For("detach", Screen), For("detach", Audio)>>
  <2>1. a \in Seq(Steps) /\ Ops(a) = {"finish", "finishCompanion", "detach"}
    <3>1. /\ Do("finish") \in Steps /\ Do("finishCompanion") \in Steps
          /\ For("detach", Screen) \in Steps /\ For("detach", Audio) \in Steps
      BY Named, ShortOps
    <3>2. Ops(a) = {Do("finish").op, Do("finishCompanion").op, For("detach", Screen).op, For("detach", Audio).op}
      BY <3>1, ShortOps
    <3> QED
      BY <3>1, <3>2, StepFacts DEF DoOps, ForOps
  <2>2. At(t, "unlist") /\ Continue(t, a) /\ UNCHANGED screenVars
    BY <1>13 DEF RemoveParticipant, screenVars, pubVars, linkVars
  <2> HIDE DEF a
  <2> QED
    BY <2>1, <2>2, AsideMove DEF Special, Entering
<1> QED
  BY <1>1, <1>2, <1>3, <1>4, <1>5, <1>6, <1>7, <1>8, <1>9, <1>10, <1>11, <1>12, <1>13

-----------------------------------------------------------------------------
(* The steps in the life of a publication                                  *)

LEMMA StripStep ==
  ASSUME IInv, NEW t \in Threads, Strip(t)
  PROVE  IInv'
<1> USE DEF IInv
<1>1. At(t, "strip") /\ Continue(t, <<>>)
  BY DEF Strip
<1>2. /\ Shift(t, {"strip"}, {}) /\ Orderly /\ Ops(job[t]) = {"strip"}
  BY <1>1, MovedOn DEF Entering
<1>3. PICK x \in Uplinks : t = Track(x) /\ up[x] = "called"
  BY <1>2 DEF Placed, Entering
<1>4. up' = [up EXCEPT ![x] = "over"] /\ UNCHANGED <<publishing, companion, layers, gauge>>
  BY <1>3, ThreadFacts DEF Strip, pubVars
<1>5. Types'
  BY <1>2, <1>4 DEF Types, Orderly
<1>6. \A u \in Threads : Placed(u)'
  <2>1. \A y \in Uplinks : Track(y) # t => up'[y] = up[y]
    BY <1>3, <1>4 DEF Types
  <2> QED
    BY <1>2, <2>1, PlacedKept
<1>7. LayersOwed' /\ ScreenOwed' /\ CompanionOwed'
  <2>1. \A y \in Uplinks : (Owes(y) => Owes(y)') /\ (Runs(y) => Runs(y)')
    <3> SUFFICES ASSUME NEW y \in Uplinks PROVE (Owes(y) => Owes(y)') /\ (Runs(y) => Runs(y)')
      OBVIOUS
    <3>1. CASE y = x
      BY <1>2, <1>3, <3>1 DEF Owes, Runs
    <3>2. CASE y # x
      <4>1. up'[y] = up[y] /\ Track(y) # t
        BY <1>3, <1>4, <3>2, ThreadFacts DEF Types
      <4> QED
        BY <1>2, <4>1, OwedKept
    <3> QED
      BY <3>1, <3>2
  <2>2. (Will("finish") => Will("finish")') /\ (Will("finishCompanion") => Will("finishCompanion")')
    BY <1>2, OwedKept
  <2> QED
    BY <1>4, <2>1, <2>2, OwedStays
<1>8. Counted'
  BY <1>2, <1>4, CountedKept
<1> QED
  BY <1>2, <1>5, <1>6, <1>7, <1>8 DEF Orderly

LEMMA AnnounceStep ==
  ASSUME IInv, NEW t \in Threads, Announce(t)
  PROVE  IInv'
<1> USE DEF IInv
<1>1. /\ At(t, "announce") /\ Continue(t, <<>>) /\ gauge' = gauge + 1
      /\ UNCHANGED <<up, publishing, companion, layers>>
  BY DEF Announce, linkVars
<1>2. Shift(t, {"announce"}, {}) /\ Orderly /\ "announce" \in Ops(job[t])
  BY <1>1, MovedOn
<1>3. Types'
  BY <1>1, <1>2 DEF Types, Orderly
<1>4. \A u \in Threads : Placed(u)'
  BY <1>1, <1>2, PlacedKept
<1>5. LayersOwed' /\ ScreenOwed' /\ CompanionOwed'
  BY <1>1, <1>2, OwedKept, OwedStays
<1>6. Counted'
  <2>1. Owers("announce")' = Owers("announce") \ {t} /\ t \in Owers("announce")
    BY <1>2, ShiftFacts DEF Owers
  <2>2. Owers("uncount")' = Owers("uncount")
    BY <1>2, OwersKept
  <2>3. /\ IsFiniteSet(Owers("announce") \ {t})
        /\ Cardinality(Owers("announce") \ {t}) = Cardinality(Owers("announce")) - 1
    BY <2>1, FS_RemoveElement DEF Counted
  <2>4. Cardinality(Owers("announce")) \in Nat /\ Cardinality(Owers("uncount")) \in Nat
    BY FS_CardinalityType DEF Counted
  <2>5. /\ Cardinality(Owers("announce")') = Cardinality(Owers("announce")) - 1
        /\ Cardinality(Owers("uncount")') = Cardinality(Owers("uncount"))
    BY <2>1, <2>2, <2>3
  <2>6. gauge' + Cardinality(Owers("announce")') - Cardinality(Owers("uncount")')
          = gauge + Cardinality(Owers("announce")) - Cardinality(Owers("uncount"))
    <3>1. gauge \in Int
      BY DEF Types
    <3> QED
      BY <1>1, <2>4, <2>5, <3>1
  <2> QED
    BY <1>1, <2>1, <2>2, <2>3, <2>6 DEF Counted
<1> QED
  BY <1>2, <1>3, <1>4, <1>5, <1>6 DEF Orderly

LEMMA UncountStep ==
  ASSUME IInv, NEW t \in Threads, Uncount(t)
  PROVE  IInv'
<1> USE DEF IInv
<1>1. /\ At(t, "uncount") /\ Continue(t, <<>>) /\ gauge' = gauge - 1
      /\ UNCHANGED <<up, publishing, companion, layers>>
  BY DEF Uncount, linkVars
<1>2. Shift(t, {"uncount"}, {}) /\ Orderly /\ "uncount" \in Ops(job[t])
  BY <1>1, MovedOn
<1>3. Types'
  BY <1>1, <1>2 DEF Types, Orderly
<1>4. \A u \in Threads : Placed(u)'
  BY <1>1, <1>2, PlacedKept
<1>5. LayersOwed' /\ ScreenOwed' /\ CompanionOwed'
  BY <1>1, <1>2, OwedKept, OwedStays
<1>6. Counted'
  <2>1. Owers("uncount")' = Owers("uncount") \ {t} /\ t \in Owers("uncount")
    <3>1. "uncount" \notin Ops(job'[t])
      BY <1>2, ShiftFacts
    <3> QED
      BY <1>2, <3>1, ShiftFacts DEF Owers
  <2>2. Owers("announce")' = Owers("announce")
    BY <1>2, OwersKept
  <2>3. /\ IsFiniteSet(Owers("uncount") \ {t})
        /\ Cardinality(Owers("uncount") \ {t}) = Cardinality(Owers("uncount")) - 1
    BY <2>1, FS_RemoveElement DEF Counted
  <2>4. Cardinality(Owers("announce")) \in Nat /\ Cardinality(Owers("uncount")) \in Nat
    BY FS_CardinalityType DEF Counted
  <2>5. /\ Cardinality(Owers("uncount")') = Cardinality(Owers("uncount")) - 1
        /\ Cardinality(Owers("announce")') = Cardinality(Owers("announce"))
    BY <2>1, <2>2, <2>3
  <2>6. gauge' + Cardinality(Owers("announce")') - Cardinality(Owers("uncount")')
          = gauge + Cardinality(Owers("announce")) - Cardinality(Owers("uncount"))
    <3>1. gauge \in Int
      BY DEF Types
    <3> QED
      BY <1>1, <2>4, <2>5, <3>1
  <2> QED
    BY <1>1, <2>1, <2>2, <2>3, <2>6 DEF Counted
<1> QED
  BY <1>2, <1>3, <1>4, <1>5, <1>6 DEF Orderly

LEMMA StartLoopStep ==
  ASSUME IInv, NEW t \in Threads, StartLoop(t)
  PROVE  IInv'
<1> USE DEF IInv
<1>1. /\ At(t, "live") /\ Continue(t, <<>>) /\ up' = [up EXCEPT ![t[2]] = "live"]
      /\ UNCHANGED <<publishing, companion, layers, gauge>>
  BY DEF StartLoop, pubVars
<1>2. Shift(t, {"live"}, {}) /\ Orderly /\ "live" \in Ops(job[t])
  BY <1>1, MovedOn
<1>3. PICK x \in Uplinks : t = Track(x)
  BY <1>2 DEF Placed
<1>4. up'[x] = "live" /\ \A y \in Uplinks : y # x => up'[y] = up[y] /\ Track(y) # t
  BY <1>1, <1>3, ThreadFacts DEF Types
<1>5. Types'
  BY <1>1, <1>2 DEF Types, Orderly
<1>6. \A u \in Threads : Placed(u)'
  <2>1. \A y \in Uplinks : Track(y) # t => up'[y] = up[y]
    BY <1>3, <1>4
  <2> QED
    BY <1>2, <2>1, PlacedKept
<1>7. LayersOwed' /\ ScreenOwed' /\ CompanionOwed'
  <2>1. Owes(x)' /\ Runs(x)'
    BY <1>4 DEF Owes, Runs
  <2>2. \A y \in Uplinks : (Owes(y) => Owes(y)') /\ (Runs(y) => Runs(y)')
    BY <1>2, <1>4, <2>1, OwedKept
  <2>3. (Will("finish") => Will("finish")') /\ (Will("finishCompanion") => Will("finishCompanion")')
    BY <1>2, OwedKept
  <2> QED
    BY <1>1, <2>2, <2>3, OwedStays
<1>8. Counted'
  BY <1>1, <1>2, CountedKept
<1> QED
  BY <1>2, <1>5, <1>6, <1>7, <1>8 DEF Orderly

\* The track that ends is no layer any more; with the last layer the
\* publication is to be finished, and any other layer has an epilogue to come.
LEMMA EpilogueStep ==
  ASSUME IInv, NEW t \in Threads, Epilogue(t)
  PROVE  IInv'
<1> USE DEF IInv
<1> DEFINE a == IF layers' = NoLayers THEN <<Do("finish")>> ELSE <<Rebuild(Screen)>>
<1>1. /\ At(t, "epilogue") /\ Continue(t, a)
      /\ layers' = [q \in Qualities |-> IF layers[q] = t[2] THEN None ELSE layers[q]]
      /\ UNCHANGED <<up, publishing, companion, gauge>>
  BY DEF Epilogue, linkVars
<1>2. /\ a \in Seq(Steps) /\ Ops(a) \subseteq {"finish", "rebuild"}
      /\ layers' = NoLayers => "finish" \in Ops(a)
  <2>2. CASE layers' = NoLayers
    <3>1. a = <<Do("finish")>>
      BY <2>2
    <3>2. Do("finish") \in Steps /\ Do("finish").op = "finish"
      BY StepFacts DEF DoOps
    <3> HIDE DEF a
    <3> QED
      BY <3>1, <3>2, ShortOps
  <2>3. CASE layers' # NoLayers
    <3>1. a = <<Rebuild(Screen)>>
      BY <2>3
    <3>2. Rebuild(Screen) \in Steps /\ Rebuild(Screen).op = "rebuild"
      BY StepFacts
    <3> HIDE DEF a
    <3> QED
      BY <2>3, <3>1, <3>2, ShortOps
  <2> QED
    BY <2>2, <2>3
<1> HIDE DEF a
<1>3. Shift(t, {"epilogue"}, Ops(a)) /\ Orderly
  <2>1. Plain(a)
    BY <1>2 DEF Plain, Special, Entering
  <2> QED
    BY <1>1, <1>2, <2>1, MovedPlain
<1>4. layers' \in [Qualities -> Tracks \cup {None}]
  BY <1>1 DEF Types
<1>5. Types'
  BY <1>1, <1>3, <1>4 DEF Types, Orderly
<1>6. \A u \in Threads : Placed(u)'
  BY <1>1, <1>2, <1>3, PlacedKept DEF Entering
<1>7. ASSUME NEW q \in Qualities, layers'[q] # None
      PROVE  \E x \in Tracks : layers'[q] = x /\ Quality(x) # "" /\ Owes(x)'
  <2>1. PICK x \in Tracks : x = layers[q] /\ layers'[q] = x /\ x # t[2]
    BY <1>1, <1>7 DEF Types
  <2>2. Quality(x) # "" /\ Owes(x) /\ x \in Uplinks /\ Track(x) # t
    BY <2>1, NameAssumption, ThreadFacts DEF LayersOwed, Uplinks
  <2>3. Owes(x)'
    BY <1>1, <1>3, <2>2, OwedKept
  <2> QED
    BY <2>1, <2>2, <2>3
<1>8. LayersOwed'
  <2> SUFFICES ASSUME NEW q \in Qualities, layers'[q] # None
               PROVE  Quality(layers'[q]) # "" /\ Owes(layers[q])'
    BY DEF LayersOwed, Quality
  <2>1. PICK x \in Tracks : layers'[q] = x /\ Quality(x) # "" /\ Owes(x)'
    BY <1>7
  <2> QED
    BY <2>1 DEF Owes, Runs, Track
<1>9. ScreenOwed'
  <2>1. CASE layers' = NoLayers
    BY <1>2, <1>3, <2>1, OwedKept DEF ScreenOwed
  <2>2. CASE layers' # NoLayers
    <3>1. PICK q \in Qualities : layers'[q] # None
      BY <1>4, <2>2 DEF NoLayers
    <3>2. PICK x \in Tracks : Quality(x) # "" /\ Owes(x)'
      BY <1>7, <3>1
    <3> QED
      BY <3>2 DEF ScreenOwed, Quality
  <2> QED
    BY <2>1, <2>2
<1>10. CompanionOwed'
  <2>1. /\ \A x \in Uplinks : Runs(x) => Runs(x)'
        /\ Will("finishCompanion") => Will("finishCompanion")'
    BY <1>1, <1>3, OwedKept
  <2> QED
    BY <1>1, <2>1 DEF CompanionOwed, Uplinks
<1>11. Counted'
  BY <1>1, <1>2, <1>3, CountedKept
<1> QED
  BY <1>3, <1>5, <1>6, <1>8, <1>9, <1>10, <1>11 DEF Orderly

LEMMA ClearStep ==
  ASSUME IInv, NEW t \in Threads, ClearLayers(t)
  PROVE  IInv'
<1> USE DEF IInv
<1>1. /\ At(t, "clear") /\ Continue(t, <<>>) /\ layers' = NoLayers
      /\ UNCHANGED <<up, publishing, companion, gauge>>
  BY DEF ClearLayers, linkVars
<1>2. Shift(t, {"clear"}, {}) /\ Orderly
  <2> DEFINE a == <<>>
  <2>1. a \in Seq(Steps) /\ Ops(a) = {} /\ Continue(t, a)
    BY <1>1, ShortOps
  <2>2. job[t] \in Seq(Steps) /\ job[t] # <<>> /\ Tidy(job[t])
    BY <1>1 DEF At, Types
  <2>3. Tail(job[t]) \in Seq(Steps) /\ Tidy(Tail(job[t]))
    BY <2>2, RestIsPlain, OpsOfTail
  <2>4. a \o Tail(job[t]) = Tail(job[t])
    BY <2>3
  <2> HIDE DEF a
  <2>5. /\ job' \in [Threads -> Seq(Steps)] /\ job'[t] = a \o Tail(job[t])
        /\ Shift(t, {"clear"}, Ops(a)) /\ (Tidy(job'[t]) => Orderly)
    BY <1>1, <2>1, Moved
  <2> QED
    BY <2>1, <2>3, <2>4, <2>5
<1>3. Types'
  BY <1>1, <1>2 DEF Types, Orderly, NoLayers
<1>4. \A u \in Threads : Placed(u)'
  BY <1>1, <1>2, PlacedKept
<1>5. LayersOwed'
  BY <1>1 DEF LayersOwed, NoLayers
<1>6. ScreenOwed' /\ CompanionOwed'
  <2>1. /\ \A x \in Uplinks : (Owes(x) => Owes(x)') /\ (Runs(x) => Runs(x)')
        /\ Will("finish") => Will("finish")'
        /\ Will("finishCompanion") => Will("finishCompanion")'
    BY <1>1, <1>2, OwedKept
  <2> QED
    BY <1>1, <2>1 DEF ScreenOwed, CompanionOwed, Uplinks
<1>7. Counted'
  BY <1>1, <1>2, CountedKept
<1> QED
  BY <1>2, <1>3, <1>4, <1>5, <1>6, <1>7 DEF Orderly

LEMMA FinishCompanionStep ==
  ASSUME IInv, NEW t \in Threads, FinishCompanion(t)
  PROVE  IInv'
<1> USE DEF IInv
<1> DEFINE a == IF companion THEN <<Do("endCompanion")>> ELSE <<>>
<1>1. /\ At(t, "finishCompanion") /\ Continue(t, a) /\ companion' = FALSE
      /\ UNCHANGED <<up, publishing, layers, gauge>>
  BY DEF FinishCompanion, linkVars
<1>2. a \in Seq(Steps) /\ Ops(a) \subseteq {"endCompanion"}
  BY Named, ShortOps
<1> HIDE DEF a
<1>3. Shift(t, {"finishCompanion"}, Ops(a)) /\ Orderly
  <2>1. Plain(a)
    BY <1>2 DEF Plain, Special, Entering
  <2> QED
    BY <1>1, <1>2, <2>1, MovedPlain
<1>4. Types'
  BY <1>1, <1>3 DEF Types, Orderly
<1>5. \A u \in Threads : Placed(u)'
  BY <1>1, <1>2, <1>3, PlacedKept DEF Entering
<1>6. LayersOwed' /\ ScreenOwed' /\ CompanionOwed'
  <2>1. /\ \A x \in Uplinks : Owes(x) => Owes(x)'
        /\ Will("finish") => Will("finish")'
    BY <1>1, <1>3, OwedKept
  <2>2. LayersOwed'
    BY <1>1, <2>1 DEF LayersOwed, Types, Uplinks
  <2>3. ScreenOwed'
    BY <1>1, <2>1 DEF ScreenOwed, Uplinks
  <2> QED
    BY <1>1, <2>2, <2>3 DEF CompanionOwed
<1>7. Counted'
  BY <1>1, <1>2, <1>3, CountedKept
<1> QED
  BY <1>3, <1>4, <1>5, <1>6, <1>7 DEF Orderly

Finishing == <<Do("clear"), Do("uncount"), Do("finishCompanion"), Do("tellEnded")>>
Opening == <<Do("announce"), Do("attach"), For("cascade", Screen), Do("live")>>

LEMMA FinishingIsTidy ==
  ASSUME NEW b \in Seq(Steps), Plain(b)
  PROVE  /\ Finishing \in Seq(Steps)
         /\ Ops(Finishing) = {"clear", "uncount", "finishCompanion", "tellEnded"}
         /\ Tidy(Finishing \o b)
<1>1. /\ Finishing \in Seq(Steps) /\ Len(Finishing) = 4
      /\ Finishing[1].op = "clear" /\ Finishing[2].op = "uncount"
      /\ Finishing[3].op = "finishCompanion" /\ Finishing[4].op = "tellEnded"
  <2>1. /\ Do("clear") \in Steps /\ Do("uncount") \in Steps
        /\ Do("finishCompanion") \in Steps /\ Do("tellEnded") \in Steps
    BY StepFacts DEF DoOps
  <2> QED
    BY <2>1 DEF Finishing, Do
<1>2. Ops(Finishing) = {"clear", "uncount", "finishCompanion", "tellEnded"}
  <2>1. 1..4 = {1, 2, 3, 4}
    OBVIOUS
  <2> QED
    BY <1>1, <2>1 DEF Ops
<1> DEFINE r == Finishing \o b
<1>3. /\ r \in Seq(Steps) /\ Len(r) = 4 + Len(b) /\ Len(b) \in Nat
      /\ \A i \in 1..Len(r) : r[i] = IF i <= 4 THEN Finishing[i] ELSE b[i - 4]
  <2>1. /\ r \in Seq(Steps) /\ Len(r) = Len(Finishing) + Len(b) /\ Len(b) \in Nat
        /\ \A i \in 1..Len(r) : r[i] = IF i <= Len(Finishing) THEN Finishing[i] ELSE b[i - Len(Finishing)]
    <3>1. Finishing \in Seq(Steps)
      BY <1>1
    <3> QED
      BY <3>1, Joined
  <2> HIDE DEF r
  <2> QED
    BY <1>1, <2>1
<1> HIDE DEF r
<1>4. ASSUME NEW i \in 1..Len(r)
      PROVE  /\ r[i].op \notin Entering /\ r[i].op # "announce"
             /\ r[i].op = "uncount" => i = 2
  <2>1. CASE i \in {1, 2, 3, 4}
    BY <1>1, <1>3, <2>1 DEF Entering
  <2>2. CASE i \notin {1, 2, 3, 4}
    <3>1. i - 4 \in 1..Len(b) /\ r[i] = b[i - 4]
      BY <1>3, <2>2
    <3>2. r[i].op \in Ops(b)
      BY <3>1 DEF Ops
    <3> QED
      BY <3>2 DEF Plain, Special
  <2> QED
    BY <2>1, <2>2
<1>5. /\ Head(r) = r[1] /\ Tail(r) \in Seq(Steps) /\ Len(Tail(r)) = Len(r) - 1
      /\ \A i \in 1..Len(Tail(r)) : Tail(r)[i] = r[i + 1]
      /\ r # <<>>
  BY <1>3, HeadTailProperties, EmptySeq
<1>6. Head(r).op = "clear"
  BY <1>1, <1>3, <1>5
<1>7. Tail(r) # <<>>
  <2>1. Len(Tail(r)) # 0
    BY <1>3, <1>5
  <2> QED
    BY <1>5, <2>1, EmptySeq
<1>8. \A op \in Entering : op \notin Ops(r)
  BY <1>4 DEF Ops
<1>9. "announce" \notin Ops(Tail(r))
  BY <1>3, <1>4, <1>5 DEF Ops
<1>10. "uncount" \notin Ops(Tail(Tail(r)))
  <2>1. Ops(Tail(Tail(r))) = {Tail(r)[i].op : i \in 2..Len(Tail(r))}
    BY <1>5, <1>7, OpsOfTail
  <2>2. ASSUME NEW i \in 2..Len(Tail(r)) PROVE Tail(r)[i].op # "uncount"
    <3>1. i + 1 \in 1..Len(r) /\ i + 1 # 2 /\ Tail(r)[i] = r[i + 1]
      BY <1>3, <1>5
    <3> QED
      BY <1>4, <3>1
  <2> QED
    BY <2>1, <2>2
<1>11. Tidy(r)
  BY <1>6, <1>7, <1>8, <1>9, <1>10 DEF Tidy
<1> QED
  BY <1>1, <1>2, <1>11 DEF r

LEMMA OpeningIsTidy ==
  /\ Opening \in Seq(Steps) /\ Ops(Opening) = {"announce", "attach", "cascade", "live"}
  /\ Tidy(Opening)
<1>1. /\ Opening \in Seq(Steps) /\ Len(Opening) = 4 /\ Opening # <<>>
      /\ Opening[1].op = "announce" /\ Opening[2].op = "attach"
      /\ Opening[3].op = "cascade" /\ Opening[4].op = "live"
  <2>1. /\ Do("announce") \in Steps /\ Do("attach") \in Steps
        /\ For("cascade", Screen) \in Steps /\ Do("live") \in Steps
    BY StepFacts DEF DoOps, ForOps
  <2> QED
    BY <2>1 DEF Opening, Do, For
<1> HIDE DEF Opening
<1>2. Ops(Opening) = {"announce", "attach", "cascade", "live"}
  <2>1. 1..4 = {1, 2, 3, 4}
    OBVIOUS
  <2> QED
    BY <1>1, <2>1 DEF Ops
<1>3. Ops(Tail(Opening)) = {"attach", "cascade", "live"}
  <2>1. 2..4 = {2, 3, 4}
    OBVIOUS
  <2>2. Ops(Tail(Opening)) = {Opening[i].op : i \in 2..4}
    BY <1>1, OpsOfTail
  <2> QED
    BY <1>1, <2>1, <2>2
<1> QED
  BY <1>1, <1>2, <1>3 DEF Tidy, Entering

\* Whoever wins the flag owes the counter, and the companion's end.
LEMMA FinishStep ==
  ASSUME IInv, NEW t \in Threads, Finish(t)
  PROVE  IInv'
<1> USE DEF IInv
<1>1. /\ At(t, "finish") /\ publishing' = FALSE
      /\ UNCHANGED <<up, companion, layers, gauge>>
  BY DEF Finish, linkVars
<1>2. CASE publishing
  <2>1. Continue(t, Finishing)
    BY <1>2 DEF Finish, Finishing
  <2>2. job[t] \in Seq(Steps) /\ job[t] # <<>> /\ Tidy(job[t]) /\ Head(job[t]).op = "finish"
    BY <1>1 DEF At, Types
  <2>3. Plain(Tail(job[t])) /\ Tail(job[t]) \in Seq(Steps)
    <3>1. /\ Ops(Tail(job[t])) \cap (Entering \cup {"announce"}) = {}
          /\ "uncount" \notin Ops(Tail(job[t]))
      BY <2>2, RestIsPlain
    <3> QED
      BY <2>2, <3>1, OpsOfTail DEF Plain, Special
  <2>4. /\ Finishing \in Seq(Steps)
        /\ Ops(Finishing) = {"clear", "uncount", "finishCompanion", "tellEnded"}
        /\ Tidy(Finishing \o Tail(job[t]))
    BY <2>3, FinishingIsTidy
  <2>5. /\ job'[t] = Finishing \o Tail(job[t])
        /\ Shift(t, {"finish"}, Ops(Finishing)) /\ (Tidy(job'[t]) => Orderly)
    BY <1>1, <2>1, <2>4, Moved
  <2>6. Shift(t, {"finish"}, {"clear", "uncount", "finishCompanion", "tellEnded"}) /\ Orderly
    BY <2>4, <2>5
  <2>7. Types'
    BY <1>1, <2>6 DEF Types, Orderly
  <2>8. \A u \in Threads : Placed(u)'
    BY <1>1, <2>6, PlacedKept DEF Entering
  <2>9. LayersOwed' /\ ScreenOwed' /\ CompanionOwed'
    <3>1. \A x \in Uplinks : Owes(x) => Owes(x)'
      BY <1>1, <2>6, OwedKept
    <3>2. Will("finishCompanion")'
      BY <2>6, OwedKept
    <3>3. LayersOwed'
      BY <1>1, <3>1 DEF LayersOwed, Types, Uplinks
    <3> QED
      BY <1>1, <3>2, <3>3 DEF ScreenOwed, CompanionOwed
  <2>10. Counted'
    <3>1. Owers("uncount")' = Owers("uncount") \cup {t} /\ t \notin Owers("uncount")
      <4>1. "uncount" \notin Ops(job[t]) /\ "uncount" \in Ops(job'[t])
        BY <2>6, ShiftFacts
      <4> QED
        BY <2>6, <4>1, ShiftFacts DEF Owers
    <3>2. Owers("announce")' = Owers("announce")
      BY <2>6, OwersKept
    <3>3. /\ IsFiniteSet(Owers("uncount") \cup {t})
          /\ Cardinality(Owers("uncount") \cup {t}) = Cardinality(Owers("uncount")) + 1
      BY <3>1, FS_AddElement DEF Counted
    <3>4. Cardinality(Owers("announce")) \in Nat /\ Cardinality(Owers("uncount")) \in Nat
      BY FS_CardinalityType DEF Counted
    <3>5. /\ Cardinality(Owers("uncount")') = Cardinality(Owers("uncount")) + 1
          /\ Cardinality(Owers("announce")') = Cardinality(Owers("announce"))
      BY <3>1, <3>2, <3>3
    <3>6. gauge + Cardinality(Owers("announce")) - Cardinality(Owers("uncount")) = 1 /\ gauge \in Int
      BY <1>2 DEF Counted, Types
    <3>7. gauge' + Cardinality(Owers("announce")') - Cardinality(Owers("uncount")') = 0
      BY <1>1, <3>4, <3>5, <3>6
    <3> QED
      BY <1>1, <3>1, <3>2, <3>3, <3>7 DEF Counted
  <2> QED
    BY <2>6, <2>7, <2>8, <2>9, <2>10 DEF Orderly
<1>3. CASE ~publishing
  <2>1. Continue(t, <<>>)
    BY <1>3 DEF Finish
  <2>2. Shift(t, {"finish"}, {}) /\ Orderly
    BY <1>1, <2>1, MovedOn
  <2>3. Types'
    BY <1>1, <2>2 DEF Types, Orderly
  <2>4. \A u \in Threads : Placed(u)'
    BY <1>1, <2>2, PlacedKept
  <2>5. LayersOwed' /\ ScreenOwed' /\ CompanionOwed'
    <3>1. /\ \A x \in Uplinks : (Owes(x) => Owes(x)') /\ (Runs(x) => Runs(x)')
          /\ Will("finishCompanion") => Will("finishCompanion")'
      BY <1>1, <2>2, OwedKept
    <3>2. LayersOwed'
      BY <1>1, <3>1 DEF LayersOwed, Types, Uplinks
    <3>3. CompanionOwed'
      BY <1>1, <3>1 DEF CompanionOwed, Uplinks
    <3> QED
      BY <1>1, <3>2, <3>3 DEF ScreenOwed
  <2>6. publishing' = publishing
    BY <1>1, <1>3 DEF Types
  <2>7. Counted'
    BY <1>1, <2>2, <2>6, CountedKept
  <2> QED
    BY <2>2, <2>3, <2>4, <2>5, <2>7 DEF Orderly
<1> QED
  BY <1>2, <1>3

\* What a goroutine that enters puts in its place, and who it is.
LEMMA Entered ==
  ASSUME IInv, NEW t \in Threads, NEW op \in Entering, At(t, op), NEW a \in Seq(Steps),
         Continue(t, a), Tidy(a)
  PROVE  /\ Shift(t, {op}, Ops(a)) /\ Orderly /\ job'[t] = a /\ Ops(job[t]) = {op}
         /\ \E x \in Uplinks : /\ t = Track(x) /\ up[x] = "called"
                               /\ op = "admit" => x \in Tracks /\ Quality(x) # ""
                               /\ op = "admitCompanion" => x \in Companions
<1>1. /\ Shift(t, {op}, Ops(a)) /\ job'[t] = a /\ Ops(job[t]) = {op}
      /\ Tidy(job'[t]) => Orderly
  BY Moved DEF IInv
<1> QED
  BY <1>1 DEF IInv, Placed

LEMMA Refused ==
  ASSUME IInv, NEW t \in Threads, NEW op \in {"admit", "admitCompanion"}, At(t, op),
         Continue(t, <<Do("strip")>>), UNCHANGED screenVars
  PROVE  IInv'
<1> USE DEF IInv, screenVars
<1> DEFINE a == <<Do("strip")>>
<1>1. a \in Seq(Steps) /\ Ops(a) = {"strip"} /\ Tidy(a) /\ Continue(t, a)
  BY Named, ShortOps, OneIsTidy
<1> HIDE DEF a
<1>2. op \in Entering
  BY DEF Entering
<1>3. Shift(t, {op}, Ops(a)) /\ Orderly /\ job'[t] = a
  BY <1>1, <1>2, Entered
<1>4. PICK x \in Uplinks : t = Track(x) /\ up[x] = "called"
  BY <1>1, <1>2, Entered
<1>5. Types'
  BY <1>3 DEF Types, Orderly
<1>6. Placed(t)'
  BY <1>1, <1>3, <1>4 DEF Placed, Entering
<1>7. \A u \in Threads : Placed(u)'
  BY <1>1, <1>3, <1>6, PlacedKept
<1>8. LayersOwed' /\ ScreenOwed' /\ CompanionOwed'
  BY <1>3, OwedKept, OwedStays
<1>9. Counted'
  BY <1>1, <1>3, CountedKept
<1> QED
  BY <1>3, <1>5, <1>7, <1>8, <1>9 DEF Orderly

\* A layer joins the publication that is going on.
LEMMA Joins ==
  ASSUME IInv, NEW t \in Threads, At(t, "admit"), publishing,
         Continue(t, <<Rebuild(Screen), Do("live")>>),
         layers' = [layers EXCEPT ![Quality(t[2])] = t[2]],
         publishing' = TRUE, UNCHANGED <<up, companion, gauge>>
  PROVE  IInv'
<1> USE DEF IInv
<1> DEFINE a == <<Rebuild(Screen), Do("live")>>
<1>1. a \in Seq(Steps) /\ Ops(a) = {"rebuild", "live"} /\ Continue(t, a)
  BY Named, ShortOps
<1> HIDE DEF a
<1>2. Tidy(a)
  BY <1>1, PlainIsTidy DEF Special, Entering
<1>3. "admit" \in Entering
  BY DEF Entering
<1>4. Shift(t, {"admit"}, Ops(a)) /\ Orderly /\ job'[t] = a
  BY <1>1, <1>2, <1>3, Entered
<1>5. PICK x \in Uplinks : t = Track(x) /\ x \in Tracks /\ Quality(x) # ""
  BY <1>1, <1>2, <1>3, Entered
<1>6. t[2] = x
  BY <1>5, ThreadFacts
<1>7. Types'
  BY <1>4, <1>5, <1>6 DEF Types, Orderly
<1>8. \A u \in Threads : Placed(u)'
  BY <1>1, <1>4, <1>5, PlacedKept DEF Entering
<1>9. Owes(x)'
  BY <1>1, <1>4, <1>5 DEF Owes, Runs, Track
<1>10. \A y \in Uplinks : (Owes(y) => Owes(y)') /\ (Runs(y) => Runs(y)')
  BY <1>4, OwedKept
<1>11. LayersOwed'
  <2> SUFFICES ASSUME NEW q \in Qualities, layers'[q] # None
               PROVE  Quality(layers'[q]) # "" /\ Owes(layers[q])'
    BY DEF LayersOwed, Quality
  <2>1. PICK y \in Tracks : layers'[q] = y /\ (y = x \/ y = layers[q])
    BY <1>5, <1>6 DEF Types
  <2>2. Quality(y) # "" /\ Owes(y)'
    BY <1>5, <1>9, <1>10, <2>1, NameAssumption DEF LayersOwed, Uplinks
  <2> QED
    BY <2>1, <2>2 DEF Owes, Runs, Track
<1>12. ScreenOwed'
  BY <1>5, <1>9 DEF ScreenOwed, Quality
<1>13. CompanionOwed'
  <2>1. Will("finishCompanion") => Will("finishCompanion")'
    BY <1>4, OwedKept
  <2> QED
    BY <1>10, <2>1 DEF CompanionOwed, Uplinks
<1>14. Counted'
  BY <1>1, <1>4, CountedKept
<1> QED
  BY <1>4, <1>7, <1>8, <1>11, <1>12, <1>13, <1>14 DEF Orderly

\* The first layer takes the screen, and owes the counter.
LEMMA Takes ==
  ASSUME IInv, NEW t \in Threads, At(t, "admit"), ~publishing,
         Continue(t, Opening),
         layers' = [layers EXCEPT ![Quality(t[2])] = t[2]],
         publishing' = TRUE, UNCHANGED <<up, companion, gauge>>
  PROVE  IInv'
<1> USE DEF IInv
<1>1. /\ Opening \in Seq(Steps) /\ Ops(Opening) = {"announce", "attach", "cascade", "live"}
      /\ Tidy(Opening)
  BY OpeningIsTidy
<1>2. "admit" \in Entering
  BY DEF Entering
<1>3. Shift(t, {"admit"}, Ops(Opening)) /\ Orderly /\ job'[t] = Opening
  BY <1>1, <1>2, Entered
<1>4. PICK x \in Uplinks : t = Track(x) /\ x \in Tracks /\ Quality(x) # ""
  BY <1>1, <1>2, Entered
<1>5. t[2] = x
  BY <1>4, ThreadFacts
<1>6. Types'
  BY <1>3, <1>4, <1>5 DEF Types, Orderly
<1>7. \A u \in Threads : Placed(u)'
  BY <1>1, <1>3, <1>4, PlacedKept DEF Entering
<1>8. Owes(x)'
  BY <1>1, <1>3, <1>4 DEF Owes, Runs, Track
<1>9. \A y \in Uplinks : (Owes(y) => Owes(y)') /\ (Runs(y) => Runs(y)')
  BY <1>3, OwedKept
<1>10. LayersOwed'
  <2> SUFFICES ASSUME NEW q \in Qualities, layers'[q] # None
               PROVE  Quality(layers'[q]) # "" /\ Owes(layers[q])'
    BY DEF LayersOwed, Quality
  <2>1. PICK y \in Tracks : layers'[q] = y /\ (y = x \/ y = layers[q])
    BY <1>4, <1>5 DEF Types
  <2>2. Quality(y) # "" /\ Owes(y)'
    BY <1>4, <1>8, <1>9, <2>1, NameAssumption DEF LayersOwed, Uplinks
  <2> QED
    BY <2>1, <2>2 DEF Owes, Runs, Track
<1>11. ScreenOwed'
  BY <1>4, <1>8 DEF ScreenOwed, Quality
<1>12. CompanionOwed'
  <2>1. Will("finishCompanion") => Will("finishCompanion")'
    BY <1>3, OwedKept
  <2> QED
    BY <1>9, <2>1 DEF CompanionOwed, Uplinks
<1>13. Counted'
  <2>1. Owers("announce")' = Owers("announce") \cup {t} /\ t \notin Owers("announce")
    <3>1. "announce" \notin Ops(job[t]) /\ "announce" \in Ops(job'[t])
      BY <1>1, <1>3, ShiftFacts
    <3> QED
      BY <1>3, <3>1, ShiftFacts DEF Owers
  <2>2. Owers("uncount")' = Owers("uncount")
    BY <1>1, <1>3, OwersKept
  <2>3. /\ IsFiniteSet(Owers("announce") \cup {t})
        /\ Cardinality(Owers("announce") \cup {t}) = Cardinality(Owers("announce")) + 1
    BY <2>1, FS_AddElement DEF Counted
  <2>4. Cardinality(Owers("announce")) \in Nat /\ Cardinality(Owers("uncount")) \in Nat
    BY FS_CardinalityType DEF Counted
  <2>5. /\ Cardinality(Owers("announce")') = Cardinality(Owers("announce")) + 1
        /\ Cardinality(Owers("uncount")') = Cardinality(Owers("uncount"))
    BY <2>1, <2>2, <2>3
  <2>6. gauge + Cardinality(Owers("announce")) - Cardinality(Owers("uncount")) = 0 /\ gauge \in Int
    BY DEF Counted, Types
  <2>7. gauge' + Cardinality(Owers("announce")') - Cardinality(Owers("uncount")') = 1
    BY <2>4, <2>5, <2>6
  <2> QED
    BY <2>1, <2>2, <2>3, <2>7 DEF Counted
<1> QED
  BY <1>3, <1>6, <1>7, <1>10, <1>11, <1>12, <1>13 DEF Orderly

LEMMA AdmitStep ==
  ASSUME IInv, NEW t \in Threads, Admit(t)
  PROVE  IInv'
<1> DEFINE refused == publishing /\ (Uplink[t[2]].rid = "" \/ tcv # Tcv(t[2]))
<1>1. At(t, "admit") /\ UNCHANGED <<up, companion, gauge>>
  BY DEF Admit, linkVars
<1>2. CASE refused
  <2>1. Continue(t, <<Do("strip")>>) /\ UNCHANGED screenVars
    BY <1>1, <1>2 DEF Admit, screenVars
  <2> QED
    BY <1>1, <2>1, Refused
<1>3. CASE ~refused
  <2>1. /\ publishing' = TRUE /\ layers' = [layers EXCEPT ![Quality(t[2])] = t[2]]
        /\ publishing => Continue(t, <<Rebuild(Screen), Do("live")>>)
        /\ ~publishing => Continue(t, Opening)
    BY <1>3 DEF Admit, Opening
  <2>2. CASE publishing
    BY <1>1, <2>1, <2>2, Joins
  <2>3. CASE ~publishing
    BY <1>1, <2>1, <2>3, Takes
  <2> QED
    BY <2>2, <2>3
<1> QED
  BY <1>2, <1>3

Accompanying == <<Do("companionTcv"), Do("attachCompanion"), For("cascade", Audio), Do("live")>>

LEMMA AccompanyingOps ==
  /\ Accompanying \in Seq(Steps)
  /\ Ops(Accompanying) = {"companionTcv", "attachCompanion", "cascade", "live"}
<1>1. /\ Do("companionTcv") \in Steps /\ Do("attachCompanion") \in Steps
      /\ For("cascade", Audio) \in Steps /\ Do("live") \in Steps
  BY StepFacts DEF DoOps, ForOps
<1>2. /\ Accompanying \in Seq(Steps)
      /\ Ops(Accompanying) =
           {Do("companionTcv").op, Do("attachCompanion").op, For("cascade", Audio).op, Do("live").op}
  BY <1>1, ShortOps DEF Accompanying
<1> QED
  BY <1>2 DEF Do, For

LEMMA AdmitCompanionStep ==
  ASSUME IInv, NEW t \in Threads, AdmitCompanion(t)
  PROVE  IInv'
<1> USE DEF IInv
<1>1. /\ At(t, "admitCompanion") /\ companion' = TRUE
      /\ UNCHANGED <<up, publishing, layers, gauge>>
  BY DEF AdmitCompanion, linkVars
<1>2. CASE companion
  <2>1. Continue(t, <<Do("strip")>>) /\ UNCHANGED screenVars
    BY <1>1, <1>2 DEF AdmitCompanion, screenVars, Types
  <2> QED
    BY <1>1, <2>1, Refused
<1>3. CASE ~companion
  <2> DEFINE a == Accompanying
  <2>1. /\ a \in Seq(Steps) /\ Continue(t, a)
        /\ Ops(a) = {"companionTcv", "attachCompanion", "cascade", "live"}
    BY <1>3, AccompanyingOps DEF AdmitCompanion, Accompanying
  <2> HIDE DEF a
  <2>2. Tidy(a)
    BY <2>1, PlainIsTidy DEF Special, Entering
  <2>3. "admitCompanion" \in Entering
    BY DEF Entering
  <2>4. Shift(t, {"admitCompanion"}, Ops(a)) /\ Orderly /\ job'[t] = a
    BY <1>1, <2>1, <2>2, <2>3, Entered
  <2>5. PICK x \in Uplinks : t = Track(x) /\ x \in Companions
    BY <1>1, <2>1, <2>2, <2>3, Entered
  <2>6. Types'
    BY <1>1, <2>4 DEF Types, Orderly
  <2>7. \A u \in Threads : Placed(u)'
    BY <1>1, <2>1, <2>4, <2>5, PlacedKept DEF Entering
  <2>8. LayersOwed' /\ ScreenOwed'
    <3>1. /\ \A y \in Uplinks : Owes(y) => Owes(y)'
          /\ Will("finish") => Will("finish")'
      BY <1>1, <2>4, OwedKept
    <3>2. LayersOwed'
      BY <1>1, <3>1 DEF LayersOwed, Types, Uplinks
    <3>3. ScreenOwed'
      BY <1>1, <3>1 DEF ScreenOwed, Uplinks
    <3> QED
      BY <3>2, <3>3
  <2>9. CompanionOwed'
    BY <2>1, <2>4, <2>5 DEF CompanionOwed, Runs, Track
  <2>10. Counted'
    BY <1>1, <2>1, <2>4, CountedKept
  <2> QED
    BY <2>4, <2>6, <2>7, <2>8, <2>9, <2>10 DEF Orderly
<1> QED
  BY <1>2, <1>3

\* A track that arrives has nothing to come yet.
LEMMA OnTrackStep ==
  ASSUME IInv, NEW x \in Uplinks, OnTrack(x)
  PROVE  IInv'
<1> USE DEF IInv
<1>1. PICK op \in {"strip", "admitCompanion", "live", "admit"} :
        /\ Start(Track(x), <<Do(op)>>)
        /\ op = "admit" => x \in Tracks /\ Quality(x) # ""
        /\ op = "admitCompanion" => x \in Companions
  BY DEF OnTrack, Uplinks, Track
<1>2. /\ up[x] = "off" /\ up' = [up EXCEPT ![x] = "called"]
      /\ UNCHANGED <<publishing, companion, layers, gauge>>
  BY DEF OnTrack, pubVars
<1> DEFINE t == Track(x)
           a == <<Do(op)>>
<1>3. a \in Seq(Steps) /\ Ops(a) = {op} /\ Tidy(a) /\ Start(t, a) /\ t \in Threads
  <2>1. Do(op) \in Steps /\ Do(op).op = op
    BY StepFacts DEF DoOps
  <2> QED
    BY <1>1, <2>1, ShortOps, OneIsTidy, ThreadFacts
<1> HIDE DEF t, a
<1>4. Orderly /\ Shift(t, {}, {op}) /\ Ops(job[t]) = {}
  BY <1>3, Began
<1>5. Ops(job'[t]) = {op}
  <2>1. Ops(job'[t]) = Ops(job[t]) \cup {op}
    BY <1>4 DEF Shift
  <2> QED
    BY <1>4, <2>1
<1>6. up'[x] = "called" /\ \A y \in Uplinks : y # x => up'[y] = up[y] /\ Track(y) # t
  BY <1>2, ThreadFacts DEF Types, t
<1>7. Types'
  BY <1>2, <1>4 DEF Types, Orderly
<1>8. \A u \in Threads : Placed(u)'
  <2>1. Placed(t)'
    BY <1>1, <1>5, <1>6 DEF Placed, t, Entering, Quality
  <2>2. \A y \in Uplinks : Track(y) # t => up'[y] = up[y]
    BY <1>6 DEF t
  <2> QED
    BY <1>3, <1>4, <2>1, <2>2, PlacedKept DEF t
<1>9. LayersOwed' /\ ScreenOwed' /\ CompanionOwed'
  <2>1. ~Owes(x) /\ ~Runs(x)
    BY <1>2, <1>4 DEF Owes, Runs, t
  <2>2. \A y \in Uplinks : (Owes(y) => Owes(y)') /\ (Runs(y) => Runs(y)')
    BY <1>3, <1>4, <1>6, <2>1, OwedKept
  <2>3. (Will("finish") => Will("finish")') /\ (Will("finishCompanion") => Will("finishCompanion")')
    BY <1>3, <1>4, OwedKept
  <2> QED
    BY <1>2, <2>2, <2>3, OwedStays
<1>10. Counted'
  BY <1>2, <1>3, <1>4, CountedKept
<1> QED
  BY <1>4, <1>7, <1>8, <1>9, <1>10 DEF Orderly

\* A read loop returns: its epilogue, or the end of the companion, is next; a
\* track that was drained has none, and stands for nothing.
LEMMA LoopReturnsStep ==
  ASSUME IInv, NEW x \in Uplinks, LoopReturns(x)
  PROVE  IInv'
<1> USE DEF IInv
<1>1. /\ up[x] = "live" /\ up' = [up EXCEPT ![x] = "over"]
      /\ UNCHANGED <<publishing, companion, layers, gauge>>
  BY DEF LoopReturns, pubVars
<1>2. up'[x] = "over" /\ \A y \in Uplinks : y # x => up'[y] = up[y] /\ Track(y) # Track(x)
  BY <1>1, ThreadFacts DEF Types
<1>3. CASE x \in Tracks /\ Quality(x) = ""
  <2>1. job' = job
    BY <1>3 DEF LoopReturns
  <2>2. Types'
    BY <1>1, <2>1 DEF Types
  <2>3. ASSUME NEW u \in Threads PROVE Tidy(job[u])' /\ Placed(u)'
    <3>1. CASE Ops(job[u]) \cap Entering = {}
      BY <2>1, <3>1 DEF Placed
    <3>2. CASE Ops(job[u]) \cap Entering # {}
      <4>1. PICK y \in Uplinks : /\ u = Track(y) /\ up[y] = "called"
                                 /\ "admit" \in Ops(job[u]) => y \in Tracks /\ Quality(y) # ""
                                 /\ "admitCompanion" \in Ops(job[u]) => y \in Companions
        BY <3>2 DEF Placed
      <4>2. up'[y] = "called"
        BY <1>1, <1>2, <4>1
      <4> QED
        BY <2>1, <4>1, <4>2 DEF Placed, Quality
    <3> QED
      BY <2>1, <3>1, <3>2
  <2>4. \A y \in Uplinks : y # x => (Owes(y) => Owes(y)') /\ (Runs(y) => Runs(y)')
    BY <1>2, <2>1 DEF Owes, Runs
  <2>5. LayersOwed' /\ ScreenOwed' /\ CompanionOwed'
    <3>1. LayersOwed'
      BY <1>1, <1>3, <2>4 DEF LayersOwed, Types, Uplinks, Quality
    <3>2. ScreenOwed'
      BY <1>1, <1>3, <2>1, <2>4 DEF ScreenOwed, Uplinks, Will, Quality
    <3>3. CompanionOwed'
      BY <1>1, <1>3, <2>1, <2>4, NameAssumption DEF CompanionOwed, Uplinks, Will
    <3> QED
      BY <3>1, <3>2, <3>3
  <2>6. Counted'
    BY <1>1, <2>1 DEF Counted, Owers
  <2> QED
    BY <2>2, <2>3, <2>5, <2>6
<1>4. CASE ~(x \in Tracks /\ Quality(x) = "")
  <2> DEFINE t == Track(x)
             op == IF x \in Tracks THEN "epilogue" ELSE "finishCompanion"
             a == <<Do(op)>>
  <2>1. a \in Seq(Steps) /\ Ops(a) = {op} /\ Tidy(a) /\ Start(t, a) /\ t \in Threads
    <3>1. Do(op) \in Steps /\ Do(op).op = op
      BY StepFacts DEF DoOps
    <3>2. Start(t, a)
      BY <1>4 DEF LoopReturns, Track
    <3> HIDE DEF op
    <3> QED
      BY <3>1, <3>2, ShortOps, OneIsTidy, ThreadFacts
  <2>2. /\ op \in {"epilogue", "finishCompanion"}
        /\ x \in Tracks => op = "epilogue"
        /\ x \notin Tracks => op = "finishCompanion"
    OBVIOUS
  <2> HIDE DEF t, a, op
  <2>3. Orderly /\ Shift(t, {}, {op}) /\ Ops(job[t]) = {}
    BY <2>1, Began
  <2>4. Types'
    BY <1>1, <2>3 DEF Types, Orderly
  <2>5. \A u \in Threads : Placed(u)'
    <3>1. \A y \in Uplinks : Track(y) # t => up'[y] = up[y]
      BY <1>2 DEF t
    <3> QED
      BY <2>1, <2>2, <2>3, <3>1, PlacedKept DEF Entering
  <2>6. \A y \in Uplinks : y # x => (Owes(y) => Owes(y)') /\ (Runs(y) => Runs(y)')
    BY <1>2, <2>1, <2>3, OwedKept DEF t
  <2>7. x \in Tracks => Owes(x)'
    <3>1. op \in Ops(job'[t])
      BY <2>1, <2>3, ShiftFacts
    <3> QED
      BY <2>2, <3>1 DEF Owes, t, Track
  <2>8. x \notin Tracks => Will("finishCompanion")'
    BY <2>1, <2>2, <2>3, OwedKept
  <2>9. (Will("finish") => Will("finish")') /\ (Will("finishCompanion") => Will("finishCompanion")')
    BY <2>1, <2>3, OwedKept
  <2>10. LayersOwed'
    BY <1>1, <2>6, <2>7 DEF LayersOwed, Types, Uplinks, Quality
  <2>11. ScreenOwed'
    BY <1>1, <2>6, <2>7, <2>9 DEF ScreenOwed, Uplinks, Quality
  <2>12. CompanionOwed'
    BY <1>1, <2>6, <2>8, <2>9, NameAssumption DEF CompanionOwed, Uplinks
  <2>13. Counted'
    BY <1>1, <2>1, <2>2, <2>3, CountedKept
  <2> QED
    BY <2>3, <2>4, <2>5, <2>10, <2>11, <2>12, <2>13 DEF Orderly
<1> QED
  BY <1>3, <1>4

-----------------------------------------------------------------------------
(* Frames, commands and the closing of the session                         *)

LEMMA StartSteps ==
  ASSUME IInv,
         \/ Close
         \/ \E v \in Viewers : \/ Connected(v)
                               \/ \E want \in BOOLEAN : SetSubscription(v, want)
                               \/ \E q \in Asked : SetScreenLayer(v, q)
         \/ \E new \in BOOLEAN : ApplyCaps(new)
         \/ \E kind \in SinkKinds : ChangeSink(kind)
  PROVE  IInv'
<1> DEFINE Plan == {<<>>, <<Do("unlist")>>, <<For("follow", Screen), For("follow", Audio)>>,
                    <<For("ensure", Screen), For("ensure", Audio)>> \o RebuildBoth,
                    RebuildBoth, <<Rebuild(Screen)>>, <<Rebuild(Audio)>>,
                    Withdrawal \o RebuildBoth}
<1>1. ASSUME NEW a \in Plan
      PROVE  a \in Seq(Steps) /\ Ops(a) \cap (Special \cup {"live"}) = {}
  <2>1. RebuildBoth \in Seq(Steps) /\ Ops(RebuildBoth) = {"rebuild"}
    BY Named, ShortOps, SMTT(30) DEF RebuildBoth
  <2>2. /\ <<For("ensure", Screen), For("ensure", Audio)>> \in Seq(Steps)
        /\ Ops(<<For("ensure", Screen), For("ensure", Audio)>>) = {"ensure"}
    BY Named, ShortOps, SMTT(30)
  <2>3. Withdrawal \in Seq(Steps) /\ Ops(Withdrawal) = {"finish", "stopUplink", "stopCompanion"}
    BY Named, StopNamed, TripleOps DEF Withdrawal
  <2>4. /\ <<For("follow", Screen), For("follow", Audio)>> \in Seq(Steps)
        /\ Ops(<<For("follow", Screen), For("follow", Audio)>>) = {"follow"}
    BY Named, ShortOps, SMTT(30)
  <2>5. <<Do("unlist")>> \in Seq(Steps) /\ Ops(<<Do("unlist")>>) = {"unlist"}
    BY Named, ShortOps, SMTT(30)
  <2>6. <<Rebuild(Screen)>> \in Seq(Steps) /\ Ops(<<Rebuild(Screen)>>) = {"rebuild"}
    BY Named, ShortOps, SMTT(30)
  <2>7. <<Rebuild(Audio)>> \in Seq(Steps) /\ Ops(<<Rebuild(Audio)>>) = {"rebuild"}
    BY Named, ShortOps
  <2>8. /\ a \in Seq(Steps)
        /\ Ops(a) \subseteq {"rebuild", "ensure", "finish", "stopUplink", "stopCompanion", "follow", "unlist"}
    <3>1. CASE a = <<For("ensure", Screen), For("ensure", Audio)>> \o RebuildBoth
      BY <2>1, <2>2, <3>1, OpsOfConcat
    <3>2. CASE a = Withdrawal \o RebuildBoth
      BY <2>1, <2>3, <3>2, OpsOfConcat
    <3>3. CASE a = <<>>
      BY <3>3, ShortOps
    <3>4. CASE a = <<Do("unlist")>>
      BY <2>5, <3>4
    <3>5. CASE a = <<For("follow", Screen), For("follow", Audio)>>
      BY <2>4, <3>5
    <3>6. CASE a = RebuildBoth
      BY <2>1, <3>6
    <3>7. CASE a = <<Rebuild(Screen)>>
      BY <2>6, <3>7
    <3>8. CASE a = <<Rebuild(Audio)>>
      BY <2>7, <3>8
    <3> QED
      BY <1>1, <3>1, <3>2, <3>3, <3>4, <3>5, <3>6, <3>7, <3>8
  <2> QED
    BY <2>8 DEF Special, Entering
<1>2. \E t \in Threads : \E a \in Plan : Start(t, a) /\ UNCHANGED screenVars
  <2> USE ThreadFacts DEF screenVars, linkVars, pubVars
  <2>1. CASE Close
    <3>1. Start(Closer, <<Do("unlist")>>) /\ UNCHANGED screenVars
      BY <2>1 DEF Close
    <3> QED
      BY <3>1
  <2>2. CASE \E v \in Viewers : Connected(v)
    <3>1. PICK v \in Viewers : Connected(v)
      BY <2>2
    <3>2. Start(<<"connect", v>>, <<For("follow", Screen), For("follow", Audio)>>) /\ UNCHANGED screenVars
      BY <3>1 DEF Connected
    <3> QED
      BY <3>2
  <2>3. CASE \E v \in Viewers, want \in BOOLEAN : SetSubscription(v, want)
    <3>1. PICK v \in Viewers, want \in BOOLEAN : SetSubscription(v, want)
      BY <2>3
    <3>2. PICK a \in Plan : Start(<<"loop", v>>, a) /\ UNCHANGED screenVars
      BY <3>1 DEF SetSubscription
    <3> QED
      BY <3>2
  <2>4. CASE \E v \in Viewers, q \in Asked : SetScreenLayer(v, q)
    <3>1. PICK v \in Viewers, q \in Asked : SetScreenLayer(v, q)
      BY <2>4
    <3>2. PICK a \in Plan : Start(<<"loop", v>>, a) /\ UNCHANGED screenVars
      BY <3>1 DEF SetScreenLayer
    <3> QED
      BY <3>2
  <2>5. CASE \E new \in BOOLEAN : ApplyCaps(new)
    <3>1. PICK new \in BOOLEAN : ApplyCaps(new)
      BY <2>5
    <3>2. <<>> \o RebuildBoth = RebuildBoth
      BY DEF RebuildBoth
    <3>3. PICK a \in Plan : Start(Control, a) /\ UNCHANGED screenVars
      BY <3>1, <3>2 DEF ApplyCaps
    <3> QED
      BY <3>3
  <2>6. CASE \E kind \in SinkKinds : ChangeSink(kind)
    <3>1. PICK kind \in SinkKinds : ChangeSink(kind)
      BY <2>6
    <3>2. kind \in {Screen, Audio}
      BY NameAssumption DEF Screen, Audio
    <3>3. Start(Cascade, <<Rebuild(kind)>>) /\ UNCHANGED screenVars
      BY <3>1 DEF ChangeSink
    <3> QED
      BY <3>2, <3>3
  <2> QED
    BY <2>1, <2>2, <2>3, <2>4, <2>5, <2>6
<1> HIDE DEF Plan
<1> QED
  BY <1>1, <1>2, AsideStart

-----------------------------------------------------------------------------
(* The theorems                                                            *)

LEMMA Initially ==
  ASSUME Init
  PROVE  IInv
<1>1. \A t \in Threads : job[t] = <<>> /\ Ops(job[t]) = {}
  BY ShortOps DEF Init
<1>2. Types
  <2>1. job \in [Threads -> Seq(Steps)]
    BY ShortOps DEF Init
  <2>2. up \in [Uplinks -> {"off", "called", "live", "over"}]
    BY DEF Init
  <2>3. layers \in [Qualities -> Tracks \cup {None}]
    BY DEF Init, NoLayers
  <2>4. publishing \in BOOLEAN /\ companion \in BOOLEAN /\ gauge \in Int
    <3>1. publishing = FALSE /\ companion = FALSE
      BY DEF Init
    <3>2. publishing \in BOOLEAN
      BY <3>1
    <3>3. companion \in BOOLEAN
      BY <3>1
    <3>4. gauge \in Int
      BY DEF Init
    <3> QED
      BY <3>2, <3>3, <3>4
  <2> QED
    BY <2>1, <2>2, <2>3, <2>4 DEF Types
<1>3. \A t \in Threads : Tidy(job[t]) /\ Placed(t)
  BY <1>1 DEF Tidy, Placed
<1>4. LayersOwed /\ ScreenOwed /\ CompanionOwed
  BY DEF Init, NoLayers, LayersOwed, ScreenOwed, CompanionOwed
<1>5. Counted
  <2>1. Owers("announce") = {} /\ Owers("uncount") = {}
    BY <1>1 DEF Owers
  <2>2. IsFiniteSet({}) /\ Cardinality({}) = 0
    BY FS_EmptySet
  <2>3. gauge = 0 /\ publishing = FALSE
    BY DEF Init
  <2> QED
    BY <2>1, <2>2, <2>3 DEF Counted
<1> QED
  BY <1>2, <1>3, <1>4, <1>5 DEF IInv

LEMMA Preserved ==
  ASSUME IInv, [Next]_vars
  PROVE  IInv'
<1>1. CASE UNCHANGED vars
  BY <1>1 DEF vars, linkVars, pubVars, IInv, Types, Placed, LayersOwed, ScreenOwed, CompanionOwed,
              Counted, Owers, Will, Owes, Runs
<1>2. CASE Gone
  BY <1>2 DEF Gone, vars, linkVars, pubVars, IInv, Types, Placed, LayersOwed, ScreenOwed, CompanionOwed,
              Counted, Owers, Will, Owes, Runs
<1>3. ASSUME NEW t \in Threads, Step(t) PROVE IInv'
  BY <1>3, StripStep, AdmitStep, AnnounceStep, AdmitCompanionStep, StartLoopStep, EpilogueStep,
     FinishStep, ClearStep, UncountStep, FinishCompanionStep, IdleSteps DEF Step, Detach, RebuildFanout
<1>4. ASSUME NEW x \in Uplinks, OnTrack(x) \/ LoopReturns(x) PROVE IInv'
  BY <1>4, OnTrackStep, LoopReturnsStep
<1> QED
  BY <1>1, <1>2, <1>3, <1>4, StartSteps DEF Next

\* Whatever callbacks, read loops, commands and closings overlap, what is under
\* way accounts for every publication that is not counted yet and for every
\* track whose end is still to come.
THEOREM Invariant == Spec => []IInv
<1>1. Init => IInv
  BY Initially
<1>2. IInv /\ [Next]_vars => IInv'
  BY Preserved
<1> QED
  BY <1>1, <1>2, PTL DEF Spec

\* The counter behind the heartbeat's screen_tracks: each publication is
\* counted once and discounted once (onScreenTrack, finishScreenPublish).
THEOREM ScreensCounted == Spec => []GaugeExact
<1>1. IInv => GaugeExact
  <2> SUFFICES ASSUME IInv PROVE GaugeExact
    OBVIOUS
  <2>1. ASSUME NEW op \in {"announce", "uncount"}
        PROVE  {t \in Threads : \E i \in 1..Len(job[t]) : job[t][i] = Do(op)} = Owers(op)
    <3>1. ASSUME NEW t \in Threads
          PROVE  (\E i \in 1..Len(job[t]) : job[t][i] = Do(op)) <=> op \in Ops(job[t])
      <4>1. \A i \in 1..Len(job[t]) : job[t][i] \in Steps
        BY ElementOfSeq DEF IInv, Types
      <4>2. op \in DoOps
        BY DEF DoOps
      <4>3. \A i \in 1..Len(job[t]) : job[t][i] = Do(op) <=> op = job[t][i].op
        BY <4>1, <4>2, StepIsDo
      <4> QED
        BY <4>3 DEF Ops
    <3> QED
      BY <3>1 DEF Owers
  <2>2. Owing("announce") = Cardinality(Owers("announce")) /\ Owing("uncount") = Cardinality(Owers("uncount"))
    BY <2>1 DEF Owing
  <2> QED
    BY <2>2 DEF GaugeExact, IInv, Counted
<1> QED
  BY <1>1, Invariant, PTL

\* Nothing of a screen outlives its tracks: when the last read loop has
\* returned and nothing is under way, no screen and no companion is published,
\* filed or counted.
THEOREM ScreensEnd == Spec => []EndedIsEnded
<1>1. IInv => EndedIsEnded
  <2> SUFFICES ASSUME IInv, Quiet, \A t \in Uplinks : up[t] \in {"off", "over"}
               PROVE  ~publishing /\ layers = NoLayers /\ gauge = 0 /\ ~companion
    BY DEF EndedIsEnded
  <2>1. \A t \in Threads : Ops(job[t]) = {}
    BY ShortOps DEF Quiet, Active
  <2>2. \A x \in Uplinks : ~Owes(x) /\ ~Runs(x)
    BY <2>1, ThreadFacts DEF Owes, Runs
  <2>3. \A op : ~Will(op)
    BY <2>1 DEF Will
  <2>4. ~publishing
    BY <2>2, <2>3 DEF IInv, ScreenOwed, Uplinks
  <2>5. ~companion
    BY <2>2, <2>3 DEF IInv, CompanionOwed, Uplinks
  <2>6. layers = NoLayers
    <3>1. \A q \in Qualities : layers[q] = None
      BY <2>2 DEF IInv, LayersOwed, Types, Uplinks
    <3> QED
      BY <3>1 DEF IInv, Types, NoLayers
  <2>7. gauge = 0
    <3>1. Owers("announce") = {} /\ Owers("uncount") = {}
      BY <2>1 DEF Owers
    <3>2. Cardinality({}) = 0
      BY FS_EmptySet
    <3>3. gauge \in Int /\ gauge + Cardinality(Owers("announce")) - Cardinality(Owers("uncount")) = 0
      BY <2>4 DEF IInv, Types, Counted
    <3> QED
      BY <3>1, <3>2, <3>3
  <2> QED
    BY <2>4, <2>5, <2>6, <2>7
<1> QED
  BY <1>1, Invariant, PTL

-----------------------------------------------------------------------------
(* Operations one after the other                                          *)

\* What a client's transceivers carry: a companion or a plain screen alone, or
\* layers of different qualities.
Simulcast ==
  \A x, y \in Uplinks : x # y /\ Tcv(x) = Tcv(y) =>
    /\ x \in Tracks /\ Uplink[x].rid # ""
    /\ Quality(x) = Quality(y) => Quality(x) = ""

Members(s) == {s[i] : i \in 1..Len(s)}
Left(t) == Members(job[t])
Todo == UNION {Left(t) : t \in Threads}

\* The order of the steps of a job: y may come after x.
Refilling == {Rebuild(Screen), Rebuild(Audio)}
Leaving == {Do("stopUplink"), Do("stopCompanion")} \cup Refilling
Follows(x, y) ==
  \/ x = Rebuild(Screen) /\ y \in {Rebuild(Audio), For("follow", Audio), For("cascade", Screen), Do("live")}
  \/ x = Rebuild(Audio) /\ y \in {For("cascade", Audio), Do("live")}
  \/ x.op = "cascade" /\ y = Do("live")
  \/ x.op = "announce" /\ y \in {Do("attach"), For("cascade", Screen), Do("live")}
  \/ x.op = "attach" /\ y \in {For("cascade", Screen), Do("live")}
  \/ x.op = "companionTcv" /\ y \in {Do("attachCompanion"), For("cascade", Audio), Do("live")}
  \/ x.op = "attachCompanion" /\ y \in {For("cascade", Audio), Do("live")}
  \/ x = For("ensure", Screen) /\ y \in {For("ensure", Audio)} \cup Refilling
  \/ x = For("ensure", Audio) /\ y \in Refilling
  \/ x = For("follow", Screen) /\ y = For("follow", Audio)
  \/ x.op = "clear" /\ y \in {Do("uncount"), Do("finishCompanion"), Do("tellEnded")} \cup Leaving
  \/ x.op = "uncount" /\ y \in {Do("finishCompanion"), Do("tellEnded")} \cup Leaving
  \/ (x.op \in {"finishCompanion", "endCompanion"} \/ x = For("detach", Audio)) /\ y \in {Do("tellEnded")} \cup Leaving
  \/ x = For("detach", Screen) /\ y \in {Do("reportEnded")} \cup Leaving
  \/ x.op \in {"finish", "tellEnded", "reportEnded"} /\ y \in Leaving
  \/ x.op = "stopUplink" /\ y \in {Do("stopCompanion")} \cup Refilling
  \/ x.op = "stopCompanion" /\ y \in Refilling
Ordered(s) == \A i, j \in 1..Len(s) : i < j => Follows(s[i], s[j])

Lone == /\ \A t, u \in Threads : job[t] # <<>> /\ job[u] # <<>> => t = u
        /\ \A t \in Threads : Ordered(job[t])

\* The flag, the cap, the layers, the report and the cascade.
Consistent ==
  /\ publishing => layers # NoLayers \/ Do("finish") \in Todo
  /\ layers # NoLayers => publishing \/ Do("clear") \in Todo
  /\ publishing => cap \/ Do("finish") \in Todo
  /\ told = "active" => publishing \/ Do("tellEnded") \in Todo \/ Do("reportEnded") \in Todo
  /\ publishing => told = "active" \/ Do("announce") \in Todo
  /\ Screen \in cascaded => publishing \/ Do("uncount") \in Todo
  /\ publishing => Screen \in cascaded \/ For("cascade", Screen) \in Todo
  /\ Audio \in cascaded => companion \/ Do("endCompanion") \in Todo
  /\ companion => Audio \in cascaded \/ For("cascade", Audio) \in Todo

\* What is about to be done has its reason.
Reasons ==
  /\ \A op \in {"admit", "admitCompanion", "companionTcv"} : Do(op) \in Todo => cap
  /\ \A op \in {"stopUplink", "stopCompanion"} : Do(op) \in Todo => ~cap
  /\ \A x \in {Do("announce"), For("cascade", Screen)} : x \in Todo => publishing
  /\ \A x \in {Do("clear"), Do("uncount"), Do("tellEnded"), Do("reportEnded"), For("detach", Screen)} :
       x \in Todo => ~publishing
  /\ For("cascade", Audio) \in Todo => companion
  /\ \A x \in {Do("endCompanion"), For("detach", Audio)} : x \in Todo => ~companion
  /\ Do("companionTcv") \in Todo => Do("attachCompanion") \in Todo
  /\ \A kind \in Kinds : For("ensure", kind) \in Todo => Rebuild(kind) \in Todo
  /\ layers # NoLayers /\ (Do("finish") \in Todo \/ Do("clear") \in Todo) => Do("stopUplink") \in Todo

\* The layers belong to the transceiver of the screen, which is not stopped.
Filed(x) == \E q \in Qualities : layers[q] = x
OneTransceiver ==
  /\ \A q \in Qualities : layers[q] # None =>
       Quality(layers[q]) = q /\ Tcv(layers[q]) = tcv /\ tcv \notin stopped
  /\ \A x \in Uplinks :
       /\ Do("admit") \in Left(Track(x)) => Tcv(x) \notin stopped
       /\ Do("strip") \in Left(Track(x)) => \A q \in Qualities : layers[q] # None => Tcv(layers[q]) # Tcv(x)
       /\ Do("live") \in Left(Track(x)) => up[x] = "called"
  /\ \A t \in Threads : Do("epilogue") \in Left(t) => \E x \in Tracks : t = Track(x) /\ up[x] = "over"

\* Who is to get a kind has a down track or is going to have one.
Attaching(kind) == Do(IF kind = Screen THEN "attach" ELSE "attachCompanion")
Provided(kind, v) ==
  \/ <<kind, v>> \in down
  \/ Attaching(kind) \in Todo
  \/ For("ensure", kind) \in Left(<<"loop", v>>) \/ For("follow", kind) \in Left(<<"connect", v>>)
Tracked ==
  \A kind \in Kinds, v \in watching :
    On(kind) /\ cap /\ v \notin unsub /\ (kind = Audio => companionTcv # 0) => Provided(kind, v)

\* The fanouts of the layers and of the companion are as they should be or are
\* going to be rebuilt; other tracks bring no more packets.
Refills(kind) == Rebuild(kind) \in Todo \/ Attaching(kind) \in Todo \/ For("follow", kind) \in Todo
LayerOf(v) == PickScreenLayer(layers, IF v = Sink THEN "high" ELSE sel[v])
Shown ==
  publishing /\ cap =>
    Refills(Screen) \/ \A x \in Tracks : Filed(x) => fan[x] = {v \in Takers(Screen) : LayerOf(v) = x}
Accompanied ==
  /\ companion /\ cap => Refills(Audio) \/ fan[None] = Takers(Audio)
  /\ ~companion => Do("endCompanion") \in Todo \/ fan[None] \subseteq {Sink}
  /\ ~companion => \/ Do("endCompanion") \in Todo \/ For("detach", Audio) \in Todo
                   \/ \A v \in Viewers : <<Audio, v>> \notin down
  /\ companion /\ ~cap => companionTcv = 0 \/ Do("stopCompanion") \in Todo
Silent ==
  \A x \in Tracks : fan[x] # {} =>
    \/ Filed(x) \/ up[x] = "over" \/ Tcv(x) \in stopped
    \/ Tcv(x) = tcv /\ Do("stopUplink") \in Todo

Sequential == Lone /\ Consistent /\ Reasons /\ OneTransceiver /\ Tracked /\ Shown /\ Accompanied /\ Silent
Alone == ~overlapped /\ life = "in" => Sequential

Shapes ==
  /\ life \in {"in", "closed", "left"} /\ cap \in BOOLEAN /\ told \in {"active", "ended"}
  /\ tcv \in Nat /\ watching \subseteq Viewers
  /\ sel \in [Viewers -> Qualities] /\ fan \in [Tracks \cup {None} -> SUBSET (Viewers \cup {Sink})]
  /\ down \subseteq Kinds \X watching

-----------------------------------------------------------------------------
(* Jobs as sets of steps                                                   *)

LEMMA Fields ==
  /\ \A op : Do(op).op = op
  /\ \A op, kind : For(op, kind).op = op /\ For(op, kind).kind = kind
BY DEF Do, For

LEMMA StepIsFor ==
  ASSUME NEW s \in Steps, NEW op \in ForOps, s.op = op
  PROVE  s.kind \in Kinds /\ s = For(op, s.kind)
<1>1. CASE s \in [op : DoOps]
  BY <1>1 DEF DoOps, ForOps
<1>2. CASE s \in [op : ForOps, kind : Kinds]
  BY <1>2 DEF For
<1> QED
  BY <1>1, <1>2 DEF Steps

LEMMA MembersOfTail ==
  ASSUME NEW s \in Seq(Steps), s # <<>>, Ordered(s)
  PROVE  /\ Tail(s) \in Seq(Steps) /\ Ordered(Tail(s))
         /\ Members(s) = {Head(s)} \cup Members(Tail(s))
         /\ \A y \in Members(Tail(s)) : Follows(Head(s), y)
<1>1. /\ Tail(s) \in Seq(Steps) /\ Len(Tail(s)) = Len(s) - 1 /\ Head(s) = s[1]
      /\ \A i \in 1..Len(Tail(s)) : Tail(s)[i] = s[i + 1]
      /\ Len(s) \in Nat \ {0}
  BY HeadTailProperties, EmptySeq, LenProperties
<1>2. \A i \in 1..Len(Tail(s)) : i + 1 \in 1..Len(s) /\ 1 < i + 1 /\ Tail(s)[i] = s[i + 1]
  BY <1>1
<1>3. Ordered(Tail(s))
  <2> SUFFICES ASSUME NEW i \in 1..Len(Tail(s)), NEW j \in 1..Len(Tail(s)), i < j
               PROVE  Follows(Tail(s)[i], Tail(s)[j])
    BY DEF Ordered
  <2>1. i + 1 \in 1..Len(s) /\ j + 1 \in 1..Len(s) /\ i + 1 < j + 1
    BY <1>2
  <2> QED
    BY <1>2, <2>1 DEF Ordered
<1>4. \A y \in Members(Tail(s)) : Follows(Head(s), y)
  <2>1. 1 \in 1..Len(s)
    BY <1>1
  <2> QED
    BY <1>1, <1>2, <2>1 DEF Ordered, Members
<1>5. Members(s) \subseteq {Head(s)} \cup Members(Tail(s))
  <2> SUFFICES ASSUME NEW j \in 1..Len(s), j # 1 PROVE s[j] \in Members(Tail(s))
    BY <1>1 DEF Members
  <2>1. j - 1 \in 1..Len(Tail(s)) /\ (j - 1) + 1 = j
    BY <1>1
  <2> QED
    BY <1>1, <2>1 DEF Members
<1>6. {Head(s)} \cup Members(Tail(s)) \subseteq Members(s)
  <2>1. 1 \in 1..Len(s)
    BY <1>1
  <2> QED
    BY <1>1, <1>2, <2>1 DEF Members
<1> QED
  BY <1>1, <1>3, <1>4, <1>5, <1>6

LEMMA MembersOfConcat ==
  ASSUME NEW a \in Seq(Steps), NEW b \in Seq(Steps), Ordered(a), Ordered(b),
         \A x \in Members(a), y \in Members(b) : Follows(x, y)
  PROVE  /\ a \o b \in Seq(Steps) /\ Ordered(a \o b)
         /\ Members(a \o b) = Members(a) \cup Members(b)
<1> DEFINE r == a \o b
<1>1. /\ r \in Seq(Steps) /\ Len(r) = Len(a) + Len(b) /\ Len(a) \in Nat /\ Len(b) \in Nat
      /\ \A i \in 1..Len(r) : r[i] = IF i <= Len(a) THEN a[i] ELSE b[i - Len(a)]
  BY Joined
<1> HIDE DEF r
<1>2. ASSUME NEW i \in 1..Len(r)
      PROVE  \/ i \in 1..Len(a) /\ r[i] = a[i]
             \/ i - Len(a) \in 1..Len(b) /\ i > Len(a) /\ r[i] = b[i - Len(a)]
  BY <1>1
<1>3. ASSUME NEW i \in 1..Len(a) PROVE i \in 1..Len(r) /\ r[i] = a[i]
  BY <1>1
<1>4. ASSUME NEW i \in 1..Len(b) PROVE i + Len(a) \in 1..Len(r) /\ r[i + Len(a)] = b[i]
  <2>1. i + Len(a) \in 1..Len(r) /\ ~(i + Len(a) <= Len(a)) /\ (i + Len(a)) - Len(a) = i
    BY <1>1
  <2> QED
    BY <1>1, <2>1
<1>5. Members(r) = Members(a) \cup Members(b)
  <2>1. Members(r) \subseteq Members(a) \cup Members(b)
    BY <1>2 DEF Members
  <2>2. Members(a) \subseteq Members(r)
    BY <1>3 DEF Members
  <2>3. Members(b) \subseteq Members(r)
    BY <1>4 DEF Members
  <2> QED
    BY <2>1, <2>2, <2>3
<1>6. ASSUME NEW i \in 1..Len(r), NEW j \in 1..Len(r), i < j PROVE Follows(r[i], r[j])
  <2>1. CASE j \in 1..Len(a) /\ r[j] = a[j]
    <3>1. i \in 1..Len(a) /\ r[i] = a[i]
      BY <1>1, <1>2, <1>6, <2>1
    <3> QED
      BY <1>6, <2>1, <3>1 DEF Ordered
  <2>2. CASE j - Len(a) \in 1..Len(b) /\ r[j] = b[j - Len(a)]
    <3>1. CASE i \in 1..Len(a) /\ r[i] = a[i]
      BY <2>2, <3>1 DEF Members
    <3>2. CASE i - Len(a) \in 1..Len(b) /\ i > Len(a) /\ r[i] = b[i - Len(a)]
      <4>1. i - Len(a) < j - Len(a)
        BY <1>1, <1>6
      <4> QED
        BY <2>2, <3>2, <4>1 DEF Ordered
    <3> QED
      BY <1>2, <3>1, <3>2
  <2> QED
    BY <1>2, <2>1, <2>2
<1> QED
  BY <1>1, <1>5, <1>6 DEF Ordered, r

LEMMA ShortMembers ==
  /\ Members(<<>>) = {} /\ Ordered(<<>>)
  /\ \A x \in Steps : Members(<<x>>) = {x} /\ Ordered(<<x>>)
  /\ \A x, y \in Steps : /\ Members(<<x, y>>) = {x, y}
                         /\ Follows(x, y) => Ordered(<<x, y>>)
  /\ \A x, y, z, w \in Steps :
       /\ Members(<<x, y, z, w>>) = {x, y, z, w}
       /\ Follows(x, y) /\ Follows(x, z) /\ Follows(x, w) /\ Follows(y, z) /\ Follows(y, w) /\ Follows(z, w)
            => Ordered(<<x, y, z, w>>)
<1>1. Members(<<>>) = {} /\ Ordered(<<>>)
  BY DEF Members, Ordered
<1>2. ASSUME NEW x \in Steps PROVE Members(<<x>>) = {x} /\ Ordered(<<x>>)
  <2>1. Len(<<x>>) = 1 /\ <<x>>[1] = x /\ 1..1 = {1}
    OBVIOUS
  <2> QED
    BY <2>1 DEF Members, Ordered
<1>3. ASSUME NEW x \in Steps, NEW y \in Steps
      PROVE  Members(<<x, y>>) = {x, y} /\ (Follows(x, y) => Ordered(<<x, y>>))
  <2> DEFINE s == <<x, y>>
  <2>1. Len(s) = 2 /\ s[1] = x /\ s[2] = y /\ 1..2 = {1, 2}
    OBVIOUS
  <2> HIDE DEF s
  <2>2. Members(s) = {x, y}
    BY <2>1 DEF Members
  <2>3. Follows(x, y) => Ordered(s)
    BY <2>1 DEF Ordered
  <2> QED
    BY <2>2, <2>3 DEF s
<1>4. ASSUME NEW x \in Steps, NEW y \in Steps, NEW z \in Steps, NEW w \in Steps
      PROVE  /\ Members(<<x, y, z, w>>) = {x, y, z, w}
             /\ Follows(x, y) /\ Follows(x, z) /\ Follows(x, w) /\ Follows(y, z) /\ Follows(y, w) /\ Follows(z, w)
                  => Ordered(<<x, y, z, w>>)
  <2> DEFINE s == <<x, y, z, w>>
  <2>1. Len(s) = 4 /\ s[1] = x /\ s[2] = y /\ s[3] = z /\ s[4] = w /\ 1..4 = {1, 2, 3, 4}
    OBVIOUS
  <2> HIDE DEF s
  <2>2. Members(s) = {x, y, z, w}
    BY <2>1 DEF Members
  <2>3. /\ ~(1 < 1) /\ ~(2 < 1) /\ ~(2 < 2) /\ ~(3 < 1) /\ ~(3 < 2) /\ ~(3 < 3)
        /\ ~(4 < 1) /\ ~(4 < 2) /\ ~(4 < 3) /\ ~(4 < 4)
    OBVIOUS
  <2>4. Follows(x, y) /\ Follows(x, z) /\ Follows(x, w) /\ Follows(y, z) /\ Follows(y, w) /\ Follows(z, w)
          => Ordered(s)
    BY <2>1, <2>3 DEF Ordered
  <2> QED
    BY <2>2, <2>4 DEF s
<1> QED
  BY <1>1, <1>2, <1>3, <1>4

LEMMA TripleMembers ==
  ASSUME NEW x \in Steps, NEW y \in Steps, NEW z \in Steps
  PROVE  /\ Members(<<x, y, z>>) = {x, y, z}
         /\ Follows(x, y) /\ Follows(x, z) /\ Follows(y, z) => Ordered(<<x, y, z>>)
<1> DEFINE s == <<x, y, z>>
<1>1. Len(s) = 3 /\ s[1] = x /\ s[2] = y /\ s[3] = z /\ 1..3 = {1, 2, 3}
  OBVIOUS
<1> HIDE DEF s
<1>2. Members(s) = {x, y, z}
  BY <1>1 DEF Members
<1>3. ~(1 < 1) /\ ~(2 < 1) /\ ~(2 < 2) /\ ~(3 < 1) /\ ~(3 < 2) /\ ~(3 < 3)
  OBVIOUS
<1>4. Follows(x, y) /\ Follows(x, z) /\ Follows(y, z) => Ordered(s)
  BY <1>1, <1>3 DEF Ordered
<1> QED
  BY <1>2, <1>4 DEF s

\* Goroutine t, the only one at work, does the steps gone, has the steps new
\* to do instead, and goes on with rest.
Turn(t, gone, rest, new) ==
  /\ \A u \in Threads : Left(u) = IF u = t THEN gone \cup rest ELSE {}
  /\ \A u \in Threads : Left(u)' = IF u = t THEN new \cup rest ELSE {}
  /\ Todo = gone \cup rest /\ Todo' = new \cup rest
  /\ Lone'

LEMMA Empty == \A t \in Threads : job[t] = <<>> => Left(t) = {}
BY ShortMembers DEF Left

LEMMA Turned ==
  ASSUME Types, Lone, NEW t \in Threads, NEW h, job[t] # <<>>, Head(job[t]) = h,
         NEW a \in Seq(Steps), Continue(t, a), Ordered(a),
         \A x \in Members(a) : \A y : Follows(h, y) => Follows(x, y)
  PROVE  \E rest : (\A y \in rest : Follows(h, y)) /\ Turn(t, {h}, rest, Members(a))
<1> DEFINE rest == Members(Tail(job[t]))
<1>1. job[t] \in Seq(Steps) /\ Ordered(job[t])
  BY DEF Types, Lone
<1>2. /\ Tail(job[t]) \in Seq(Steps) /\ Ordered(Tail(job[t])) /\ Left(t) = {h} \cup rest
      /\ \A y \in rest : Follows(h, y)
  BY <1>1, MembersOfTail DEF Left
<1>3. Ordered(a \o Tail(job[t])) /\ Members(a \o Tail(job[t])) = Members(a) \cup rest
  BY <1>2, MembersOfConcat
<1>4. \A u \in Threads : job'[u] = IF u = t THEN a \o Tail(job[t]) ELSE job[u]
  BY DEF Continue, Types
<1>5. \A u \in Threads : u # t => job[u] = <<>>
  BY DEF Lone
<1> HIDE DEF rest
<1>6. \A u \in Threads : Left(u) = IF u = t THEN {h} \cup rest ELSE {}
  BY <1>2, <1>5, Empty
<1>7. \A u \in Threads : Left(u)' = IF u = t THEN Members(a) \cup rest ELSE {}
  BY <1>3, <1>4, <1>5, ShortMembers DEF Left
<1>8. Lone'
  BY <1>3, <1>4, <1>5, ShortMembers DEF Lone
<1>9. Todo = {h} \cup rest /\ Todo' = Members(a) \cup rest
  BY <1>6, <1>7 DEF Todo
<1> QED
  BY <1>2, <1>6, <1>7, <1>8, <1>9 DEF Turn

LEMMA Begun ==
  ASSUME Types, Alone, life = "in", NEW t \in Threads, NEW a \in Seq(Steps), Start(t, a), ~overlapped', Ordered(a)
  PROVE  Turn(t, {}, {}, Members(a)) /\ ~overlapped
<1>1. ~overlapped /\ \A u \in Threads : job[u] = <<>>
  BY DEF Start, Active
<1>2. \A u \in Threads : job'[u] = IF u = t THEN a ELSE <<>>
  BY <1>1 DEF Start, Types
<1>3. \A u \in Threads : Left(u) = IF u = t THEN {} \cup {} ELSE {}
  BY <1>1, Empty
<1>4. \A u \in Threads : Left(u)' = IF u = t THEN Members(a) \cup {} ELSE {}
  BY <1>2, ShortMembers DEF Left
<1>5. Lone'
  BY <1>2, ShortMembers DEF Lone
<1>6. Todo = {} \cup {} /\ Todo' = Members(a) \cup {}
  BY <1>3, <1>4 DEF Todo
<1> QED
  BY <1>1, <1>3, <1>4, <1>5, <1>6 DEF Turn

\* What a goroutine may still have to do after a step.
LEMMA AfterFacts ==
  /\ \A y : Follows(Rebuild(Screen), y) =>
       y \in {Rebuild(Audio), For("follow", Audio), For("cascade", Screen), Do("live")}
  /\ \A y : Follows(Rebuild(Audio), y) => y \in {For("cascade", Audio), Do("live")}
  /\ \A kind, y : Follows(For("cascade", kind), y) => y = Do("live")
  /\ \A y : Follows(Do("announce"), y) => y \in {Do("attach"), For("cascade", Screen), Do("live")}
  /\ \A y : Follows(Do("attach"), y) => y \in {For("cascade", Screen), Do("live")}
  /\ \A y : Follows(Do("companionTcv"), y) => y \in {Do("attachCompanion"), For("cascade", Audio), Do("live")}
  /\ \A y : Follows(Do("attachCompanion"), y) => y \in {For("cascade", Audio), Do("live")}
  /\ \A y : Follows(For("ensure", Screen), y) => y \in {For("ensure", Audio)} \cup Refilling
  /\ \A y : Follows(For("ensure", Audio), y) => y \in Refilling
  /\ \A y : Follows(For("follow", Screen), y) => y = For("follow", Audio)
  /\ \A y : ~Follows(For("follow", Audio), y)
  /\ \A y : Follows(Do("clear"), y) => y \in {Do("uncount"), Do("finishCompanion"), Do("tellEnded")} \cup Leaving
  /\ \A y : Follows(Do("uncount"), y) => y \in {Do("finishCompanion"), Do("tellEnded")} \cup Leaving
  /\ \A y : Follows(Do("finishCompanion"), y) => y \in {Do("tellEnded")} \cup Leaving
  /\ \A y : Follows(Do("endCompanion"), y) => y \in {Do("tellEnded")} \cup Leaving
  /\ \A y : Follows(For("detach", Audio), y) => y \in {Do("tellEnded")} \cup Leaving
  /\ \A y : Follows(For("detach", Screen), y) => y \in {Do("reportEnded")} \cup Leaving
  /\ \A y : Follows(Do("finish"), y) => y \in Leaving
  /\ \A y : Follows(Do("tellEnded"), y) => y \in Leaving
  /\ \A y : Follows(Do("reportEnded"), y) => y \in Leaving
  /\ \A y : Follows(Do("stopUplink"), y) => y \in {Do("stopCompanion")} \cup Refilling
  /\ \A y : Follows(Do("stopCompanion"), y) => y \in Refilling
  /\ \A op \in {"strip", "admit", "admitCompanion", "live", "epilogue"} : \A y : ~Follows(Do(op), y)
<1> USE Fields DEF Follows, Rebuild, Screen, Audio
<1>1. /\ \A y : Follows(Rebuild(Screen), y) =>
           y \in {Rebuild(Audio), For("follow", Audio), For("cascade", Screen), Do("live")}
      /\ \A y : Follows(Rebuild(Audio), y) => y \in {For("cascade", Audio), Do("live")}
  OBVIOUS
<1>2. \A kind, y : Follows(For("cascade", kind), y) => y = Do("live")
  OBVIOUS
<1>3. /\ \A y : Follows(Do("announce"), y) => y \in {Do("attach"), For("cascade", Screen), Do("live")}
      /\ \A y : Follows(Do("attach"), y) => y \in {For("cascade", Screen), Do("live")}
  OBVIOUS
<1>4. /\ \A y : Follows(Do("companionTcv"), y) => y \in {Do("attachCompanion"), For("cascade", Audio), Do("live")}
      /\ \A y : Follows(Do("attachCompanion"), y) => y \in {For("cascade", Audio), Do("live")}
  OBVIOUS
<1>5. /\ \A y : Follows(For("ensure", Screen), y) => y \in {For("ensure", Audio)} \cup Refilling
      /\ \A y : Follows(For("ensure", Audio), y) => y \in Refilling
  OBVIOUS
<1>6. /\ \A y : Follows(For("follow", Screen), y) => y = For("follow", Audio)
      /\ \A y : ~Follows(For("follow", Audio), y)
  OBVIOUS
<1>7. /\ \A y : Follows(Do("clear"), y) => y \in {Do("uncount"), Do("finishCompanion"), Do("tellEnded")} \cup Leaving
      /\ \A y : Follows(Do("uncount"), y) => y \in {Do("finishCompanion"), Do("tellEnded")} \cup Leaving
  OBVIOUS
<1>8. /\ \A y : Follows(Do("finishCompanion"), y) => y \in {Do("tellEnded")} \cup Leaving
      /\ \A y : Follows(Do("endCompanion"), y) => y \in {Do("tellEnded")} \cup Leaving
      /\ \A y : Follows(For("detach", Audio), y) => y \in {Do("tellEnded")} \cup Leaving
  OBVIOUS
<1>9. \A y : Follows(For("detach", Screen), y) => y \in {Do("reportEnded")} \cup Leaving
  OBVIOUS
<1>10. /\ \A y : Follows(Do("finish"), y) => y \in Leaving
       /\ \A y : Follows(Do("tellEnded"), y) => y \in Leaving
       /\ \A y : Follows(Do("reportEnded"), y) => y \in Leaving
       /\ \A y : Follows(Do("stopUplink"), y) => y \in {Do("stopCompanion")} \cup Refilling
       /\ \A y : Follows(Do("stopCompanion"), y) => y \in Refilling
  OBVIOUS
<1>11. \A op \in {"strip", "admit", "admitCompanion", "live", "epilogue"} : \A y : ~Follows(Do(op), y)
  OBVIOUS
<1> HIDE DEF Follows, Rebuild
<1> QED
  BY <1>1, <1>2, <1>3, <1>4, <1>5, <1>6, <1>7, <1>8, <1>9, <1>10, <1>11, Zenon

LEMMA DoTurned ==
  ASSUME Types, Lone, NEW t \in Threads, NEW op \in DoOps, At(t, op),
         NEW a \in Seq(Steps), Continue(t, a), Ordered(a), NEW new, Members(a) = new,
         \A x \in new : \A y : Follows(Do(op), y) => Follows(x, y)
  PROVE  \E rest : (\A y \in rest : Follows(Do(op), y)) /\ Turn(t, {Do(op)}, rest, new)
<1>1. job[t] \in Seq(Steps) /\ job[t] # <<>> /\ Head(job[t]).op = op
  BY DEF Types, At
<1>2. Head(job[t]) = Do(op)
  BY <1>1, OpsOfTail, StepIsDo
<1> QED
  BY <1>1, <1>2, Turned

LEMMA DoDone ==
  ASSUME Types, Lone, NEW t \in Threads, NEW op \in DoOps, At(t, op), Continue(t, <<>>)
  PROVE  \E rest : (\A y \in rest : Follows(Do(op), y)) /\ Turn(t, {Do(op)}, rest, {})
<1> DEFINE a == <<>>
<1>1. a \in Seq(Steps) /\ Ordered(a) /\ Members(a) = {} /\ Continue(t, a)
  BY ShortOps, ShortMembers
<1> HIDE DEF a
<1> QED
  BY <1>1, DoTurned

LEMMA ForHead ==
  ASSUME Types, NEW t \in Threads, NEW op \in ForOps, At(t, op)
  PROVE  Head(job[t]).kind \in Kinds /\ Head(job[t]) = For(op, Head(job[t]).kind) /\ job[t] # <<>>
<1>1. job[t] \in Seq(Steps) /\ job[t] # <<>> /\ Head(job[t]).op = op
  BY DEF Types, At
<1> QED
  BY <1>1, OpsOfTail, StepIsFor

LEMMA ForDone ==
  ASSUME Types, Lone, NEW t \in Threads, NEW h, job[t] # <<>>, Head(job[t]) = h, Continue(t, <<>>)
  PROVE  \E rest : (\A y \in rest : Follows(h, y)) /\ Turn(t, {h}, rest, {})
<1> DEFINE a == <<>>
<1>1. a \in Seq(Steps) /\ Ordered(a) /\ Members(a) = {} /\ Continue(t, a)
  BY ShortOps, ShortMembers
<1> HIDE DEF a
<1>2. \E rest : (\A y \in rest : Follows(h, y)) /\ Turn(t, {h}, rest, Members(a))
  BY <1>1, Turned
<1> QED
  BY <1>1, <1>2

-----------------------------------------------------------------------------
(* Parts of the invariant that a step leaves alone                         *)

\* The steps that Tracked, Refills and OneTransceiver speak of.
Making == {Do("attach"), Do("attachCompanion")} \cup {For(op, kind) : op \in {"ensure", "follow"}, kind \in Kinds}
Mending == {Do("attach"), Do("attachCompanion"), Do("endCompanion"), For("detach", Audio), Do("stopUplink"),
            Do("stopCompanion")}
           \cup {For(op, kind) : op \in {"rebuild", "follow"}, kind \in Kinds}
Uplinking == {Do("admit"), Do("strip"), Do("live"), Do("epilogue")}

\* The steps that give a viewer its down track of a kind.
MakingOf(kind) == {Attaching(kind), For("ensure", kind), For("follow", kind)}

LEMMA ProvidedKept ==
  ASSUME NEW kind \in Kinds, NEW v \in Viewers, Provided(kind, v),
         <<kind, v>> \in down => <<kind, v>> \in down',
         \A u \in Threads : \A x \in MakingOf(kind) : x \in Left(u) => x \in Left(u)'
  PROVE  Provided(kind, v)'
<1>1. <<"loop", v>> \in Threads /\ <<"connect", v>> \in Threads
  BY ThreadFacts
<1>2. Attaching(kind) \in Todo => Attaching(kind) \in Todo'
  BY DEF Todo, MakingOf
<1> QED
  BY <1>1, <1>2 DEF Provided, MakingOf, Attaching

LEMMA TrackedKept ==
  ASSUME Tracked, Shapes,
         \A kind \in Kinds : On(kind)' =>
           \/ Attaching(kind) \in Todo'
           \/ On(kind) /\ \A v \in Viewers : <<kind, v>> \in down => <<kind, v>> \in down',
         cap' => cap, companionTcv' # 0 => companionTcv # 0 \/ Attaching(Audio) \in Todo',
         watching' \subseteq watching, unsub \subseteq unsub',
         \A u \in Threads : \A x \in Making : x \in Left(u) => x \in Left(u)'
  PROVE  Tracked'
<1> SUFFICES ASSUME NEW kind \in Kinds, NEW v \in watching', On(kind)', cap', v \notin unsub',
                    kind = Audio => companionTcv' # 0
             PROVE  Provided(kind, v)'
  BY DEF Tracked
<1>1. CASE Attaching(kind) \in Todo'
  BY <1>1 DEF Provided, Attaching
<1>2. CASE Attaching(kind) \notin Todo'
  <2>1. v \in Viewers /\ Provided(kind, v) /\ (<<kind, v>> \in down => <<kind, v>> \in down')
    BY <1>2 DEF Tracked, Shapes
  <2>2. MakingOf(kind) \subseteq Making
    BY DEF Making, MakingOf, Attaching
  <2> QED
    BY <2>1, <2>2, ProvidedKept
<1> QED
  BY <1>1, <1>2

LEMMA MendingFacts ==
  /\ Do("stopUplink") \in Mending /\ Do("stopCompanion") \in Mending /\ Do("endCompanion") \in Mending /\ For("detach", Audio) \in Mending
  /\ \A kind \in Kinds : /\ Rebuild(kind) \in Mending /\ Attaching(kind) \in Mending
                         /\ For("follow", kind) \in Mending
  /\ Screen \in Kinds /\ Audio \in Kinds /\ Screen # Audio
BY DEF Mending, Rebuild, Attaching, Kinds, Screen, Audio

LEMMA RefillsKept ==
  ASSUME NEW kind \in Kinds, \A x \in Mending : x \in Todo => x \in Todo', Refills(kind)
  PROVE  Refills(kind)'
BY MendingFacts DEF Refills, Attaching, Rebuild

LEMMA ShownKept ==
  ASSUME Shown, \A x \in Mending : x \in Todo => x \in Todo', publishing' => publishing,
         UNCHANGED <<cap, layers, down, frameVars>>, \A x \in Tracks : fan'[x] = fan[x]
  PROVE  Shown'
BY MendingFacts, RefillsKept DEF Shown, frameVars, Filed, Takers, LayerOf, ShouldForwardScreen

LEMMA AccompaniedKept ==
  ASSUME Accompanied, \A x \in Mending : x \in Todo => x \in Todo',
         UNCHANGED <<companion, companionTcv, cap, down, frameVars>>, fan'[None] = fan[None]
  PROVE  Accompanied'
BY MendingFacts, RefillsKept DEF Accompanied, frameVars, Takers, ShouldForwardScreen

LEMMA SilentKept ==
  ASSUME Silent, Do("stopUplink") \in Todo => Do("stopUplink") \in Todo',
         UNCHANGED <<tcv, layers, up, stopped>>, \A x \in Tracks : fan'[x] = fan[x]
  PROVE  Silent'
BY DEF Silent, Filed

LEMMA TransceiverKept ==
  ASSUME OneTransceiver, \A u \in Threads : \A x \in Uplinking : x \in Left(u)' => x \in Left(u),
         UNCHANGED <<up, stopped, tcv, layers>>
  PROVE  OneTransceiver'
<1>1. \A x \in Uplinks : Track(x) \in Threads
  BY ThreadFacts
<1> QED
  BY <1>1 DEF OneTransceiver, Uplinking

\* A goroutine that is alone keeps the steps it has left.
LEMMA Keeping ==
  ASSUME NEW t \in Threads, NEW gone, NEW rest, NEW new, Turn(t, gone, rest, new)
  PROVE  /\ \A u \in Threads : \A x : x \in Left(u) /\ x \notin gone => x \in Left(u)'
         /\ \A u \in Threads : \A x : x \in Left(u)' /\ x \notin new => x \in Left(u)
         /\ \A x : x \in Todo /\ x \notin gone => x \in Todo'
BY DEF Turn

-----------------------------------------------------------------------------
(* The steps of a goroutine that is alone                                  *)

LEMMA AnnounceAlone ==
  ASSUME IInv, Shapes, Sequential, NEW t \in Threads, Announce(t)
  PROVE  Sequential'
<1>1. PICK T : (\A y \in T : Follows(Do("announce"), y)) /\ Turn(t, {Do("announce")}, T, {})
  BY DoDone DEF Announce, IInv, Sequential, DoOps
<1>2. /\ \A y \in T : y \in {Do("attach"), For("cascade", Screen), Do("live")}
      /\ Todo = {Do("announce")} \cup T /\ Todo' = T /\ Lone'
  BY <1>1, AfterFacts DEF Turn
<1>3. /\ told' = "active"
      /\ UNCHANGED <<publishing, tcv, layers, cascaded, companion, companionTcv, linkVars, viewVars, frameVars>>
  BY DEF Announce
<1>4. Do("announce") \notin Making /\ Do("announce") \notin Mending
  BY Fields DEF Making, Mending
<1>5. Consistent'
  BY <1>2, <1>3, Fields DEF Sequential, Consistent, Reasons, linkVars
<1>6. Reasons'
  BY <1>2, <1>3, Fields DEF Sequential, Reasons, linkVars, Rebuild
<1>7. OneTransceiver'
  BY <1>1, <1>3, Keeping, TransceiverKept DEF Sequential, linkVars
<1>8. Tracked'
  BY <1>1, <1>3, <1>4, Keeping, TrackedKept DEF Sequential, On, linkVars, viewVars, frameVars
<1>9. Shown' /\ Accompanied' /\ Silent'
  BY <1>1, <1>3, <1>4, Keeping, MendingFacts, ShownKept, AccompaniedKept, SilentKept DEF Sequential, linkVars, viewVars
<1> QED
  BY <1>2, <1>5, <1>6, <1>7, <1>8, <1>9 DEF Sequential

LEMMA UncountAlone ==
  ASSUME IInv, Shapes, Sequential, NEW t \in Threads, Uncount(t)
  PROVE  Sequential'
<1>1. PICK T : (\A y \in T : Follows(Do("uncount"), y)) /\ Turn(t, {Do("uncount")}, T, {})
  BY DoDone DEF Uncount, IInv, Sequential, DoOps
<1>2. /\ \A y \in T : y \in {Do("finishCompanion"), Do("tellEnded")} \cup Leaving
      /\ Todo = {Do("uncount")} \cup T /\ Todo' = T /\ Lone'
  BY <1>1, AfterFacts DEF Turn
<1>3. /\ cascaded' = cascaded \ {Screen}
      /\ UNCHANGED <<publishing, tcv, layers, told, companion, companionTcv, linkVars, viewVars, frameVars>>
  BY DEF Uncount
<1>4. Do("uncount") \notin Making /\ Do("uncount") \notin Mending
  BY Fields DEF Making, Mending
<1>5. Consistent'
  BY <1>2, <1>3, Fields DEF Sequential, Consistent, Reasons, linkVars, Leaving, Refilling, Rebuild, Screen, Audio
<1>6. Reasons'
  BY <1>2, <1>3, Fields DEF Sequential, Reasons, linkVars, Leaving, Refilling, Rebuild
<1>7. OneTransceiver'
  BY <1>1, <1>3, Keeping, TransceiverKept DEF Sequential, linkVars
<1>8. Tracked'
  BY <1>1, <1>3, <1>4, Keeping, TrackedKept DEF Sequential, On, linkVars, viewVars, frameVars
<1>9. Shown' /\ Accompanied' /\ Silent'
  BY <1>1, <1>3, <1>4, Keeping, MendingFacts, ShownKept, AccompaniedKept, SilentKept DEF Sequential, linkVars, viewVars
<1> QED
  BY <1>2, <1>5, <1>6, <1>7, <1>8, <1>9 DEF Sequential

LEMMA ReportEndedAlone ==
  ASSUME IInv, Shapes, Sequential, NEW t \in Threads, ReportEnded(t)
  PROVE  Sequential'
<1>1. PICK T : (\A y \in T : Follows(Do("reportEnded"), y)) /\ Turn(t, {Do("reportEnded")}, T, {})
  BY DoDone DEF ReportEnded, IInv, Sequential, DoOps
<1>2. /\ \A y \in T : y \in Leaving
      /\ Todo = {Do("reportEnded")} \cup T /\ Todo' = T /\ Lone'
  BY <1>1, AfterFacts DEF Turn
<1>3. /\ told' = "ended"
      /\ UNCHANGED <<publishing, tcv, layers, cascaded, companion, companionTcv, linkVars, viewVars, frameVars>>
  BY DEF ReportEnded
<1>4. Do("reportEnded") \notin Making /\ Do("reportEnded") \notin Mending
  BY Fields DEF Making, Mending
<1>5. Consistent'
  BY <1>2, <1>3, Fields DEF Sequential, Consistent, Reasons, linkVars, Leaving, Refilling, Rebuild
<1>6. Reasons'
  BY <1>2, <1>3, Fields DEF Sequential, Reasons, linkVars, Leaving, Refilling, Rebuild
<1>7. OneTransceiver'
  BY <1>1, <1>3, Keeping, TransceiverKept DEF Sequential, linkVars
<1>8. Tracked'
  BY <1>1, <1>3, <1>4, Keeping, TrackedKept DEF Sequential, On, linkVars, viewVars, frameVars
<1>9. Shown' /\ Accompanied' /\ Silent'
  BY <1>1, <1>3, <1>4, Keeping, MendingFacts, ShownKept, AccompaniedKept, SilentKept DEF Sequential, linkVars, viewVars
<1> QED
  BY <1>2, <1>5, <1>6, <1>7, <1>8, <1>9 DEF Sequential

LEMMA CascadeAlone ==
  ASSUME IInv, Shapes, Sequential, NEW t \in Threads, CascadePublish(t)
  PROVE  Sequential'
<1> DEFINE kind == Head(job[t]).kind
<1>1. kind \in Kinds /\ Head(job[t]) = For("cascade", kind) /\ job[t] # <<>>
  BY ForHead DEF CascadePublish, IInv, ForOps
<1>2. PICK T : (\A y \in T : Follows(For("cascade", kind), y)) /\ Turn(t, {For("cascade", kind)}, T, {})
  BY <1>1, ForDone DEF CascadePublish, IInv, Sequential
<1>3. /\ cascaded' = cascaded \cup {kind}
      /\ UNCHANGED <<publishing, tcv, layers, told, companion, companionTcv, linkVars, viewVars, frameVars>>
  BY DEF CascadePublish
<1> HIDE DEF kind
<1>4. /\ \A y \in T : y = Do("live")
      /\ Todo = {For("cascade", kind)} \cup T /\ Todo' = T /\ Lone'
  BY <1>2, AfterFacts DEF Turn
<1>5. For("cascade", kind) \notin Making /\ For("cascade", kind) \notin Mending
  BY Fields DEF Making, Mending
<1>6. Consistent'
  BY <1>1, <1>4, <1>3, Fields DEF Sequential, Consistent, Reasons, linkVars, Kinds, Screen, Audio
<1>7. Reasons'
  BY <1>4, <1>3, Fields DEF Sequential, Reasons, linkVars, Rebuild
<1>8. OneTransceiver'
  BY <1>2, <1>3, Keeping, TransceiverKept DEF Sequential, linkVars
<1>9. Tracked'
  BY <1>2, <1>3, <1>5, Keeping, TrackedKept DEF Sequential, On, linkVars, viewVars, frameVars
<1>10. Shown' /\ Accompanied' /\ Silent'
  BY <1>2, <1>3, <1>5, Keeping, MendingFacts, ShownKept, AccompaniedKept, SilentKept DEF Sequential, linkVars, viewVars
<1> QED
  BY <1>4, <1>6, <1>7, <1>8, <1>9, <1>10 DEF Sequential

LEMMA TellEndedAlone ==
  ASSUME IInv, Shapes, Sequential, life = "in", NEW t \in Threads, TellEnded(t)
  PROVE  Sequential'
<1> DEFINE a == <<For("detach", Screen), Do("reportEnded")>>
<1>1. /\ a \in Seq(Steps) /\ Ordered(a) /\ Members(a) = {For("detach", Screen), Do("reportEnded")}
      /\ \A x \in {For("detach", Screen), Do("reportEnded")} : \A y : Follows(Do("tellEnded"), y) => Follows(x, y)
  <2>1. For("detach", Screen) \in Steps /\ Do("reportEnded") \in Steps
    BY Named
  <2>2. Follows(For("detach", Screen), Do("reportEnded"))
    BY DEF Follows
  <2>3. \A x \in {For("detach", Screen), Do("reportEnded")} : \A y \in Leaving : Follows(x, y)
    BY Fields DEF Follows
  <2> QED
    BY <2>1, <2>2, <2>3, ShortOps, ShortMembers, AfterFacts
<1>2. Continue(t, a) /\ At(t, "tellEnded") /\ UNCHANGED <<linkVars, pubVars, viewVars, frameVars>>
  BY DEF TellEnded
<1> HIDE DEF a
<1>3. PICK T : /\ \A y \in T : Follows(Do("tellEnded"), y)
               /\ Turn(t, {Do("tellEnded")}, T, {For("detach", Screen), Do("reportEnded")})
  BY <1>1, <1>2, DoTurned DEF IInv, Sequential, DoOps
<1>4. /\ \A y \in T : y \in Leaving
      /\ Todo = {Do("tellEnded")} \cup T /\ Todo' = {For("detach", Screen), Do("reportEnded")} \cup T /\ Lone'
  BY <1>3, AfterFacts DEF Turn
<1>5. /\ Do("tellEnded") \notin Making /\ Do("tellEnded") \notin Mending
      /\ For("detach", Screen) \notin Uplinking /\ Do("reportEnded") \notin Uplinking
  BY Fields DEF Making, Mending, Uplinking
<1>6. Consistent'
  BY <1>4, <1>2, Fields DEF Sequential, Consistent, Reasons, linkVars, pubVars, Leaving, Refilling, Rebuild
<1>7. Reasons'
  BY <1>4, <1>2, Fields DEF Sequential, Reasons, linkVars, pubVars, Leaving, Refilling, Rebuild, Screen, Audio
<1>8. OneTransceiver'
  BY <1>3, <1>2, <1>5, Keeping, TransceiverKept DEF Sequential, linkVars, pubVars
<1>9. Tracked'
  BY <1>3, <1>2, <1>5, Keeping, TrackedKept DEF Sequential, On, linkVars, pubVars, viewVars, frameVars
<1>10. Shown' /\ Accompanied' /\ Silent'
  BY <1>3, <1>2, <1>5, Keeping, MendingFacts, ShownKept, AccompaniedKept, SilentKept
     DEF Sequential, linkVars, pubVars, viewVars
<1> QED
  BY <1>4, <1>6, <1>7, <1>8, <1>9, <1>10 DEF Sequential

LEMMA StoreCompanionTcvAlone ==
  ASSUME IInv, Shapes, Sequential, NEW t \in Threads, StoreCompanionTcv(t)
  PROVE  Sequential'
<1>1. PICK T : (\A y \in T : Follows(Do("companionTcv"), y)) /\ Turn(t, {Do("companionTcv")}, T, {})
  BY DoDone DEF StoreCompanionTcv, IInv, Sequential, DoOps
<1>2. /\ \A y \in T : y \in {Do("attachCompanion"), For("cascade", Audio), Do("live")}
      /\ Todo = {Do("companionTcv")} \cup T /\ Todo' = T /\ Lone'
  BY <1>1, AfterFacts DEF Turn
<1>3. UNCHANGED <<publishing, tcv, layers, told, cascaded, companion, linkVars, viewVars, frameVars>>
  BY DEF StoreCompanionTcv
<1>4. Do("companionTcv") \notin Making /\ Do("companionTcv") \notin Mending
  BY Fields DEF Making, Mending
<1>5. cap /\ Do("attachCompanion") \in Todo'
  BY <1>2, Fields DEF Sequential, Reasons
<1>6. Consistent'
  BY <1>2, <1>3, Fields DEF Sequential, Consistent, Reasons, linkVars, Leaving, Refilling, Rebuild
<1>7. Reasons'
  BY <1>2, <1>3, Fields DEF Sequential, Reasons, linkVars, Leaving, Refilling, Rebuild
<1>8. OneTransceiver'
  BY <1>1, <1>3, Keeping, TransceiverKept DEF Sequential, linkVars
<1>9. Tracked'
  <2>1. Attaching(Audio) \in Todo'
    BY <1>5 DEF Attaching, Screen, Audio
  <2> QED
    BY <1>1, <1>3, <1>4, <2>1, Keeping, TrackedKept DEF Sequential, On, linkVars, viewVars, frameVars
<1>10. Shown' /\ Silent'
  BY <1>1, <1>3, <1>4, Keeping, MendingFacts, ShownKept, SilentKept DEF Sequential, linkVars, viewVars
<1>11. Accompanied'
  <2>1. \A x \in Mending : x \in Todo => x \in Todo'
    BY <1>1, <1>4, Keeping
  <2>2. UNCHANGED <<companion, cap, down, fan, frameVars>>
    BY <1>3 DEF linkVars, viewVars
  <2> QED
    BY <1>5, <2>1, <2>2, MendingFacts, RefillsKept DEF Sequential, Accompanied, frameVars, Takers, ShouldForwardScreen
<1> QED
  BY <1>2, <1>6, <1>7, <1>8, <1>9, <1>10, <1>11 DEF Sequential

LEMMA StartLoopAlone ==
  ASSUME IInv, Shapes, Sequential, NEW t \in Threads, StartLoop(t)
  PROVE  Sequential'
<1>1. PICK T : (\A y \in T : Follows(Do("live"), y)) /\ Turn(t, {Do("live")}, T, {})
  BY DoDone DEF StartLoop, IInv, Sequential, DoOps
<1>2. /\ T = {}
      /\ Todo = {Do("live")} \cup T /\ Todo' = T /\ Lone'
  BY <1>1, AfterFacts DEF Turn
<1>3. /\ up' = [up EXCEPT ![t[2]] = "live"]
      /\ UNCHANGED <<publishing, tcv, layers, told, cascaded, companion, companionTcv,
                     life, cap, stopped, viewVars, frameVars>>
  BY DEF StartLoop, pubVars
<1>4. Do("live") \notin Making /\ Do("live") \notin Mending
  BY Fields DEF Making, Mending
<1>5. PICK x \in Uplinks : t = Track(x) /\ up[x] = "called" /\ up' = [up EXCEPT ![x] = "live"]
  <2>1. "live" \in Ops(job[t])
    BY OpsOfTail DEF StartLoop, At, IInv, Types
  <2>2. PICK x \in Uplinks : t = Track(x)
    BY <2>1 DEF IInv, Placed
  <2>3. Do("live") \in Left(t)
    BY <1>1 DEF Turn
  <2> QED
    BY <1>3, <2>2, <2>3, ThreadFacts DEF Sequential, OneTransceiver
<1>6. \A u \in Threads : Left(u)' = {}
  BY <1>1, <1>2 DEF Turn
<1>7. Consistent'
  BY <1>2, <1>3, Fields DEF Sequential, Consistent, Reasons, Leaving, Refilling, Rebuild
<1>8. Reasons'
  BY <1>2, <1>3, Fields DEF Sequential, Reasons, Leaving, Refilling, Rebuild
<1>9. OneTransceiver'
  <2>1. \A y \in Uplinks : Track(y) \in Threads
    BY ThreadFacts
  <2> QED
    BY <1>6, <1>3, <2>1 DEF Sequential, OneTransceiver
<1>10. Tracked'
  BY <1>1, <1>3, <1>4, Keeping, TrackedKept DEF Sequential, On, viewVars, frameVars
<1>11. Shown' /\ Accompanied'
  BY <1>1, <1>3, <1>4, Keeping, MendingFacts, ShownKept, AccompaniedKept DEF Sequential, viewVars
<1>12. Silent'
  <2>1. \A y \in Tracks : up[y] = "over" => up'[y] = "over"
    BY <1>5 DEF IInv, Types, Uplinks
  <2> QED
    BY <1>2, <1>3, <2>1, Fields DEF Sequential, Silent, Filed, viewVars
<1> QED
  BY <1>2, <1>7, <1>8, <1>9, <1>10, <1>11, <1>12 DEF Sequential

LEMMA StripAlone ==
  ASSUME IInv, Shapes, Sequential, NEW t \in Threads, Strip(t)
  PROVE  Sequential'
<1>1. PICK T : (\A y \in T : Follows(Do("strip"), y)) /\ Turn(t, {Do("strip")}, T, {})
  BY DoDone DEF Strip, IInv, Sequential, DoOps
<1>2. /\ T = {}
      /\ Todo = {Do("strip")} \cup T /\ Todo' = T /\ Lone'
  BY <1>1, AfterFacts DEF Turn
<1>3. /\ up' = [up EXCEPT ![t[2]] = "over"] /\ stopped' = stopped \cup {Tcv(t[2])}
      /\ UNCHANGED <<publishing, tcv, layers, told, cascaded, companion, companionTcv, life, cap, viewVars, frameVars>>
  BY DEF Strip, pubVars
<1>4. Do("strip") \notin Making /\ Do("strip") \notin Mending
  BY Fields DEF Making, Mending
<1>5. PICK x \in Uplinks : t = Track(x) /\ up' = [up EXCEPT ![x] = "over"] /\ stopped' = stopped \cup {Tcv(x)}
  <2>1. "strip" \in Ops(job[t])
    BY OpsOfTail DEF Strip, At, IInv, Types
  <2>2. PICK x \in Uplinks : t = Track(x)
    BY <2>1 DEF IInv, Placed, Entering
  <2> QED
    BY <1>3, <2>2, ThreadFacts
<1>6. \A u \in Threads : Left(u)' = {}
  BY <1>1, <1>2 DEF Turn
<1>7. Consistent'
  BY <1>2, <1>3, Fields DEF Sequential, Consistent, Reasons, Leaving, Refilling, Rebuild
<1>8. Reasons'
  BY <1>2, <1>3, Fields DEF Sequential, Reasons, Leaving, Refilling, Rebuild
<1>9. OneTransceiver'
  <2>1. \A y \in Uplinks : Track(y) \in Threads
    BY ThreadFacts
  <2>2. Do("strip") \in Left(Track(x))
    BY <1>1, <1>5 DEF Turn
  <2>3. \A q \in Qualities : layers[q] # None => Tcv(layers[q]) # Tcv(x)
    BY <2>2 DEF Sequential, OneTransceiver
  <2> QED
    BY <1>5, <1>6, <1>3, <2>1, <2>3 DEF Sequential, OneTransceiver
<1>10. Tracked'
  BY <1>1, <1>3, <1>4, Keeping, TrackedKept DEF Sequential, On, viewVars, frameVars
<1>11. Shown' /\ Accompanied'
  BY <1>1, <1>3, <1>4, Keeping, MendingFacts, ShownKept, AccompaniedKept DEF Sequential, viewVars
<1>12. Silent'
  <2>1. \A y \in Tracks : up[y] = "over" => up'[y] = "over"
    BY <1>5 DEF IInv, Types, Uplinks
  <2> QED
    BY <1>2, <1>3, <2>1, Fields DEF Sequential, Silent, Filed, viewVars
<1> QED
  BY <1>2, <1>7, <1>8, <1>9, <1>10, <1>11, <1>12 DEF Sequential

LEMMA StopScreenUplinkAlone ==
  ASSUME IInv, Shapes, Sequential, NEW t \in Threads, StopScreenUplink(t)
  PROVE  Sequential'
<1>1. PICK T : (\A y \in T : Follows(Do("stopUplink"), y)) /\ Turn(t, {Do("stopUplink")}, T, {})
  BY DoDone DEF StopScreenUplink, IInv, Sequential, DoOps
<1>2. /\ \A y \in T : y \in {Do("stopCompanion")} \cup Refilling
      /\ Todo = {Do("stopUplink")} \cup T /\ Todo' = T /\ Lone'
  BY <1>1, AfterFacts DEF Turn
<1>3. /\ tcv' = 0 /\ stopped' = stopped \cup ({tcv} \ {0})
      /\ UNCHANGED <<publishing, layers, told, cascaded, companion, companionTcv, life, cap, up, viewVars, frameVars>>
  BY DEF StopScreenUplink
<1>4. ~cap /\ ~publishing /\ layers = NoLayers
  BY <1>2, Fields DEF Sequential, Consistent, Reasons, Refilling, Rebuild
<1>5. Consistent'
  BY <1>2, <1>3, Fields DEF Sequential, Consistent, Reasons, Leaving, Refilling, Rebuild
<1>6. Reasons'
  BY <1>2, <1>3, Fields DEF Sequential, Reasons, Leaving, Refilling, Rebuild
<1>7. OneTransceiver'
  <2>1. \A u \in Threads : \A y \in Uplinking : y \notin Left(u)'
    BY <1>1, <1>2, Fields DEF Turn, Uplinking, Refilling, Rebuild
  <2>2. \A q \in Qualities : layers'[q] = None
    BY <1>4, <1>3 DEF NoLayers
  <2>3. \A x \in Uplinks : Track(x) \in Threads
    BY ThreadFacts
  <2> QED
    BY <2>1, <2>2, <2>3 DEF OneTransceiver, Uplinking
<1>8. Tracked'
  BY <1>4, <1>3 DEF Tracked
<1>9. Shown'
  BY <1>4, <1>3 DEF Shown
<1>10. Accompanied'
  BY <1>4, <1>2, <1>3, Fields DEF Sequential, Accompanied, Refilling, Rebuild, viewVars
<1>11. Silent'
  <2>1. \A x \in Tracks : ~Filed(x) /\ Tcv(x) # 0
    BY <1>4, UplinkAssumption, NameAssumption DEF Filed, NoLayers, Tcv
  <2> QED
    BY <1>2, <1>3, <2>1 DEF Sequential, Silent, viewVars
<1> QED
  BY <1>2, <1>5, <1>6, <1>7, <1>8, <1>9, <1>10, <1>11 DEF Sequential

LEMMA StopScreenAudioUplinkAlone ==
  ASSUME IInv, Shapes, Sequential, NEW t \in Threads, StopScreenAudioUplink(t)
  PROVE  Sequential'
<1>1. PICK T : (\A y \in T : Follows(Do("stopCompanion"), y)) /\ Turn(t, {Do("stopCompanion")}, T, {})
  BY DoDone DEF StopScreenAudioUplink, IInv, Sequential, DoOps
<1>2. /\ \A y \in T : y \in Refilling
      /\ Todo = {Do("stopCompanion")} \cup T /\ Todo' = T /\ Lone'
  BY <1>1, AfterFacts DEF Turn
<1>3. /\ companionTcv' = 0 /\ stopped' = stopped \cup ({companionTcv} \ {0})
      /\ UNCHANGED <<publishing, tcv, layers, told, cascaded, companion, life, cap, up, viewVars, frameVars>>
  BY DEF StopScreenAudioUplink
<1>4. ~cap /\ ~publishing /\ layers = NoLayers
  BY <1>2, Fields DEF Sequential, Consistent, Reasons, Refilling, Rebuild
<1>5. Consistent'
  BY <1>2, <1>3, Fields DEF Sequential, Consistent, Reasons, Leaving, Refilling, Rebuild
<1>6. Reasons'
  BY <1>2, <1>3, Fields DEF Sequential, Reasons, Leaving, Refilling, Rebuild
<1>7. OneTransceiver'
  <2>1. \A u \in Threads : \A y \in Uplinking : y \notin Left(u)'
    BY <1>1, <1>2, Fields DEF Turn, Uplinking, Refilling, Rebuild
  <2>2. \A q \in Qualities : layers'[q] = None
    BY <1>4, <1>3 DEF NoLayers
  <2>3. \A x \in Uplinks : Track(x) \in Threads
    BY ThreadFacts
  <2> QED
    BY <2>1, <2>2, <2>3 DEF OneTransceiver, Uplinking
<1>8. Tracked'
  BY <1>4, <1>3 DEF Tracked
<1>9. Shown'
  BY <1>4, <1>3 DEF Shown
<1>10. Accompanied'
  BY <1>4, <1>2, <1>3, Fields DEF Sequential, Accompanied, Refilling, Rebuild, viewVars
<1>11. Silent'
  <2>1. \A x \in Tracks : ~Filed(x) /\ Tcv(x) # 0
    BY <1>4, UplinkAssumption, NameAssumption DEF Filed, NoLayers, Tcv
  <2>2. Do("stopUplink") \notin Todo
    BY <1>2, Fields DEF Refilling, Rebuild
  <2> QED
    BY <1>3, <2>1, <2>2 DEF Sequential, Silent, viewVars
<1> QED
  BY <1>2, <1>5, <1>6, <1>7, <1>8, <1>9, <1>10, <1>11 DEF Sequential

LEMMA ClearLayersAlone ==
  ASSUME IInv, Shapes, Sequential, NEW t \in Threads, ClearLayers(t)
  PROVE  Sequential'
<1>1. PICK T : (\A y \in T : Follows(Do("clear"), y)) /\ Turn(t, {Do("clear")}, T, {})
  BY DoDone DEF ClearLayers, IInv, Sequential, DoOps
<1>2. /\ \A y \in T : y \in {Do("uncount"), Do("finishCompanion"), Do("tellEnded")} \cup Leaving
      /\ Todo = {Do("clear")} \cup T /\ Todo' = T /\ Lone'
  BY <1>1, AfterFacts DEF Turn
<1>3. /\ layers' = NoLayers
      /\ UNCHANGED <<publishing, tcv, told, cascaded, companion, companionTcv, linkVars, viewVars, frameVars>>
  BY DEF ClearLayers
<1>4. Do("clear") \notin Making /\ Do("clear") \notin Mending
  BY Fields DEF Making, Mending
<1>5. ~publishing /\ (layers # NoLayers => Do("stopUplink") \in T)
  BY <1>2, Fields DEF Sequential, Reasons
<1>6. Consistent'
  BY <1>2, <1>3, Fields DEF Sequential, Consistent, Reasons, linkVars, Leaving, Refilling, Rebuild
<1>7. Reasons'
  BY <1>2, <1>3, Fields DEF Sequential, Reasons, linkVars, Leaving, Refilling, Rebuild
<1>8. OneTransceiver'
  <2>1. \A u \in Threads : \A y \in Uplinking : y \notin Left(u)'
    BY <1>1, <1>2, Fields DEF Turn, Uplinking, Leaving, Refilling, Rebuild
  <2>2. \A q \in Qualities : layers'[q] = None
    BY <1>3 DEF NoLayers
  <2>3. \A x \in Uplinks : Track(x) \in Threads
    BY ThreadFacts
  <2> QED
    BY <2>1, <2>2, <2>3 DEF OneTransceiver, Uplinking
<1>9. Tracked'
  BY <1>1, <1>3, <1>4, Keeping, TrackedKept DEF Sequential, On, linkVars, viewVars, frameVars
<1>10. Shown' /\ Accompanied'
  BY <1>5, <1>1, <1>3, <1>4, Keeping, AccompaniedKept DEF Sequential, Shown, linkVars, viewVars
<1>11. Silent'
  <2>1. \A x \in Tracks : Filed(x) => Tcv(x) = tcv /\ Do("stopUplink") \in T
    BY <1>5, NameAssumption DEF Sequential, OneTransceiver, Filed, NoLayers
  <2> QED
    BY <1>2, <1>3, <2>1, Fields DEF Sequential, Silent, viewVars, linkVars
<1> QED
  BY <1>2, <1>6, <1>7, <1>8, <1>9, <1>10, <1>11 DEF Sequential

LEMMA FinishCompanionAlone ==
  ASSUME IInv, Shapes, Sequential, NEW t \in Threads, FinishCompanion(t)
  PROVE  Sequential'
<1> DEFINE a == IF companion THEN <<Do("endCompanion")>> ELSE <<>>
<1> DEFINE new == IF companion THEN {Do("endCompanion")} ELSE {}
<1>1. /\ a \in Seq(Steps) /\ Ordered(a) /\ Members(a) = new
      /\ \A x \in new : \A y : Follows(Do("finishCompanion"), y) => Follows(x, y)
  <2>1. Do("endCompanion") \in Steps
    BY Named
  <2>2. \A y : Follows(Do("finishCompanion"), y) => Follows(Do("endCompanion"), y)
    BY AfterFacts, Fields DEF Follows
  <2> QED
    BY <2>1, <2>2, ShortOps, ShortMembers
<1>2. /\ At(t, "finishCompanion") /\ Continue(t, a)
      /\ ~companion'
      /\ UNCHANGED <<publishing, tcv, layers, told, cascaded, companionTcv, linkVars, viewVars, frameVars>>
  BY DEF FinishCompanion
<1> HIDE DEF a
<1>3. PICK T : (\A y \in T : Follows(Do("finishCompanion"), y)) /\ Turn(t, {Do("finishCompanion")}, T, new)
  <2> HIDE DEF new
  <2> QED
    BY <1>1, <1>2, DoTurned DEF IInv, Sequential, DoOps
<1>4. /\ \A y \in T : y \in {Do("tellEnded")} \cup Leaving
      /\ Todo = {Do("finishCompanion")} \cup T /\ Todo' = new \cup T /\ Lone'
  BY <1>3, AfterFacts DEF Turn
<1>5. /\ Do("finishCompanion") \notin Making /\ Do("finishCompanion") \notin Mending
      /\ \A x \in new : x \notin Uplinking
  BY Fields DEF Making, Mending, Uplinking
<1>6. Consistent'
  BY <1>4, <1>2, Fields DEF Sequential, Consistent, Reasons, linkVars, Leaving, Refilling, Rebuild, Screen, Audio
<1>7. Reasons'
  BY <1>4, <1>2, Fields DEF Sequential, Reasons, linkVars, Leaving, Refilling, Rebuild, Screen, Audio
<1>8. OneTransceiver'
  BY <1>3, <1>2, <1>5, Keeping, TransceiverKept DEF Sequential, linkVars
<1>9. Tracked'
  BY <1>3, <1>2, <1>5, Keeping, TrackedKept DEF Sequential, On, linkVars, viewVars, frameVars
<1>10. Shown' /\ Silent'
  BY <1>3, <1>2, <1>5, Keeping, MendingFacts, ShownKept, SilentKept DEF Sequential, linkVars, viewVars
<1>11. Accompanied'
  BY <1>4, <1>2, Fields DEF Sequential, Accompanied, Leaving, Refilling, Rebuild, viewVars
<1> QED
  BY <1>4, <1>6, <1>7, <1>8, <1>9, <1>10, <1>11 DEF Sequential

LEMMA EndCompanionAlone ==
  ASSUME IInv, Shapes, Sequential, life = "in", NEW t \in Threads, EndCompanion(t)
  PROVE  Sequential'
<1> DEFINE a == <<For("detach", Audio)>>
<1> DEFINE new == {For("detach", Audio)}
<1>1. /\ a \in Seq(Steps) /\ Ordered(a) /\ Members(a) = new
      /\ \A x \in new : \A y : Follows(Do("endCompanion"), y) => Follows(x, y)
  <2>1. For("detach", Audio) \in Steps
    BY Named
  <2>2. \A y : Follows(Do("endCompanion"), y) => Follows(For("detach", Audio), y)
    BY AfterFacts, Fields DEF Follows
  <2> QED
    BY <2>1, <2>2, ShortOps, ShortMembers
<1>2. /\ At(t, "endCompanion") /\ Continue(t, a)
      /\ fan' = [fan EXCEPT ![None] = {}] /\ cascaded' = cascaded \ {Audio}
      /\ UNCHANGED <<publishing, tcv, layers, told, companion, companionTcv, linkVars, down, frameVars>>
  BY DEF EndCompanion
<1> HIDE DEF a
<1>3. PICK T : (\A y \in T : Follows(Do("endCompanion"), y)) /\ Turn(t, {Do("endCompanion")}, T, new)
  <2> HIDE DEF new
  <2> QED
    BY <1>1, <1>2, DoTurned DEF IInv, Sequential, DoOps
<1>4. /\ \A y \in T : y \in {Do("tellEnded")} \cup Leaving
      /\ Todo = {Do("endCompanion")} \cup T /\ Todo' = new \cup T /\ Lone'
  BY <1>3, AfterFacts DEF Turn
<1>5. /\ Do("endCompanion") \notin Making
      /\ \A x \in new : x \notin Uplinking
  BY Fields DEF Making, Mending, Uplinking
<1>6. ~companion /\ fan'[None] = {} /\ \A x \in Tracks : fan'[x] = fan[x]
  BY <1>4, <1>2, Fields, NameAssumption DEF Sequential, Reasons, Shapes
<1>7. \A x \in Mending : x \in Todo /\ x # Do("endCompanion") => x \in Todo'
  BY <1>3, Keeping
<1>8. Consistent'
  BY <1>4, <1>2, Fields DEF Sequential, Consistent, Reasons, linkVars, Leaving, Refilling, Rebuild, Screen, Audio
<1>9. Reasons'
  BY <1>4, <1>2, Fields DEF Sequential, Reasons, linkVars, Leaving, Refilling, Rebuild, Screen, Audio
<1>10. OneTransceiver'
  BY <1>3, <1>2, <1>5, Keeping, TransceiverKept DEF Sequential, linkVars
<1>11. Tracked'
  BY <1>3, <1>2, <1>5, Keeping, TrackedKept DEF Sequential, On, linkVars, viewVars, frameVars
<1>12. Silent'
  BY <1>4, <1>2, <1>6, Fields, SilentKept DEF Sequential, linkVars
<1>13. Accompanied'
  BY <1>4, <1>6, <1>2 DEF Accompanied
<1>14. Shown'
  <2>1. \A kind \in Kinds : Refills(kind) => Refills(kind)'
    BY <1>7, MendingFacts, Fields DEF Refills, Attaching, Rebuild
  <2> QED
    BY <2>1, <1>2, <1>6, MendingFacts
       DEF Sequential, Shown, linkVars, frameVars, Filed, Takers, LayerOf, ShouldForwardScreen
<1> QED
  BY <1>4, <1>8, <1>9, <1>10, <1>11, <1>12, <1>13, <1>14 DEF Sequential

LEMMA FinishAlone ==
  ASSUME IInv, Shapes, Sequential, NEW t \in Threads, Finish(t)
  PROVE  Sequential'
<1> DEFINE a == IF publishing THEN Finishing ELSE <<>>
<1> DEFINE new == IF publishing THEN {Do("clear"), Do("uncount"), Do("finishCompanion"), Do("tellEnded")} ELSE {}
<1>1. /\ a \in Seq(Steps) /\ Ordered(a) /\ Members(a) = new
      /\ \A x \in new : \A y : Follows(Do("finish"), y) => Follows(x, y)
  <2>1. {Do("clear"), Do("uncount"), Do("finishCompanion"), Do("tellEnded")} \subseteq Steps
    BY StepFacts DEF DoOps
  <2>2. /\ \A x \in {Do("clear"), Do("uncount"), Do("finishCompanion"), Do("tellEnded")} :
             \A y \in Leaving : Follows(x, y)
        /\ Follows(Do("clear"), Do("uncount")) /\ Follows(Do("clear"), Do("finishCompanion"))
        /\ Follows(Do("clear"), Do("tellEnded")) /\ Follows(Do("uncount"), Do("finishCompanion"))
        /\ Follows(Do("uncount"), Do("tellEnded")) /\ Follows(Do("finishCompanion"), Do("tellEnded"))
    BY Fields DEF Follows
  <2>3. Finishing \in Seq(Steps)
    BY <2>1 DEF Finishing
  <2>4. /\ Ordered(Finishing)
        /\ Members(Finishing) = {Do("clear"), Do("uncount"), Do("finishCompanion"), Do("tellEnded")}
    BY <2>1, <2>2, ShortMembers DEF Finishing
  <2>5. \A x \in new : \A y : Follows(Do("finish"), y) => Follows(x, y)
    BY <2>2, AfterFacts
  <2> QED
    BY <2>3, <2>4, <2>5, ShortOps, ShortMembers
<1>2. /\ At(t, "finish") /\ Continue(t, a)
      /\ ~publishing'
      /\ UNCHANGED <<tcv, layers, told, cascaded, companion, companionTcv, linkVars, viewVars, frameVars>>
  BY DEF Finish, Finishing
<1> HIDE DEF a
<1>3. PICK T : (\A y \in T : Follows(Do("finish"), y)) /\ Turn(t, {Do("finish")}, T, new)
  <2> HIDE DEF new
  <2> QED
    BY <1>1, <1>2, DoTurned DEF IInv, Sequential, DoOps
<1>4. /\ \A y \in T : y \in Leaving
      /\ Todo = {Do("finish")} \cup T /\ Todo' = new \cup T /\ Lone'
  BY <1>3, AfterFacts DEF Turn
<1>5. /\ Do("finish") \notin Making /\ Do("finish") \notin Mending
      /\ \A x \in new : x \notin Uplinking
  BY Fields DEF Making, Mending, Uplinking
<1>6. Consistent'
  BY <1>4, <1>2, Fields DEF Sequential, Consistent, Reasons, linkVars, Leaving, Refilling, Rebuild, Screen, Audio
<1>7. Reasons'
  BY <1>4, <1>2, Fields DEF Sequential, Reasons, linkVars, Leaving, Refilling, Rebuild, Screen, Audio
<1>8. OneTransceiver'
  BY <1>3, <1>2, <1>5, Keeping, TransceiverKept DEF Sequential, linkVars
<1>9. Tracked'
  BY <1>3, <1>2, <1>5, Keeping, TrackedKept DEF Sequential, On, linkVars, viewVars, frameVars
<1>10. Shown' /\ Accompanied' /\ Silent'
  BY <1>3, <1>2, <1>5, Keeping, MendingFacts, ShownKept, AccompaniedKept, SilentKept DEF Sequential, linkVars, viewVars
<1> QED
  BY <1>4, <1>6, <1>7, <1>8, <1>9, <1>10 DEF Sequential

LEMMA EpilogueAlone ==
  ASSUME IInv, Shapes, Sequential, NEW t \in Threads, Epilogue(t)
  PROVE  Sequential'
<1> DEFINE a == IF layers' = NoLayers THEN <<Do("finish")>> ELSE <<Rebuild(Screen)>>
<1> DEFINE new == IF layers' = NoLayers THEN {Do("finish")} ELSE {Rebuild(Screen)}
<1>1. /\ a \in Seq(Steps) /\ Ordered(a) /\ Members(a) = new
      /\ \A x \in new : \A y : Follows(Do("epilogue"), y) => Follows(x, y)
  <2>1. Do("finish") \in Steps /\ Rebuild(Screen) \in Steps
    BY Named
  <2> QED
    BY <2>1, ShortOps, ShortMembers, AfterFacts
<1>2. /\ At(t, "epilogue") /\ Continue(t, a)
      /\ layers' = [q \in Qualities |-> IF layers[q] = t[2] THEN None ELSE layers[q]]
      /\ UNCHANGED <<publishing, tcv, told, cascaded, companion, companionTcv, linkVars, viewVars, frameVars>>
  BY DEF Epilogue
<1> HIDE DEF a
<1>3. PICK T : (\A y \in T : Follows(Do("epilogue"), y)) /\ Turn(t, {Do("epilogue")}, T, new)
  <2> HIDE DEF new
  <2> QED
    BY <1>1, <1>2, DoTurned DEF IInv, Sequential, DoOps
<1>4. /\ T = {}
      /\ Todo = {Do("epilogue")} \cup T /\ Todo' = new \cup T /\ Lone'
  BY <1>3, AfterFacts DEF Turn
<1>5. /\ Do("epilogue") \notin Making /\ Do("epilogue") \notin Mending
      /\ \A x \in new : x \notin Uplinking
  BY Fields DEF Making, Mending, Uplinking, Rebuild
<1>6. PICK x \in Tracks : t = Track(x) /\ up[x] = "over"
  <2>1. Do("epilogue") \in Left(t)
    BY <1>3 DEF Turn
  <2> QED
    BY <2>1 DEF Sequential, OneTransceiver
<1>7. /\ \A q \in Qualities : layers'[q] # None => layers'[q] = layers[q]
      /\ \A q \in Qualities : layers[q] # x => layers'[q] = layers[q]
  BY <1>6, <1>2, ThreadFacts
<1>8. layers' # NoLayers => layers # NoLayers
  BY <1>2 DEF NoLayers
<1>9. Consistent'
  BY <1>4, <1>2, <1>8, Fields DEF Sequential, Consistent, Reasons, linkVars, Leaving, Refilling, Rebuild, Screen, Audio
<1>10. Reasons'
  BY <1>4, <1>2, Fields DEF Sequential, Reasons, linkVars, Leaving, Refilling, Rebuild, Screen, Audio
<1>11. OneTransceiver'
  <2>1. \A u \in Threads : \A y \in Uplinking : y \notin Left(u)'
    BY <1>3, <1>4, <1>5 DEF Turn
  <2>2. \A y \in Uplinks : Track(y) \in Threads
    BY ThreadFacts
  <2> QED
    BY <1>2, <1>7, <2>1, <2>2 DEF Sequential, OneTransceiver, Uplinking, linkVars
<1>12. Tracked'
  BY <1>3, <1>2, <1>5, Keeping, TrackedKept DEF Sequential, On, linkVars, viewVars, frameVars
<1>13. Accompanied'
  BY <1>3, <1>2, <1>5, Keeping, AccompaniedKept DEF Sequential, linkVars, viewVars
<1>14. Silent'
  <2>1. \A y \in Tracks : Filed(y) => Filed(y)' \/ y = x
    BY <1>7 DEF Filed
  <2> QED
    BY <1>4, <1>2, <1>6, <2>1, Fields DEF Sequential, Silent, linkVars, viewVars
<1>15. Shown'
  <2>1. CASE layers' = NoLayers
    BY <2>1, NameAssumption DEF Shown, Filed, NoLayers
  <2>2. CASE layers' # NoLayers
    BY <1>4, <2>2 DEF Shown, Refills
  <2> QED
    BY <2>1, <2>2
<1> QED
  BY <1>4, <1>9, <1>10, <1>11, <1>12, <1>13, <1>14, <1>15 DEF Sequential

\* A step that gives viewers their down tracks of a kind.
LEMMA Given ==
  ASSUME IInv, Shapes, Sequential, NEW kind \in Kinds, NEW who, NEW g \in MakingOf(kind),
         NEW t \in Threads, NEW T, NEW new, Turn(t, {g}, T, new), new \subseteq {Rebuild(kind)},
         down' = down \cup Ensured(kind, who), UNCHANGED <<linkVars, pubVars, fan, frameVars>>,
         On(kind) => Rebuild(kind) \in Todo',
         g = Attaching(kind) => who = Viewers,
         g # Attaching(kind) => who = {t[2]}
  PROVE  Consistent' /\ OneTransceiver' /\ Tracked' /\ Shown' /\ Accompanied' /\ Silent'
<1>1. /\ \A x : x \in Todo /\ x # g => x \in Todo'
      /\ \A x : x \in Todo' /\ x # Rebuild(kind) => x \in Todo
      /\ \A u \in Threads : \A x : x \in Left(u) /\ x # g => x \in Left(u)'
      /\ \A u \in Threads : \A x : x \in Left(u)' /\ x # Rebuild(kind) => x \in Left(u)
      /\ \A u \in Threads : u # t => Left(u) = {}
  BY DEF Turn
<1>2. /\ \/ g = Do("attach") /\ kind = Screen
         \/ g = Do("attachCompanion") /\ kind = Audio
         \/ g = For("ensure", kind)
         \/ g = For("follow", kind)
      /\ kind = Screen \/ kind = Audio
      /\ Screen # Audio
  BY DEF MakingOf, Attaching, Kinds, Screen, Audio
<1>3. UNCHANGED <<life, cap, up, stopped, publishing, tcv, layers, told, cascaded, companion, companionTcv,
                  fan, sinks, watching, unsub, sel>>
  BY DEF linkVars, pubVars, frameVars
<1>4. Consistent'
  BY <1>1, <1>2, <1>3, Fields DEF Sequential, Consistent
<1>5. OneTransceiver'
  <2>1. Rebuild(kind) \notin Uplinking
    BY Fields DEF Uplinking, Rebuild
  <2> QED
    BY <1>1, <1>3, <2>1, TransceiverKept DEF Sequential
<1>6. Silent'
  BY <1>1, <1>2, <1>3, Fields, SilentKept DEF Sequential
<1>7. /\ \A v \in Viewers : \A k \in Kinds : <<k, v>> \in down => <<k, v>> \in down'
      /\ \A v \in Viewers : \A k \in Kinds : k # kind \/ ~On(kind) => (<<k, v>> \in down' <=> <<k, v>> \in down)
  BY DEF Ensured
<1>8. Tracked'
  <2> SUFFICES ASSUME NEW k \in Kinds, NEW v \in watching, On(k), cap, v \notin unsub,
                      k = Audio => companionTcv # 0
               PROVE  Provided(k, v)'
    BY <1>3 DEF Tracked, On
  <2>1. v \in Viewers /\ Provided(k, v)
    BY DEF Sequential, Tracked, Shapes
  <2>2. CASE k # kind
    <3>1. g \notin MakingOf(k)
      BY <1>2, <2>2, Fields DEF MakingOf, Attaching, Kinds, Screen, Audio
    <3> QED
      BY <1>1, <1>7, <2>1, <3>1, ProvidedKept
  <2>3. CASE k = kind /\ v \in who
    <3>1. <<k, v>> \in down'
      BY <2>1, <2>3 DEF Ensured, ShouldForwardScreen
    <3> QED
      BY <3>1 DEF Provided
  <2>4. CASE k = kind /\ v \notin who
    <3>1. g # Attaching(kind) /\ t[2] # v
      BY <2>1, <2>4
    <3>2. t # <<"loop", v>> /\ t # <<"connect", v>>
      BY <3>1
    <3>3. <<"loop", v>> \in Threads /\ <<"connect", v>> \in Threads
      BY <2>1, ThreadFacts
    <3>4. <<kind, v>> \in down \/ Attaching(kind) \in Todo
      BY <1>1, <2>1, <2>4, <3>2, <3>3 DEF Provided
    <3>5. <<kind, v>> \in down' \/ Attaching(kind) \in Todo'
      BY <1>1, <1>7, <2>1, <3>1, <3>4
    <3> QED
      BY <2>4, <3>5 DEF Provided, Attaching
  <2> QED
    BY <2>2, <2>3, <2>4
<1>9. ASSUME NEW k \in Kinds, k # kind
      PROVE  /\ Refills(k) => Refills(k)'
             /\ Takers(k)' = Takers(k)
  <2>1. Rebuild(k) # g /\ Attaching(k) # g /\ For("follow", k) # g
    BY <1>2, <1>9, Fields DEF Attaching, Rebuild, Kinds, Screen, Audio
  <2>2. Refills(k) => Refills(k)'
    BY <1>1, <2>1 DEF Refills, Attaching, Rebuild
  <2>3. Takers(k)' = Takers(k)
    BY <1>3, <1>7, <1>9 DEF Takers, ShouldForwardScreen, Shapes
  <2> QED
    BY <2>2, <2>3
<1>10. Shown'
  <2>1. CASE kind = Screen
    BY <2>1, <1>3 DEF Shown, Refills, On
  <2>2. CASE kind = Audio
    BY <2>2, <1>2, <1>3, <1>9, StepFacts DEF Sequential, Shown, Filed, LayerOf
  <2> QED
    BY <1>2, <2>1, <2>2
<1>11. Accompanied'
  <2>1. companion /\ cap => Refills(Audio)' \/ fan[None] = Takers(Audio)'
    <3>1. CASE kind = Screen
      BY <3>1, <1>2, <1>9, StepFacts DEF Sequential, Accompanied
    <3>2. CASE kind = Audio
      BY <3>2, <1>2 DEF Refills, On
    <3> QED
      BY <1>2, <3>1, <3>2
  <2>2. ~companion => \A v \in Viewers : <<Audio, v>> \in down' <=> <<Audio, v>> \in down
    BY <1>2, <1>7, StepFacts DEF On
  <2>3. \A x \in {Do("endCompanion"), For("detach", Audio), Do("stopCompanion")} : x \in Todo => x \in Todo'
    BY <1>1, <1>2, Fields
  <2> QED
    BY <1>3, <2>1, <2>2, <2>3 DEF Sequential, Accompanied
<1> QED
  BY <1>4, <1>5, <1>6, <1>8, <1>10, <1>11

LEMMA AttachScreenAlone ==
  ASSUME IInv, Shapes, Sequential, NEW t \in Threads, AttachScreen(t)
  PROVE  Sequential'
<1> DEFINE a == <<Rebuild(Screen)>>
<1>1. /\ a \in Seq(Steps) /\ Ordered(a) /\ Members(a) = {Rebuild(Screen)}
      /\ \A x \in {Rebuild(Screen)} : \A y : Follows(Do("attach"), y) => Follows(x, y)
  <2>1. Rebuild(Screen) \in Steps
    BY Named
  <2>2. \A y : Follows(Do("attach"), y) => Follows(Rebuild(Screen), y)
    BY AfterFacts DEF Follows
  <2> QED
    BY <2>1, <2>2, ShortOps, ShortMembers
<1>2. /\ At(t, "attach") /\ Continue(t, a) /\ down' = down \cup Ensured(Screen, Viewers)
      /\ UNCHANGED <<linkVars, pubVars, fan, frameVars>>
  BY DEF AttachScreen, Attach
<1> HIDE DEF a
<1>3. PICK T : (\A y \in T : Follows(Do("attach"), y)) /\ Turn(t, {Do("attach")}, T, {Rebuild(Screen)})
  BY <1>1, <1>2, DoTurned DEF IInv, Sequential, DoOps
<1>4. /\ \A y \in T : y \in {For("cascade", Screen), Do("live")}
      /\ Todo = {Do("attach")} \cup T /\ Todo' = {Rebuild(Screen)} \cup T /\ Lone'
  BY <1>3, AfterFacts DEF Turn
<1>5. Screen \in Kinds /\ Do("attach") = Attaching(Screen) /\ Do("attach") \in MakingOf(Screen)
  BY StepFacts DEF Attaching, MakingOf, Screen, Audio
<1>6. Consistent' /\ OneTransceiver' /\ Tracked' /\ Shown' /\ Accompanied' /\ Silent'
  BY <1>2, <1>3, <1>4, <1>5, Given
<1>7. Reasons'
  BY <1>2, <1>4, Fields DEF Sequential, Reasons, linkVars, pubVars, Rebuild
<1> QED
  BY <1>4, <1>6, <1>7 DEF Sequential

LEMMA AttachCompanionAlone ==
  ASSUME IInv, Shapes, Sequential, NEW t \in Threads, AttachCompanion(t)
  PROVE  Sequential'
<1> DEFINE a == <<Rebuild(Audio)>>
<1>1. /\ a \in Seq(Steps) /\ Ordered(a) /\ Members(a) = {Rebuild(Audio)}
      /\ \A x \in {Rebuild(Audio)} : \A y : Follows(Do("attachCompanion"), y) => Follows(x, y)
  <2>1. Rebuild(Audio) \in Steps
    BY Named
  <2>2. \A y : Follows(Do("attachCompanion"), y) => Follows(Rebuild(Audio), y)
    BY AfterFacts DEF Follows
  <2> QED
    BY <2>1, <2>2, ShortOps, ShortMembers
<1>2. /\ At(t, "attachCompanion") /\ Continue(t, a) /\ down' = down \cup Ensured(Audio, Viewers)
      /\ UNCHANGED <<linkVars, pubVars, fan, frameVars>>
  BY DEF AttachCompanion, Attach
<1> HIDE DEF a
<1>3. PICK T : (\A y \in T : Follows(Do("attachCompanion"), y)) /\ Turn(t, {Do("attachCompanion")}, T, {Rebuild(Audio)})
  BY <1>1, <1>2, DoTurned DEF IInv, Sequential, DoOps
<1>4. /\ \A y \in T : y \in {For("cascade", Audio), Do("live")}
      /\ Todo = {Do("attachCompanion")} \cup T /\ Todo' = {Rebuild(Audio)} \cup T /\ Lone'
  BY <1>3, AfterFacts DEF Turn
<1>5. Audio \in Kinds /\ Do("attachCompanion") = Attaching(Audio) /\ Do("attachCompanion") \in MakingOf(Audio)
  BY StepFacts DEF Attaching, MakingOf, Screen, Audio
<1>6. Consistent' /\ OneTransceiver' /\ Tracked' /\ Shown' /\ Accompanied' /\ Silent'
  BY <1>2, <1>3, <1>4, <1>5, Given
<1>7. Reasons'
  BY <1>2, <1>4, Fields DEF Sequential, Reasons, linkVars, pubVars, Rebuild
<1> QED
  BY <1>4, <1>6, <1>7 DEF Sequential

LEMMA EnsureDownTrackAlone ==
  ASSUME IInv, Shapes, Sequential, NEW t \in Threads, EnsureDownTrack(t)
  PROVE  Sequential'
<1> DEFINE kind == Head(job[t]).kind
<1>1. kind \in Kinds /\ Head(job[t]) = For("ensure", kind) /\ job[t] # <<>>
  BY ForHead DEF EnsureDownTrack, IInv, ForOps
<1>2. PICK T : (\A y \in T : Follows(For("ensure", kind), y)) /\ Turn(t, {For("ensure", kind)}, T, {})
  BY <1>1, ForDone DEF EnsureDownTrack, IInv, Sequential
<1>3. down' = down \cup Ensured(kind, {t[2]}) /\ UNCHANGED <<linkVars, pubVars, fan, frameVars>>
  BY DEF EnsureDownTrack
<1> HIDE DEF kind
<1>4. /\ \A y \in T : y \in {For("ensure", Audio)} \cup Refilling
      /\ Todo = {For("ensure", kind)} \cup T /\ Todo' = T /\ Lone'
  BY <1>1, <1>2, AfterFacts DEF Turn, Kinds
<1>5. For("ensure", kind) \in MakingOf(kind) /\ For("ensure", kind) # Attaching(kind)
  BY Fields DEF Attaching, MakingOf
<1>6. Rebuild(kind) \in Todo'
  BY <1>1, <1>4, Fields DEF Sequential, Reasons, Rebuild
<1>7. Consistent' /\ OneTransceiver' /\ Tracked' /\ Shown' /\ Accompanied' /\ Silent'
  BY <1>1, <1>2, <1>3, <1>5, <1>6, Given
<1>8. Reasons'
  BY <1>3, <1>4, Fields DEF Sequential, Reasons, linkVars, pubVars, Rebuild, Refilling
<1> QED
  BY <1>4, <1>7, <1>8 DEF Sequential

LEMMA FollowAlone ==
  ASSUME IInv, Shapes, Sequential, NEW t \in Threads, Follow(t)
  PROVE  Sequential'
<1> DEFINE kind == Head(job[t]).kind
<1> DEFINE a == IF On(kind) THEN <<Rebuild(kind)>> ELSE <<>>
<1> DEFINE new == IF On(kind) THEN {Rebuild(kind)} ELSE {}
<1>1. kind \in Kinds /\ Head(job[t]) = For("follow", kind) /\ job[t] # <<>>
  BY ForHead DEF Follow, IInv, ForOps
<1>2. /\ Continue(t, a) /\ down' = down \cup Ensured(kind, {t[2]})
      /\ UNCHANGED <<linkVars, pubVars, fan, frameVars>>
  BY DEF Follow
<1> HIDE DEF kind
<1>3. /\ a \in Seq(Steps) /\ Ordered(a) /\ Members(a) = new
      /\ \A x \in new : \A y : Follows(For("follow", kind), y) => Follows(x, y)
  <2>1. Rebuild(kind) \in Steps
    BY <1>1, Named
  <2>2. \A y : Follows(For("follow", kind), y) => Follows(Rebuild(kind), y)
    <3>1. Follows(Rebuild(Screen), For("follow", Audio))
      BY DEF Follows
    <3>2. kind = Screen \/ kind = Audio
      BY <1>1 DEF Kinds
    <3> QED
      BY <3>1, <3>2, AfterFacts
  <2> QED
    BY <2>1, <2>2, ShortOps, ShortMembers
<1>4. PICK T : (\A y \in T : Follows(For("follow", kind), y)) /\ Turn(t, {For("follow", kind)}, T, new)
  <2> HIDE DEF a, new
  <2>1. \E rest : (\A y \in rest : Follows(For("follow", kind), y)) /\ Turn(t, {For("follow", kind)}, rest, Members(a))
    BY <1>1, <1>2, <1>3, Turned DEF IInv, Sequential
  <2> QED
    BY <1>3, <2>1
<1>5. /\ \A y \in T : y = For("follow", Audio)
      /\ Todo = {For("follow", kind)} \cup T /\ Todo' = new \cup T /\ Lone'
  BY <1>1, <1>4, AfterFacts DEF Turn, Kinds
<1>6. For("follow", kind) \in MakingOf(kind) /\ For("follow", kind) # Attaching(kind) /\ new \subseteq {Rebuild(kind)}
  BY Fields DEF Attaching, MakingOf
<1>7. On(kind) => Rebuild(kind) \in Todo'
  BY <1>5
<1>8. Consistent' /\ OneTransceiver' /\ Tracked' /\ Shown' /\ Accompanied' /\ Silent'
  <2> HIDE DEF a, new
  <2> QED
    BY <1>1, <1>2, <1>4, <1>6, <1>7, Given
<1>9. Reasons'
  BY <1>2, <1>5, Fields DEF Sequential, Reasons, linkVars, pubVars, Rebuild
<1> QED
  BY <1>5, <1>8, <1>9 DEF Sequential

LEMMA DetachAlone ==
  ASSUME IInv, Shapes, Sequential, NEW t \in Threads, Detach(t)
  PROVE  Sequential'
<1> DEFINE kind == Head(job[t]).kind
<1>1. kind \in Kinds /\ Head(job[t]) = For("detach", kind) /\ job[t] # <<>>
  BY ForHead DEF Detach, DetachScreenPublisher, DetachScreenAudioPublisher, IInv, ForOps
<1>2. PICK T : (\A y \in T : Follows(For("detach", kind), y)) /\ Turn(t, {For("detach", kind)}, T, {})
  BY <1>1, ForDone DEF Detach, DetachScreenPublisher, DetachScreenAudioPublisher, IInv, Sequential
<1>3. /\ fan' = [x \in DOMAIN fan |-> IF x \in Fanouts(kind) THEN {} ELSE fan[x]]
      /\ down' = {d \in down : d[1] # kind}
      /\ UNCHANGED <<linkVars, pubVars, frameVars>>
  <2>1. CASE DetachScreenPublisher(t)
    BY <2>1 DEF DetachScreenPublisher, Fanouts, Screen, Audio
  <2>2. CASE DetachScreenAudioPublisher(t)
    BY <2>2 DEF DetachScreenAudioPublisher, Fanouts
  <2> QED
    BY <2>1, <2>2 DEF Detach
<1> HIDE DEF kind
<1>4. /\ \A y \in T : y \in {Do("tellEnded"), Do("reportEnded")} \cup Leaving
      /\ Todo = {For("detach", kind)} \cup T /\ Todo' = T /\ Lone'
  BY <1>1, <1>2, AfterFacts DEF Turn, Kinds
<1>5. UNCHANGED <<life, cap, up, stopped, publishing, tcv, layers, told, cascaded, companion, companionTcv,
                  sinks, watching, unsub, sel>>
  BY <1>3 DEF linkVars, pubVars, frameVars
<1>6. ~On(kind) /\ (kind = Screen \/ kind = Audio) /\ Screen # Audio
  BY <1>1, <1>4 DEF Sequential, Reasons, On, Kinds, Screen, Audio
<1>7. For("detach", kind) \notin Making /\ (For("detach", kind) \in Mending => kind = Audio)
  BY Fields DEF Making, Mending
<1>8. Consistent'
  BY <1>4, <1>5, Fields DEF Sequential, Consistent
<1>9. Reasons'
  BY <1>4, <1>5, Fields DEF Sequential, Reasons, Rebuild, Leaving, Refilling
<1>10. OneTransceiver'
  BY <1>2, <1>5, Keeping, TransceiverKept DEF Sequential
<1>11. \A k \in Kinds : \A v : k # kind => (<<k, v>> \in down' <=> <<k, v>> \in down)
  BY <1>3
<1>12. Tracked'
  BY <1>2, <1>5, <1>6, <1>7, <1>11, Keeping, TrackedKept DEF Sequential, On
<1>13. Silent'
  <2>1. \A x \in Tracks : fan'[x] # {} => fan[x] # {}
    BY <1>3 DEF Shapes
  <2> QED
    BY <1>4, <1>5, <2>1, Fields DEF Sequential, Silent, Filed
<1>14. CASE kind = Screen
  <2>1. Shown'
    BY <1>5, <1>6, <1>14 DEF Shown, On
  <2>2. fan'[None] = fan[None]
    BY <1>3, <1>6, <1>14 DEF Fanouts, LayerTracks, Shapes
  <2>3. Takers(Audio)' = Takers(Audio) /\ \A v \in Viewers : <<Audio, v>> \in down' <=> <<Audio, v>> \in down
    BY <1>5, <1>6, <1>11, <1>14, StepFacts DEF Takers, ShouldForwardScreen
  <2>4. \A x \in Mending : x \in Todo => x \in Todo'
    BY <1>2, <1>6, <1>7, <1>14, Keeping
  <2>5. Accompanied'
    BY <1>5, <2>2, <2>3, <2>4, MendingFacts, RefillsKept DEF Sequential, Accompanied
  <2> QED
    BY <1>4, <1>8, <1>9, <1>10, <1>12, <1>13, <2>1, <2>5 DEF Sequential
<1>15. CASE kind = Audio
  <2>1. ~companion /\ fan'[None] = {} /\ \A v \in Viewers : <<Audio, v>> \notin down'
    BY <1>3, <1>6, <1>15 DEF On, Fanouts, LayerTracks, Shapes
  <2>2. Accompanied'
    BY <1>5, <2>1 DEF Accompanied
  <2>3. \A x \in Tracks : fan'[x] = fan[x]
    BY <1>3, <1>15, NameAssumption DEF Fanouts, LayerTracks, Shapes
  <2>4. Takers(Screen)' = Takers(Screen)
    BY <1>5, <1>6, <1>11, <1>15, StepFacts DEF Takers, ShouldForwardScreen
  <2>5. Refills(Screen) => Refills(Screen)'
    BY <1>4, Fields DEF Refills, Attaching, Rebuild
  <2>6. Shown'
    BY <1>5, <2>3, <2>4, <2>5 DEF Sequential, Shown, Filed, LayerOf
  <2> QED
    BY <1>4, <1>8, <1>9, <1>10, <1>12, <1>13, <2>2, <2>6 DEF Sequential
<1> QED
  BY <1>6, <1>14, <1>15

LEMMA RebuildFanoutAlone ==
  ASSUME IInv, Shapes, Sequential, NEW t \in Threads, RebuildFanout(t)
  PROVE  Sequential'
<1> DEFINE kind == Head(job[t]).kind
           Layer(v) == IF kind = Audio THEN None ELSE LayerOf(v)
<1>1. kind \in Kinds /\ Head(job[t]) = For("rebuild", kind) /\ job[t] # <<>>
  BY ForHead DEF RebuildFanout, RebuildScreenFanout, RebuildScreenAudioFanout, IInv, ForOps
<1>2. PICK T : (\A y \in T : Follows(For("rebuild", kind), y)) /\ Turn(t, {For("rebuild", kind)}, T, {})
  BY <1>1, ForDone DEF RebuildFanout, RebuildScreenFanout, RebuildScreenAudioFanout, IInv, Sequential
<1>3. /\ fan' = [x \in DOMAIN fan |-> IF x \in Fanouts(kind) THEN {v \in Takers(kind) : Layer(v) = x} ELSE fan[x]]
      /\ UNCHANGED <<linkVars, pubVars, down, frameVars>>
  <2>1. CASE RebuildScreenFanout(t)
    BY <2>1 DEF RebuildScreenFanout, Fanouts, LayerOf, Screen, Audio
  <2>2. CASE RebuildScreenAudioFanout(t)
    <3>1. kind = Audio /\ fan' = [fan EXCEPT ![None] = Takers(Audio)]
      BY <2>2 DEF RebuildScreenAudioFanout
    <3>2. Takers(kind) = {v \in Takers(kind) : Layer(v) = None}
      BY <3>1
    <3> QED
      BY <2>2, <3>1, <3>2 DEF RebuildScreenAudioFanout, Fanouts
  <2> QED
    BY <2>1, <2>2 DEF RebuildFanout
<1> HIDE DEF kind
<1>4. /\ \A y \in T : y \in {Rebuild(Audio), For("follow", Audio), For("cascade", Screen),
                             For("cascade", Audio), Do("live")}
      /\ Todo = {Rebuild(kind)} \cup T /\ Todo' = T /\ Lone'
  BY <1>1, <1>2, AfterFacts DEF Turn, Kinds, Rebuild
<1>5. UNCHANGED <<life, cap, up, stopped, publishing, tcv, layers, told, cascaded, companion, companionTcv, down,
                  sinks, watching, unsub, sel>>
  BY <1>3 DEF linkVars, pubVars, frameVars
<1>6. (kind = Screen \/ kind = Audio) /\ Screen # Audio
  BY <1>1 DEF Kinds, Screen, Audio
<1>7. For("rebuild", kind) \notin Making
  BY Fields DEF Making
<1>8. Consistent'
  BY <1>4, <1>5, Fields DEF Sequential, Consistent, Rebuild
<1>9. Reasons'
  BY <1>4, <1>5, Fields DEF Sequential, Reasons, Rebuild
<1>10. OneTransceiver'
  BY <1>2, <1>5, Keeping, TransceiverKept DEF Sequential
<1>11. Tracked'
  BY <1>2, <1>5, <1>7, Keeping, TrackedKept DEF Sequential, On
<1>12. Takers(Screen)' = Takers(Screen) /\ Takers(Audio)' = Takers(Audio) /\ \A v : LayerOf(v)' = LayerOf(v)
  BY <1>5 DEF Takers, ShouldForwardScreen, LayerOf
<1>13. CASE kind = Screen
  <2>1. \A x \in Tracks : Filed(x) => fan'[x] = {v \in Takers(Screen) : LayerOf(v) = x}
    BY <1>3, <1>6, <1>13, NameAssumption DEF Filed, Fanouts, LayerTracks, Shapes
  <2>2. Shown'
    BY <1>5, <1>12, <2>1 DEF Shown, Filed
  <2>3. fan'[None] = fan[None]
    BY <1>3, <1>6, <1>13 DEF Fanouts, LayerTracks, Shapes
  <2>4. Refills(Audio) => Refills(Audio)'
    BY <1>4, <1>6, <1>13, Fields DEF Refills, Attaching, Rebuild
  <2>5. Accompanied'
    BY <1>4, <1>5, <1>12, <2>3, <2>4, Fields DEF Sequential, Accompanied, Rebuild
  <2>6. \A x \in Tracks : fan'[x] # {} => Filed(x) \/ fan[x] # {}
    BY <1>3, <1>6, <1>13 DEF Filed, Fanouts, LayerTracks, Shapes
  <2>7. Silent'
    BY <1>4, <1>5, <2>6, Fields DEF Sequential, Silent, Filed, Rebuild
  <2> QED
    BY <1>4, <1>8, <1>9, <1>10, <1>11, <2>2, <2>5, <2>7 DEF Sequential
<1>14. CASE kind = Audio
  <2>1. fan'[None] = Takers(Audio) /\ \A x \in Tracks : fan'[x] = fan[x]
    BY <1>3, <1>14, NameAssumption DEF Fanouts, LayerTracks, Shapes
  <2>2. Refills(Screen) => Refills(Screen)'
    BY <1>4, <1>6, <1>14, Fields DEF Refills, Attaching, Rebuild
  <2>3. Shown'
    BY <1>5, <1>12, <2>1, <2>2 DEF Sequential, Shown, Filed
  <2>4. ~companion => \A v \in Viewers : <<Audio, v>> \notin down
    BY <1>4, Fields DEF Sequential, Accompanied, Rebuild
  <2>5. ~companion => Takers(Audio) \subseteq {Sink}
    BY <2>4 DEF Takers, Shapes
  <2>6. Accompanied'
    BY <1>4, <1>5, <1>12, <2>1, <2>4, <2>5, Fields DEF Sequential, Accompanied, Rebuild
  <2>7. Silent'
    BY <1>4, <1>5, <2>1, Fields DEF Sequential, Silent, Filed, Rebuild
  <2> QED
    BY <1>4, <1>8, <1>9, <1>10, <1>11, <2>3, <2>6, <2>7 DEF Sequential
<1> QED
  BY <1>6, <1>13, <1>14

\* Whose goroutine admits; nothing about its track is under way yet.
LEMMA Arrived ==
  ASSUME IInv, NEW t \in Threads, NEW op \in {"admit", "admitCompanion"}, At(t, op)
  PROVE  \E x \in Uplinks : /\ t = Track(x) /\ up[x] = "called" /\ ~Owes(x)
                            /\ op = "admit" => x \in Tracks /\ Quality(x) \in Qualities
                            /\ op = "admitCompanion" => x \in Companions
<1>1. job[t] \in Seq(Steps) /\ job[t] # <<>> /\ Head(job[t]).op = op /\ op \in Entering
  BY DEF At, IInv, Types, Entering
<1>2. op \in Ops(job[t]) /\ Tail(job[t]) = <<>>
  BY <1>1, OpsOfTail DEF IInv, Tidy
<1>3. Ops(job[t]) = {op}
  BY <1>1, <1>2, OpsOfTail, ShortOps
<1>4. PICK x \in Uplinks : /\ t = Track(x) /\ up[x] = "called"
                           /\ op = "admit" => x \in Tracks /\ Quality(x) # ""
                           /\ op = "admitCompanion" => x \in Companions
  BY <1>1, <1>3 DEF IInv, Placed
<1>5. ~Owes(x)
  <2>1. op # "live" /\ op # "epilogue"
    OBVIOUS
  <2>2. "live" \notin Ops(job[Track(x)]) /\ "epilogue" \notin Ops(job[Track(x)])
    BY <1>3, <1>4, <2>1, Zenon
  <2>3. up[x] # "live"
    BY <1>4
  <2> QED
    BY <2>2, <2>3 DEF Owes, Runs
<1>6. Quality(x) # "" => Quality(x) \in Qualities
  BY DEF Quality, Qualities
<1> QED
  BY <1>4, <1>5, <1>6

\* A step that has nothing left to do after it, and does not touch the viewers.
LEMMA Turnover ==
  ASSUME IInv, Sequential, NEW t \in Threads, NEW op \in {"admit", "admitCompanion"}, At(t, op),
         NEW a \in Seq(Steps), Continue(t, a), Ordered(a), NEW new, Members(a) = new
  PROVE  Turn(t, {Do(op)}, {}, new)
<1>1. op \in DoOps /\ op \in {"strip", "admit", "admitCompanion", "live", "epilogue"}
  BY DEF DoOps
<1>2. \A y : ~Follows(Do(op), y)
  BY <1>1, AfterFacts
<1>3. PICK T : (\A y \in T : Follows(Do(op), y)) /\ Turn(t, {Do(op)}, T, new)
  BY <1>1, <1>2, DoTurned DEF IInv, Sequential
<1>4. T = {}
  BY <1>2, <1>3
<1> QED
  BY <1>3, <1>4

\* A track that is refused.
LEMMA RefusedAlone ==
  ASSUME IInv, Shapes, Sequential, NEW t \in Threads, NEW op \in {"admit", "admitCompanion"}, At(t, op),
         Continue(t, <<Do("strip")>>), UNCHANGED <<linkVars, pubVars, viewVars, frameVars>>,
         NEW x \in Uplinks, t = Track(x), \A q \in Qualities : layers[q] # None => Tcv(layers[q]) # Tcv(x)
  PROVE  Sequential'
<1> DEFINE a == <<Do("strip")>>
<1>1. a \in Seq(Steps) /\ Ordered(a) /\ Members(a) = {Do("strip")} /\ Continue(t, a)
  BY Named, ShortOps, ShortMembers
<1> HIDE DEF a
<1>2. Turn(t, {Do(op)}, {}, {Do("strip")})
  BY <1>1, Turnover
<1>3. Todo = {Do(op)} /\ Todo' = {Do("strip")} /\ Lone'
  BY <1>2 DEF Turn
<1>4. Do(op) \notin Making /\ Do(op) \notin Mending
  BY Fields DEF Making, Mending
<1>5. Consistent'
  BY <1>3, Fields DEF Sequential, Consistent, linkVars, pubVars
<1>6. Reasons'
  BY <1>3, Fields DEF Reasons, Rebuild
<1>7. OneTransceiver'
  <2>1. /\ \A y \in Uplinks : Track(y) \in Threads /\ (Track(y) = t => y = x)
        /\ \A u \in Threads : Left(u)' = IF u = t THEN {Do("strip")} ELSE {}
    BY <1>2, ThreadFacts DEF Turn
  <2> QED
    BY <2>1, Fields DEF Sequential, OneTransceiver, linkVars, pubVars
<1>8. Tracked'
  BY <1>2, <1>4, Keeping, TrackedKept DEF Sequential, On, linkVars, pubVars, viewVars, frameVars
<1>9. Shown' /\ Accompanied' /\ Silent'
  BY <1>2, <1>4, Keeping, MendingFacts, ShownKept, AccompaniedKept, SilentKept
     DEF Sequential, linkVars, pubVars, viewVars
<1> QED
  BY <1>3, <1>5, <1>6, <1>7, <1>8, <1>9 DEF Sequential

LEMMA JoinsAlone ==
  ASSUME IInv, Shapes, Sequential, Simulcast, NEW t \in Threads, At(t, "admit"),
         Continue(t, <<Rebuild(Screen), Do("live")>>),
         NEW x \in Tracks, Quality(x) \in Qualities, t = Track(x), up[x] = "called",
         publishing, publishing', tcv' = tcv, tcv = Tcv(x), layers' = [layers EXCEPT ![Quality(x)] = x],
         UNCHANGED <<told, cascaded, companion, companionTcv, linkVars, viewVars, frameVars>>
  PROVE  Sequential'
<1> DEFINE a == <<Rebuild(Screen), Do("live")>>
           new == {Rebuild(Screen), Do("live")}
<1>1. a \in Seq(Steps) /\ Ordered(a) /\ Members(a) = new /\ Continue(t, a)
  <2>1. Rebuild(Screen) \in Steps /\ Do("live") \in Steps /\ Follows(Rebuild(Screen), Do("live"))
    BY Named DEF Follows
  <2> QED
    BY <2>1, ShortOps, ShortMembers
<1> HIDE DEF a
<1>2. Turn(t, {Do("admit")}, {}, new)
  <2> HIDE DEF new
  <2> QED
    BY <1>1, Turnover
<1>3. Todo = {Do("admit")} /\ Todo' = new /\ Lone'
  BY <1>2 DEF Turn
<1>4. Do("admit") \notin Making /\ Do("admit") \notin Mending
  BY Fields DEF Making, Mending
<1>5. /\ x # None /\ layers'[Quality(x)] = x
      /\ \A q \in Qualities : layers'[q] = IF q = Quality(x) THEN x ELSE layers[q]
  BY NameAssumption DEF IInv, Types
<1>6. layers' # NoLayers
  BY <1>5 DEF NoLayers
<1>7. Consistent'
  BY <1>3, <1>6, Fields DEF Sequential, Consistent, linkVars, Rebuild
<1>8. Reasons'
  BY <1>3, Fields DEF Reasons, Rebuild
<1>9. Tcv(x) \notin stopped
  BY <1>2 DEF Turn, Sequential, OneTransceiver, Uplinks
<1>10. OneTransceiver'
  <2>1. /\ \A y \in Uplinks : Track(y) \in Threads /\ (Track(y) = t => y = x)
        /\ \A u \in Threads : Left(u)' = IF u = t THEN new ELSE {}
    BY <1>2, ThreadFacts DEF Turn
  <2>2. Do("admit") \notin new /\ Do("strip") \notin new /\ Do("epilogue") \notin new
    BY Fields DEF Rebuild
  <2>3. \A q \in Qualities : layers'[q] # None => Quality(layers'[q]) = q /\ Tcv(layers'[q]) = tcv /\ tcv \notin stopped
    BY <1>5, <1>9 DEF Sequential, OneTransceiver
  <2> HIDE DEF new
  <2> QED
    BY <2>1, <2>2, <2>3 DEF OneTransceiver, linkVars
<1>11. Tracked'
  BY <1>2, <1>4, Keeping, TrackedKept DEF Sequential, On, linkVars, viewVars, frameVars
<1>12. Shown'
  BY <1>3 DEF Shown, Refills
<1>13. Accompanied'
  BY <1>2, <1>4, Keeping, AccompaniedKept DEF Sequential, linkVars, viewVars
<1>14. Silent'
  <2>1. ASSUME NEW y \in Tracks, Filed(y) PROVE Filed(y)'
    <3>1. PICK q \in Qualities : layers[q] = y
      BY <2>1 DEF Filed
    <3>2. y # None
      BY NameAssumption
    <3>3. Quality(y) = q /\ Tcv(y) = Tcv(x)
      BY <3>1, <3>2 DEF Sequential, OneTransceiver
    <3>4. Quality(x) # ""
      BY DEF Qualities
    <3>5. q = Quality(x) => y = x
      BY <3>3, <3>4 DEF Simulcast, Uplinks
    <3> QED
      BY <1>5, <3>1, <3>5 DEF Filed
  <2> QED
    BY <1>3, <2>1, Fields DEF Sequential, Silent, linkVars, viewVars
<1> QED
  BY <1>3, <1>7, <1>8, <1>10, <1>11, <1>12, <1>13, <1>14 DEF Sequential

LEMMA TakesAlone ==
  ASSUME IInv, Shapes, Sequential, NEW t \in Threads, At(t, "admit"), Continue(t, Opening),
         NEW x \in Tracks, Quality(x) \in Qualities, t = Track(x), up[x] = "called",
         ~publishing, publishing', tcv' = Tcv(x), layers' = [layers EXCEPT ![Quality(x)] = x],
         UNCHANGED <<told, cascaded, companion, companionTcv, linkVars, viewVars, frameVars>>
  PROVE  Sequential'
<1> DEFINE new == {Do("announce"), Do("attach"), For("cascade", Screen), Do("live")}
<1>1. Opening \in Seq(Steps) /\ Ordered(Opening) /\ Members(Opening) = new
  <2>1. /\ Do("announce") \in Steps /\ Do("attach") \in Steps
        /\ For("cascade", Screen) \in Steps /\ Do("live") \in Steps
    BY StepFacts DEF DoOps, ForOps
  <2>2. /\ Follows(Do("announce"), Do("attach")) /\ Follows(Do("announce"), For("cascade", Screen))
        /\ Follows(Do("announce"), Do("live")) /\ Follows(Do("attach"), For("cascade", Screen))
        /\ Follows(Do("attach"), Do("live")) /\ Follows(For("cascade", Screen), Do("live"))
    BY Fields DEF Follows
  <2> QED
    BY <2>1, <2>2, ShortMembers, OpeningIsTidy DEF Opening
<1>2. Turn(t, {Do("admit")}, {}, new)
  <2> HIDE DEF new
  <2> QED
    BY <1>1, Turnover
<1>3. Todo = {Do("admit")} /\ Todo' = new /\ Lone'
  BY <1>2 DEF Turn
<1>4. Do("admit") \notin Making /\ Do("admit") \notin Mending
  BY Fields DEF Making, Mending
<1>5. layers = NoLayers /\ cap
  BY <1>3, Fields DEF Sequential, Consistent, Reasons
<1>6. /\ x # None /\ layers'[Quality(x)] = x
      /\ \A q \in Qualities : layers'[q] = IF q = Quality(x) THEN x ELSE None
  BY <1>5, NameAssumption DEF NoLayers
<1>7. layers' # NoLayers
  BY <1>6 DEF NoLayers
<1>8. Consistent'
  BY <1>3, <1>5, <1>7, Fields DEF Sequential, Consistent, linkVars
<1>9. Reasons'
  BY <1>3, Fields DEF Reasons, Rebuild, Screen, Audio
<1>10. OneTransceiver'
  <2>1. /\ \A y \in Uplinks : Track(y) \in Threads /\ (Track(y) = t => y = x)
        /\ \A u \in Threads : Left(u)' = IF u = t THEN new ELSE {}
    BY <1>2, ThreadFacts DEF Turn
  <2>2. Do("admit") \notin new /\ Do("strip") \notin new /\ Do("epilogue") \notin new
    BY Fields
  <2>3. Tcv(x) \notin stopped
    BY <1>2 DEF Turn, Sequential, OneTransceiver, Uplinks
  <2> HIDE DEF new
  <2> QED
    BY <1>6, <2>1, <2>2, <2>3 DEF OneTransceiver, linkVars
<1>11. Tracked'
  <2>1. Attaching(Screen) \in Todo'
    BY <1>3 DEF Attaching
  <2>2. \A kind \in Kinds : On(kind)' => Attaching(kind) \in Todo' \/ On(kind)
    BY <2>1 DEF On, Kinds
  <2> QED
    BY <1>2, <1>4, <2>2, Keeping, TrackedKept DEF Sequential, linkVars, viewVars, frameVars
<1>12. Shown'
  BY <1>3 DEF Shown, Refills, Attaching
<1>13. Accompanied'
  BY <1>2, <1>4, Keeping, AccompaniedKept DEF Sequential, linkVars, viewVars
<1>14. Silent'
  <2>1. \A y \in Tracks : ~Filed(y)
    BY <1>5, NameAssumption DEF Filed, NoLayers
  <2> QED
    BY <1>3, <2>1, Fields DEF Sequential, Silent, linkVars, viewVars
<1> QED
  BY <1>3, <1>8, <1>9, <1>10, <1>11, <1>12, <1>13, <1>14 DEF Sequential

LEMMA AdmitAlone ==
  ASSUME IInv, Shapes, Sequential, Simulcast, NEW t \in Threads, Admit(t)
  PROVE  Sequential'
<1>1. At(t, "admit") /\ UNCHANGED <<told, cascaded, companion, companionTcv, linkVars, viewVars, frameVars>>
  BY DEF Admit
<1>2. PICK x \in Tracks : t = Track(x) /\ up[x] = "called" /\ ~Owes(x) /\ Quality(x) \in Qualities
  BY <1>1, Arrived
<1>3. t[2] = x
  BY <1>2, ThreadFacts
<1>4. CASE publishing /\ (Uplink[x].rid = "" \/ tcv # Tcv(x))
  <2>1. Continue(t, <<Do("strip")>>) /\ UNCHANGED <<linkVars, pubVars, viewVars, frameVars>>
    BY <1>3, <1>4 DEF Admit, pubVars
  <2>2. ASSUME NEW q \in Qualities, layers[q] # None PROVE Tcv(layers[q]) # Tcv(x)
    <3>1. Tcv(layers[q]) = tcv /\ layers[q] \in Tracks
      BY <2>2 DEF Sequential, OneTransceiver, IInv, Types
    <3>2. layers[q] # x
      BY <1>2, <2>2 DEF IInv, LayersOwed
    <3> QED
      BY <1>4, <3>1, <3>2 DEF Simulcast, Uplinks
  <2> QED
    BY <1>1, <1>2, <2>1, <2>2, RefusedAlone DEF Uplinks
<1>5. CASE publishing /\ ~(Uplink[x].rid = "" \/ tcv # Tcv(x))
  BY <1>1, <1>2, <1>3, <1>5, JoinsAlone DEF Admit
<1>6. CASE ~publishing
  BY <1>1, <1>2, <1>3, <1>6, TakesAlone DEF Admit, Opening
<1> QED
  BY <1>4, <1>5, <1>6

LEMMA AdmitCompanionAlone ==
  ASSUME IInv, Shapes, Sequential, Simulcast, NEW t \in Threads, AdmitCompanion(t)
  PROVE  Sequential'
<1>1. /\ At(t, "admitCompanion") /\ companion'
      /\ UNCHANGED <<publishing, tcv, layers, gauge, told, cascaded, companionTcv, linkVars, viewVars, frameVars>>
  BY DEF AdmitCompanion
<1>2. PICK x \in Companions : t = Track(x) /\ up[x] = "called"
  BY <1>1, Arrived
<1>3. CASE companion
  <2>1. companion' = companion
    BY <1>3 DEF AdmitCompanion
  <2>2. Continue(t, <<Do("strip")>>) /\ UNCHANGED <<linkVars, pubVars, viewVars, frameVars>>
    BY <1>1, <1>3, <2>1 DEF AdmitCompanion, pubVars
  <2>3. ASSUME NEW q \in Qualities, layers[q] # None PROVE Tcv(layers[q]) # Tcv(x)
    BY <1>2, <2>3, NameAssumption DEF IInv, Types, Simulcast, Uplinks
  <2> QED
    BY <1>1, <1>2, <2>2, <2>3, RefusedAlone DEF Uplinks
<1>4. CASE ~companion
  <2> DEFINE new == {Do("companionTcv"), Do("attachCompanion"), For("cascade", Audio), Do("live")}
  <2>1. Accompanying \in Seq(Steps) /\ Ordered(Accompanying) /\ Members(Accompanying) = new
    <3>1. /\ Do("companionTcv") \in Steps /\ Do("attachCompanion") \in Steps
          /\ For("cascade", Audio) \in Steps /\ Do("live") \in Steps
      BY StepFacts DEF DoOps, ForOps
    <3>2. /\ Follows(Do("companionTcv"), Do("attachCompanion")) /\ Follows(Do("companionTcv"), For("cascade", Audio))
          /\ Follows(Do("companionTcv"), Do("live")) /\ Follows(Do("attachCompanion"), For("cascade", Audio))
          /\ Follows(Do("attachCompanion"), Do("live")) /\ Follows(For("cascade", Audio), Do("live"))
      BY Fields DEF Follows
    <3> QED
      BY <3>1, <3>2, ShortMembers, AccompanyingOps DEF Accompanying
  <2>2. Continue(t, Accompanying)
    BY <1>4 DEF AdmitCompanion, Accompanying
  <2>3. Turn(t, {Do("admitCompanion")}, {}, new)
    <3> HIDE DEF new
    <3> QED
      BY <1>1, <2>1, <2>2, Turnover
  <2>4. Todo = {Do("admitCompanion")} /\ Todo' = new /\ Lone'
    BY <2>3 DEF Turn
  <2>5. Do("admitCompanion") \notin Making /\ Do("admitCompanion") \notin Mending
    BY Fields DEF Making, Mending
  <2>6. Consistent'
    BY <1>1, <2>4, Fields DEF Sequential, Consistent, linkVars
  <2>7. Reasons'
    BY <1>1, <2>4, Fields DEF Sequential, Reasons, Rebuild, Screen, Audio, linkVars
  <2>8. OneTransceiver'
    <3>1. /\ \A y \in Uplinks : Track(y) \in Threads /\ (Track(y) = t => y = x)
          /\ \A u \in Threads : Left(u)' = IF u = t THEN new ELSE {}
      BY <1>2, <2>3, ThreadFacts DEF Turn
    <3>2. Do("admit") \notin new /\ Do("strip") \notin new /\ Do("epilogue") \notin new
      BY Fields
    <3> HIDE DEF new
    <3> QED
      BY <1>1, <1>2, <3>1, <3>2 DEF Sequential, OneTransceiver, linkVars
  <2>9. Attaching(Audio) \in Todo'
    BY <2>4 DEF Attaching, Screen, Audio
  <2>10. Tracked'
    <3>1. \A kind \in Kinds : On(kind)' => Attaching(kind) \in Todo' \/ On(kind)
      BY <1>1, <2>9 DEF On, Kinds
    <3> QED
      BY <1>1, <2>3, <2>5, <3>1, Keeping, TrackedKept DEF Sequential, linkVars, viewVars, frameVars
  <2>11. Shown' /\ Silent'
    BY <1>1, <2>3, <2>5, Keeping, MendingFacts, ShownKept, SilentKept DEF Sequential, linkVars, viewVars
  <2>12. Accompanied'
    <3>1. cap'
      BY <1>1, <2>4 DEF Sequential, Reasons, linkVars
    <3> QED
      BY <1>1, <2>9, <3>1 DEF Accompanied, Refills, Attaching
  <2> QED
    BY <2>4, <2>6, <2>7, <2>8, <2>10, <2>11, <2>12 DEF Sequential
<1> QED
  BY <1>3, <1>4

-----------------------------------------------------------------------------
(* The operations that begin when nothing is under way                     *)

\* Nothing is left of the operations before.
LEMMA Rested ==
  ASSUME Alone, life = "in", NEW t \in Threads, NEW new, Turn(t, {}, {}, new), ~overlapped
  PROVE  Sequential /\ Todo = {} /\ Todo' = new /\ Lone'
         /\ (publishing => cap /\ layers # NoLayers) /\ (~publishing => layers = NoLayers)
<1>1. Sequential /\ Todo = {} /\ Todo' = new /\ Lone'
  BY DEF Alone, Turn
<1> QED
  BY <1>1 DEF Sequential, Consistent

LEMMA OnTrackAlone ==
  ASSUME IInv, Shapes, Alone, life = "in", NEW x \in Uplinks, OnTrack(x), ~overlapped'
  PROVE  Sequential'
<1> DEFINE op == IF ~cap THEN "strip" ELSE IF x \in Companions THEN "admitCompanion"
                 ELSE IF Quality(x) = "" THEN "live" ELSE "admit"
           s == Do(op)
           a == <<s>>
<1>1. op \in {"strip", "admitCompanion", "live", "admit"} /\ (op = "strip" <=> ~cap)
  OBVIOUS
<1>2. /\ Start(Track(x), a) /\ up[x] = "off" /\ Tcv(x) \notin stopped /\ up' = [up EXCEPT ![x] = "called"]
      /\ UNCHANGED <<life, cap, stopped, pubVars, viewVars, frameVars>>
  BY DEF OnTrack, Track
<1> HIDE DEF op
<1>3. /\ s \in Steps /\ s.op = op
      /\ s \in {Do("strip"), Do("admitCompanion"), Do("live"), Do("admit")}
      /\ (s # Do("strip") => cap) /\ (s = Do("strip") => ~cap)
  BY <1>1, StepFacts, Fields DEF DoOps
<1> HIDE DEF s
<1>4. a \in Seq(Steps) /\ Ordered(a) /\ Members(a) = {s} /\ Track(x) \in Threads
  BY <1>3, ShortOps, ShortMembers, ThreadFacts
<1> HIDE DEF a
<1>5. Turn(Track(x), {}, {}, {s}) /\ ~overlapped
  BY <1>2, <1>4, Begun DEF IInv
<1>6. /\ Sequential /\ Todo = {} /\ Todo' = {s} /\ Lone'
      /\ (publishing => cap) /\ (~publishing => layers = NoLayers)
  BY <1>4, <1>5, Rested
<1>7. Consistent'
  BY <1>2, <1>6 DEF Sequential, Consistent, pubVars
<1>8. Reasons'
  BY <1>2, <1>3, <1>6, Fields DEF Reasons, pubVars, Rebuild
<1>9. OneTransceiver'
  <2>1. /\ \A y \in Uplinks : Track(y) \in Threads /\ (Track(y) = Track(x) => y = x)
        /\ \A u \in Threads : Left(u)' = IF u = Track(x) THEN {s} ELSE {}
    BY <1>5, ThreadFacts DEF Turn
  <2>2. up'[x] = "called"
    BY <1>2 DEF IInv, Types
  <2>3. s = Do("strip") => \A q \in Qualities : layers[q] = None
    BY <1>3, <1>6 DEF NoLayers
  <2>4. s # Do("epilogue")
    BY <1>3, Fields
  <2> QED
    BY <1>2, <1>6, <2>1, <2>2, <2>3, <2>4 DEF Sequential, OneTransceiver, pubVars
<1>10. Tracked'
  BY <1>2, <1>4, <1>5, <1>6, Keeping, TrackedKept DEF Sequential, On, pubVars, viewVars, frameVars
<1>11. Shown' /\ Accompanied'
  BY <1>2, <1>4, <1>5, <1>6, Keeping, ShownKept, AccompaniedKept DEF Sequential, pubVars, viewVars
<1>12. Silent'
  <2>1. \A y \in Tracks : up[y] = "over" => up'[y] = "over"
    BY <1>2 DEF IInv, Types, Uplinks
  <2> QED
    BY <1>2, <1>6, <2>1 DEF Sequential, Silent, Filed, pubVars, viewVars
<1> QED
  BY <1>6, <1>7, <1>8, <1>9, <1>10, <1>11, <1>12 DEF Sequential

LEMMA LoopReturnsAlone ==
  ASSUME IInv, Shapes, Alone, life = "in", NEW x \in Uplinks, LoopReturns(x), ~overlapped'
  PROVE  Sequential'
<1>1. /\ up[x] = "live" /\ up' = [up EXCEPT ![x] = "over"]
      /\ UNCHANGED <<life, cap, stopped, pubVars, viewVars, frameVars>>
  BY DEF LoopReturns
<1>2. /\ \A y \in Uplinks : up[y] = "over" => up'[y] = "over"
      /\ \A y \in Uplinks : y # x => up'[y] = up[y]
      /\ up'[x] = "over"
  BY <1>1 DEF IInv, Types
<1>3. CASE x \in Tracks /\ Quality(x) = ""
  <2>1. UNCHANGED <<job, overlapped>>
    BY <1>3 DEF LoopReturns
  <2>2. Sequential /\ Todo' = Todo /\ \A u : Left(u)' = Left(u)
    BY <2>1 DEF Alone, Todo, Left
  <2>3. Lone'
    BY <2>1, <2>2 DEF Sequential, Lone
  <2>4. Consistent' /\ Reasons'
    BY <1>1, <2>2 DEF Sequential, Consistent, Reasons, pubVars
  <2>5. OneTransceiver'
    BY <1>1, <1>2, <2>2 DEF Sequential, OneTransceiver, pubVars, Uplinks
  <2>6. Tracked'
    BY <1>1, <2>2, TrackedKept DEF Sequential, On, pubVars, viewVars, frameVars
  <2>7. Shown' /\ Accompanied'
    BY <1>1, <2>2, ShownKept, AccompaniedKept DEF Sequential, pubVars, viewVars
  <2>8. Silent'
    BY <1>1, <1>2, <2>2 DEF Sequential, Silent, Filed, pubVars, viewVars, Uplinks
  <2> QED
    BY <2>2, <2>3, <2>4, <2>5, <2>6, <2>7, <2>8 DEF Sequential
<1>4. CASE ~(x \in Tracks /\ Quality(x) = "")
  <2> DEFINE s == Do(IF x \in Tracks THEN "epilogue" ELSE "finishCompanion")
             a == <<s>>
  <2>1. s \in Steps
    BY StepFacts DEF DoOps
  <2>2. Start(Track(x), a)
    BY <1>4 DEF LoopReturns, Track
  <2>3. s = Do("finishCompanion") \/ (s = Do("epilogue") /\ x \in Tracks)
    BY Zenon
  <2> HIDE DEF s
  <2>4. a \in Seq(Steps) /\ Ordered(a) /\ Members(a) = {s} /\ Track(x) \in Threads
    BY <2>1, ShortOps, ShortMembers, ThreadFacts
  <2> HIDE DEF a
  <2>5. Turn(Track(x), {}, {}, {s}) /\ ~overlapped
    BY <2>2, <2>4, Begun DEF IInv
  <2>6. Sequential /\ Todo = {} /\ Todo' = {s} /\ Lone'
    BY <2>4, <2>5, Rested
  <2>7. Consistent'
    BY <1>1, <2>6 DEF Sequential, Consistent, pubVars
  <2>8. Reasons'
    BY <2>3, <2>6, Fields DEF Reasons, Rebuild
  <2>9. OneTransceiver'
    <3>1. /\ \A y \in Uplinks : Track(y) \in Threads
          /\ \A u \in Threads : Left(u)' = IF u = Track(x) THEN {s} ELSE {}
      BY <2>5, ThreadFacts DEF Turn
    <3>2. s # Do("admit") /\ s # Do("strip") /\ s # Do("live") /\ Do("epilogue") # Do("finishCompanion")
      BY <2>3, Fields
    <3> QED
      BY <1>1, <1>2, <2>3, <2>6, <3>1, <3>2 DEF Sequential, OneTransceiver, pubVars
  <2>10. Tracked'
    BY <1>1, <2>4, <2>5, <2>6, Keeping, TrackedKept DEF Sequential, On, pubVars, viewVars, frameVars
  <2>11. Shown' /\ Accompanied'
    BY <1>1, <2>4, <2>5, <2>6, Keeping, ShownKept, AccompaniedKept DEF Sequential, pubVars, viewVars
  <2>12. Silent'
    BY <1>1, <1>2, <2>6 DEF Sequential, Silent, Filed, pubVars, viewVars, Uplinks
  <2> QED
    BY <2>6, <2>7, <2>8, <2>9, <2>10, <2>11, <2>12 DEF Sequential
<1> QED
  BY <1>3, <1>4

\* What viewers and the cascade begin.
Serves == {For(op, kind) : op \in {"ensure", "follow", "rebuild"}, kind \in Kinds}

LEMMA Asks ==
  ASSUME IInv, Shapes, Alone, life = "in", NEW t \in Threads, NEW a \in Seq(Steps), Start(t, a), ~overlapped',
         Ordered(a), NEW new, Members(a) = new, new \subseteq Serves,
         \A kind \in Kinds : For("ensure", kind) \in new => Rebuild(kind) \in new,
         UNCHANGED <<linkVars, pubVars, viewVars>>
  PROVE  /\ Turn(t, {}, {}, new) /\ Sequential /\ Todo = {} /\ Todo' = new
         /\ Lone' /\ Consistent' /\ Reasons' /\ OneTransceiver' /\ Silent'
<1>1. Turn(t, {}, {}, new) /\ ~overlapped
  BY Begun DEF IInv
<1>2. Sequential /\ Todo = {} /\ Todo' = new /\ Lone'
  BY <1>1, Rested
<1>3. UNCHANGED <<life, cap, up, stopped, publishing, tcv, layers, told, cascaded, companion, companionTcv, fan, down>>
  BY DEF linkVars, pubVars, viewVars
<1>4. Consistent'
  BY <1>2, <1>3 DEF Sequential, Consistent
<1>5. \A x \in new : x.op \in {"ensure", "follow", "rebuild"}
  BY Fields DEF Serves
<1>6. Reasons'
  BY <1>2, <1>3, <1>5, Fields DEF Reasons, Rebuild
<1>7. OneTransceiver'
  <2>1. \A x \in Uplinking : x \notin new
    BY <1>5, Fields DEF Uplinking
  <2> QED
    BY <1>1, <1>2, <1>3, <2>1, Keeping, TransceiverKept DEF Sequential
<1>8. Silent'
  BY <1>2, <1>3, SilentKept DEF Sequential
<1> QED
  BY <1>1, <1>2, <1>4, <1>6, <1>7, <1>8

LEMMA ServesFacts ==
  /\ \A kind \in Kinds : {For("ensure", kind), For("follow", kind), Rebuild(kind)} \subseteq Serves \cap Steps
  /\ Screen \in Kinds /\ Audio \in Kinds /\ Screen # Audio
  /\ Follows(For("ensure", Screen), For("ensure", Audio)) /\ Follows(For("follow", Screen), For("follow", Audio))
  /\ Follows(Rebuild(Screen), Rebuild(Audio))
  /\ \A kind \in Kinds, k \in Kinds : Follows(For("ensure", kind), Rebuild(k))
<1>1. /\ \A kind \in Kinds : {For("ensure", kind), For("follow", kind), Rebuild(kind)} \subseteq Serves
      /\ Screen # Audio
  BY DEF Serves, Rebuild, Screen, Audio
<1>2. /\ Follows(For("ensure", Screen), For("ensure", Audio)) /\ Follows(For("follow", Screen), For("follow", Audio))
      /\ Follows(Rebuild(Screen), Rebuild(Audio))
      /\ \A kind \in Kinds, k \in Kinds : Follows(For("ensure", kind), Rebuild(k))
  BY DEF Follows, Refilling, Kinds
<1> QED
  BY <1>1, <1>2, Named

LEMMA ConnectedAlone ==
  ASSUME IInv, Shapes, Alone, life = "in", NEW v \in Viewers, Connected(v), ~overlapped'
  PROVE  Sequential'
<1> DEFINE t == <<"connect", v>>
           a == <<For("follow", Screen), For("follow", Audio)>>
           new == {For("follow", Screen), For("follow", Audio)}
<1>1. /\ v \notin watching /\ watching' = watching \cup {v} /\ Start(t, a)
      /\ UNCHANGED <<sinks, unsub, sel, linkVars, pubVars, viewVars>>
  BY DEF Connected
<1>2. a \in Seq(Steps) /\ Ordered(a) /\ Members(a) = new /\ new \subseteq Serves /\ t \in Threads
  <2>1. /\ For("follow", Screen) \in Serves \cap Steps /\ For("follow", Audio) \in Serves \cap Steps
        /\ Follows(For("follow", Screen), For("follow", Audio))
    BY ServesFacts
  <2>2. a \in Seq(Steps)
    BY <2>1, ShortOps
  <2>3. Ordered(a) /\ Members(a) = new
    BY <2>1, ShortMembers
  <2>4. t \in Threads
    BY ThreadFacts
  <2> QED
    BY <2>1, <2>2, <2>3, <2>4
<1>3. \A kind \in Kinds : For("ensure", kind) \notin new
  BY Fields
<1>4. For("follow", Screen) \in new /\ For("follow", Audio) \in new
  OBVIOUS
<1> HIDE DEF a, new
<1>5. /\ Turn(t, {}, {}, new) /\ Sequential /\ Todo = {} /\ Todo' = new
      /\ Lone' /\ Consistent' /\ Reasons' /\ OneTransceiver' /\ Silent'
  BY <1>1, <1>2, <1>3, Asks
<1>6. Tracked'
  <2> SUFFICES ASSUME NEW kind \in Kinds, NEW w \in watching', On(kind), cap, w \notin unsub,
                      kind = Audio => companionTcv # 0
               PROVE  Provided(kind, w)'
    BY <1>1 DEF Tracked, On, linkVars, pubVars
  <2>1. CASE w = v
    <3>1. For("follow", kind) \in Left(t)'
      BY <1>2, <1>4, <1>5 DEF Turn, Kinds
    <3> QED
      BY <2>1, <3>1 DEF Provided
  <2>2. CASE w # v
    <3>1. w \in watching /\ w \in Viewers
      BY <1>1, <2>2 DEF Shapes
    <3>2. Provided(kind, w)
      BY <1>5, <3>1 DEF Sequential, Tracked
    <3>3. \A u \in Threads : \A x : x \in Left(u) => x \in Left(u)'
      BY <1>5 DEF Turn
    <3>4. down' = down
      BY <1>1 DEF viewVars
    <3> QED
      BY <3>1, <3>2, <3>3, <3>4, ProvidedKept
  <2> QED
    BY <2>1, <2>2
<1>7. Shown' /\ Accompanied'
  BY <1>1, <1>4, <1>5 DEF Sequential, Shown, Accompanied, Refills, linkVars, pubVars, viewVars
<1> QED
  BY <1>5, <1>6, <1>7 DEF Sequential

LEMMA SetSubscriptionAlone ==
  ASSUME IInv, Shapes, Alone, life = "in", NEW v \in Viewers, NEW want \in BOOLEAN, SetSubscription(v, want),
         ~overlapped'
  PROVE  Sequential'
<1> DEFINE t == <<"loop", v>>
           b == <<For("ensure", Screen), For("ensure", Audio)>>
           a == IF want THEN b \o RebuildBoth ELSE RebuildBoth
           new == IF want THEN {For("ensure", Screen), For("ensure", Audio), Rebuild(Screen), Rebuild(Audio)}
                  ELSE {Rebuild(Screen), Rebuild(Audio)}
<1>1. /\ v \in watching /\ unsub' = IF want THEN unsub \ {v} ELSE unsub \cup {v}
      /\ Start(t, a) /\ UNCHANGED <<sinks, watching, sel, linkVars, pubVars, viewVars>>
  BY DEF SetSubscription
<1>2. a \in Seq(Steps) /\ Ordered(a) /\ Members(a) = new
  <2>1. RebuildBoth \in Seq(Steps) /\ Ordered(RebuildBoth) /\ Members(RebuildBoth) = {Rebuild(Screen), Rebuild(Audio)}
    BY ServesFacts, ShortOps, ShortMembers DEF RebuildBoth
  <2>2. b \in Seq(Steps) /\ Ordered(b) /\ Members(b) = {For("ensure", Screen), For("ensure", Audio)}
    BY ServesFacts, ShortOps, ShortMembers
  <2> HIDE DEF b
  <2>3. \A x \in Members(b), y \in Members(RebuildBoth) : Follows(x, y)
    BY <2>1, <2>2, ServesFacts
  <2>4. /\ b \o RebuildBoth \in Seq(Steps) /\ Ordered(b \o RebuildBoth)
        /\ Members(b \o RebuildBoth) = Members(b) \cup Members(RebuildBoth)
    BY <2>1, <2>2, <2>3, MembersOfConcat
  <2> QED
    BY <2>1, <2>2, <2>4
<1>3. /\ new \subseteq Serves /\ t \in Threads /\ Rebuild(Screen) \in new /\ Rebuild(Audio) \in new
      /\ want => \A kind \in Kinds : For("ensure", kind) \in new
  BY ServesFacts, ThreadFacts DEF Kinds
<1> HIDE DEF a, new
<1>4. /\ Turn(t, {}, {}, new) /\ Sequential /\ Todo = {} /\ Todo' = new
      /\ Lone' /\ Consistent' /\ Reasons' /\ OneTransceiver' /\ Silent'
  BY <1>1, <1>2, <1>3, Asks DEF Kinds
<1>5. Tracked'
  <2> SUFFICES ASSUME NEW kind \in Kinds, NEW w \in watching, On(kind), cap, w \notin unsub',
                      kind = Audio => companionTcv # 0
               PROVE  Provided(kind, w)'
    BY <1>1 DEF Tracked, On, linkVars, pubVars
  <2>1. CASE w = v /\ want
    <3>1. For("ensure", kind) \in Left(t)'
      BY <1>3, <1>4, <2>1 DEF Turn
    <3> QED
      BY <2>1, <3>1 DEF Provided
  <2>2. CASE ~(w = v /\ want)
    <3>1. w \notin unsub /\ w \in Viewers
      BY <1>1, <2>2 DEF Shapes
    <3>2. Provided(kind, w)
      BY <1>4, <3>1 DEF Sequential, Tracked
    <3>3. \A u \in Threads : \A x : x \in Left(u) => x \in Left(u)'
      BY <1>4 DEF Turn
    <3>4. down' = down
      BY <1>1 DEF viewVars
    <3> QED
      BY <3>1, <3>2, <3>3, <3>4, ProvidedKept
  <2> QED
    BY <2>1, <2>2
<1>6. Shown' /\ Accompanied'
  BY <1>1, <1>3, <1>4 DEF Sequential, Shown, Accompanied, Refills, linkVars, pubVars, viewVars
<1> QED
  BY <1>4, <1>5, <1>6 DEF Sequential

LEMMA SetScreenLayerAlone ==
  ASSUME IInv, Shapes, Alone, life = "in", NEW v \in Viewers, NEW q \in Asked, SetScreenLayer(v, q), ~overlapped'
  PROVE  Sequential'
<1> DEFINE t == <<"loop", v>>
           a == IF publishing THEN <<Rebuild(Screen)>> ELSE <<>>
           new == IF publishing THEN {Rebuild(Screen)} ELSE {}
<1>1. Start(t, a) /\ UNCHANGED <<sinks, watching, unsub, linkVars, pubVars, viewVars>>
  BY DEF SetScreenLayer
<1>2. a \in Seq(Steps) /\ Ordered(a) /\ Members(a) = new /\ new \subseteq Serves /\ t \in Threads
  BY ServesFacts, ShortOps, ShortMembers, ThreadFacts
<1>3. \A kind \in Kinds : For("ensure", kind) \notin new
  BY Fields DEF Rebuild
<1>4. publishing => Rebuild(Screen) \in new
  OBVIOUS
<1> HIDE DEF a, new
<1>5. /\ Turn(t, {}, {}, new) /\ Sequential /\ Todo = {} /\ Todo' = new
      /\ Lone' /\ Consistent' /\ Reasons' /\ OneTransceiver' /\ Silent'
  BY <1>1, <1>2, <1>3, Asks
<1>6. Tracked'
  BY <1>1, <1>2, <1>5, Keeping, TrackedKept DEF Sequential, On, linkVars, pubVars, viewVars
<1>7. Shown'
  BY <1>1, <1>4, <1>5 DEF Shown, Refills, pubVars
<1>8. Accompanied'
  <2>1. Takers(Audio)' = Takers(Audio) /\ ~Refills(Audio)
    BY <1>1, <1>5 DEF Takers, ShouldForwardScreen, Refills, linkVars, viewVars
  <2> QED
    BY <1>1, <1>5, <2>1 DEF Sequential, Accompanied, linkVars, pubVars, viewVars
<1> QED
  BY <1>5, <1>6, <1>7, <1>8 DEF Sequential

LEMMA ChangeSinkAlone ==
  ASSUME IInv, Shapes, Alone, life = "in", NEW kind \in SinkKinds, ChangeSink(kind), ~overlapped'
  PROVE  Sequential'
<1> DEFINE a == <<Rebuild(kind)>>
           new == {Rebuild(kind)}
<1>1. kind \in Kinds /\ (kind = Screen \/ kind = Audio)
  BY NameAssumption DEF Kinds, Screen, Audio
<1>2. /\ Start(Cascade, a) /\ UNCHANGED <<watching, unsub, sel, linkVars, pubVars, viewVars>>
      /\ sinks' = IF kind \in sinks THEN sinks \ {kind} ELSE sinks \cup {kind}
  BY DEF ChangeSink
<1>3. a \in Seq(Steps) /\ Ordered(a) /\ Members(a) = new /\ new \subseteq Serves /\ Cascade \in Threads
  BY <1>1, ServesFacts, ShortOps, ShortMembers, ThreadFacts
<1>4. \A k \in Kinds : For("ensure", k) \notin new
  BY Fields DEF Rebuild
<1>5. Rebuild(kind) \in new
  OBVIOUS
<1> HIDE DEF a, new
<1>6. /\ Turn(Cascade, {}, {}, new) /\ Sequential /\ Todo = {} /\ Todo' = new
      /\ Lone' /\ Consistent' /\ Reasons' /\ OneTransceiver' /\ Silent'
  BY <1>2, <1>3, <1>4, Asks
<1>7. Tracked'
  BY <1>2, <1>3, <1>6, Keeping, TrackedKept DEF Sequential, On, linkVars, pubVars, viewVars
<1>8. \A k \in Kinds : k # kind => Takers(k)' = Takers(k) /\ ~Refills(k)
  BY <1>2, <1>6 DEF Takers, ShouldForwardScreen, Refills, linkVars, viewVars
<1>9. Shown'
  <2>1. CASE kind = Screen
    BY <2>1, <1>5, <1>6 DEF Shown, Refills
  <2>2. CASE kind # Screen
    BY <2>2, <1>2, <1>6, <1>8, ServesFacts DEF Sequential, Shown, Filed, LayerOf, linkVars, pubVars, viewVars
  <2> QED
    BY <2>1, <2>2
<1>10. Accompanied'
  <2>1. companion /\ cap => Refills(Audio)' \/ fan[None] = Takers(Audio)'
    <3>1. CASE kind = Audio
      BY <3>1, <1>5, <1>6 DEF Refills
    <3>2. CASE kind # Audio
      BY <3>2, <1>6, <1>8, ServesFacts DEF Sequential, Accompanied
    <3> QED
      BY <3>1, <3>2
  <2> QED
    BY <1>2, <1>6, <2>1 DEF Sequential, Accompanied, linkVars, pubVars, viewVars
<1> QED
  BY <1>6, <1>7, <1>9, <1>10 DEF Sequential

LEMMA ApplyCapsAlone ==
  ASSUME IInv, Shapes, Alone, life = "in", NEW may \in BOOLEAN, ApplyCaps(may), ~overlapped'
  PROVE  Sequential'
<1> DEFINE b == IF cap /\ ~may THEN Withdrawal ELSE <<>>
           c == IF cap /\ ~may THEN {Do("finish"), Do("stopUplink"), Do("stopCompanion")} ELSE {}
           a == b \o RebuildBoth
           new == c \cup {Rebuild(Screen), Rebuild(Audio)}
<1>1. /\ cap' = may /\ Start(Control, a)
      /\ UNCHANGED <<life, up, stopped, pubVars, viewVars, frameVars>>
  BY DEF ApplyCaps
<1>2. a \in Seq(Steps) /\ Ordered(a) /\ Members(a) = new
  <2>1. RebuildBoth \in Seq(Steps) /\ Ordered(RebuildBoth) /\ Members(RebuildBoth) = {Rebuild(Screen), Rebuild(Audio)}
    BY ServesFacts, ShortOps, ShortMembers DEF RebuildBoth
  <2>2. b \in Seq(Steps) /\ Ordered(b) /\ Members(b) = c
    <3>1. /\ Do("finish") \in Steps /\ Do("stopUplink") \in Steps /\ Do("stopCompanion") \in Steps
          /\ Follows(Do("finish"), Do("stopUplink")) /\ Follows(Do("finish"), Do("stopCompanion"))
          /\ Follows(Do("stopUplink"), Do("stopCompanion"))
      BY Named, StopNamed, Fields DEF Follows, Leaving
    <3>2. /\ Withdrawal \in Seq(Steps) /\ Ordered(Withdrawal)
          /\ Members(Withdrawal) = {Do("finish"), Do("stopUplink"), Do("stopCompanion")}
      BY <3>1, TripleOps, TripleMembers DEF Withdrawal
    <3>3. <<>> \in Seq(Steps) /\ Ordered(<<>>) /\ Members(<<>>) = {}
      BY ShortOps, ShortMembers
    <3> QED
      BY <3>2, <3>3
  <2>3. \A x \in c, y \in {Rebuild(Screen), Rebuild(Audio)} : Follows(x, y)
    BY Fields DEF Follows, Leaving, Refilling
  <2> HIDE DEF b, c
  <2>4. \A x \in Members(b), y \in Members(RebuildBoth) : Follows(x, y)
    BY <2>1, <2>2, <2>3
  <2>5. /\ b \o RebuildBoth \in Seq(Steps) /\ Ordered(b \o RebuildBoth)
        /\ Members(b \o RebuildBoth) = Members(b) \cup Members(RebuildBoth)
    BY <2>1, <2>2, <2>4, MembersOfConcat
  <2> QED
    BY <2>1, <2>2, <2>5
<1>3. Control \in Threads
  BY ThreadFacts
<1> HIDE DEF a
<1>4. Turn(Control, {}, {}, new) /\ ~overlapped
  <2> HIDE DEF new
  <2> QED
    BY <1>1, <1>2, <1>3, Begun DEF IInv
<1>5. /\ Sequential /\ Todo = {} /\ Todo' = new /\ Lone' /\ (publishing => cap) /\ (~publishing => layers = NoLayers)
  BY <1>3, <1>4, Rested
<1>6. UNCHANGED <<up, stopped, publishing, tcv, layers, told, cascaded, companion, companionTcv,
                  fan, down, watching, unsub>>
  BY <1>1 DEF pubVars, viewVars, frameVars
<1>7. Consistent'
  BY <1>1, <1>5, <1>6 DEF Sequential, Consistent
<1>8. Reasons'
  BY <1>1, <1>5, <1>6, Fields DEF Reasons, Rebuild
<1>9. OneTransceiver'
  <2>1. \A x \in Uplinking : x \notin new
    BY Fields DEF Uplinking, Rebuild
  <2> QED
    BY <1>3, <1>4, <1>5, <1>6, <2>1, Keeping, TransceiverKept DEF Sequential
<1>10. ~cap => ~companion \/ companionTcv = 0
  BY <1>5 DEF Sequential, Accompanied
<1>11. Tracked'
  <2>1. CASE cap
    BY <2>1, <1>3, <1>4, <1>5, <1>6, Keeping, TrackedKept DEF Sequential, On
  <2>2. CASE ~cap
    BY <2>2, <1>5, <1>6, <1>10 DEF Tracked, On, Kinds
  <2> QED
    BY <2>1, <2>2
<1>12. Shown'
  BY <1>5 DEF Shown, Refills
<1>13. Accompanied'
  BY <1>1, <1>5, <1>6, <1>10 DEF Sequential, Accompanied, Refills
<1>14. Silent'
  BY <1>5, <1>6, SilentKept DEF Sequential
<1> QED
  BY <1>5, <1>7, <1>8, <1>9, <1>11, <1>12, <1>13, <1>14 DEF Sequential

-----------------------------------------------------------------------------
(* The theorem                                                             *)

LEMMA FansOf ==
  ASSUME Shapes, NEW kind
  PROVE  Takers(kind) \subseteq Viewers \cup {Sink}
BY DEF Takers, Shapes

LEMMA ShapesKept ==
  ASSUME IInv, Shapes, [Next]_vars
  PROVE  Shapes'
<1> USE DEF Shapes
<1>1. CASE UNCHANGED vars \/ Gone
  BY <1>1 DEF Gone, vars, linkVars, pubVars, viewVars, frameVars
<1>2. CASE Close
  BY <1>2 DEF Close, pubVars, viewVars, frameVars
<1>3. ASSUME NEW t \in Threads, Step(t) PROVE Shapes'
  <2>1. CASE Strip(t)
    BY <2>1 DEF Strip, pubVars, viewVars, frameVars
  <2>2. CASE Admit(t)
    <3>1. PICK x \in Tracks : t = Track(x)
      BY <2>2, Arrived DEF Admit
    <3>2. Tcv(t[2]) \in Nat
      BY <3>1, ThreadFacts, UplinkAssumption DEF Tcv
    <3>3. tcv' \in Nat
      BY <2>2, <3>2 DEF Admit
    <3> QED
      BY <2>2, <3>3 DEF Admit, linkVars, viewVars, frameVars
  <2>3. CASE Announce(t) \/ CascadePublish(t) \/ AdmitCompanion(t) \/ StoreCompanionTcv(t) \/ Uncount(t)
             \/ Epilogue(t) \/ Finish(t) \/ ClearLayers(t) \/ ReportEnded(t) \/ FinishCompanion(t)
    BY <2>3 DEF Announce, CascadePublish, AdmitCompanion, StoreCompanionTcv, Uncount, Epilogue, Finish,
                ClearLayers, ReportEnded, FinishCompanion, linkVars, viewVars, frameVars
  <2>4. CASE StartLoop(t) \/ TellEnded(t) \/ RemoveParticipant(t)
    BY <2>4 DEF StartLoop, TellEnded, RemoveParticipant, linkVars, pubVars, viewVars, frameVars
  <2>5. CASE StopScreenUplink(t) \/ StopScreenAudioUplink(t)
    BY <2>5 DEF StopScreenUplink, StopScreenAudioUplink, viewVars, frameVars
  <2>6. CASE EndCompanion(t)
    BY <2>6 DEF EndCompanion, linkVars, frameVars
  <2>7. ASSUME NEW kind \in Kinds, NEW who, down' = down \cup Ensured(kind, who),
               UNCHANGED <<linkVars, pubVars, fan, frameVars>>
        PROVE  Shapes'
    BY <2>7 DEF Ensured, linkVars, pubVars, frameVars
  <2>8. CASE AttachScreen(t) \/ AttachCompanion(t)
    BY <2>7, <2>8, StepFacts DEF AttachScreen, AttachCompanion, Attach
  <2>9. CASE EnsureDownTrack(t)
    <3>1. Head(job[t]).kind \in Kinds
      BY <2>9, ForHead DEF EnsureDownTrack, IInv, ForOps
    <3> QED
      BY <2>7, <2>9, <3>1 DEF EnsureDownTrack
  <2>10. CASE Follow(t)
    <3>1. Head(job[t]).kind \in Kinds
      BY <2>10, ForHead DEF Follow, IInv, ForOps
    <3> QED
      BY <2>7, <2>10, <3>1 DEF Follow
  <2>11. CASE Detach(t)
    BY <2>11 DEF Detach, DetachScreenPublisher, DetachScreenAudioPublisher, linkVars, pubVars, frameVars
  <2>12. CASE RebuildFanout(t)
    <3>1. fan' \in [Tracks \cup {None} -> SUBSET (Viewers \cup {Sink})]
      BY <2>12, FansOf DEF RebuildFanout, RebuildScreenFanout, RebuildScreenAudioFanout
    <3> QED
      BY <2>12, <3>1 DEF RebuildFanout, RebuildScreenFanout, RebuildScreenAudioFanout, linkVars, pubVars, frameVars
  <2> QED
    BY <1>3, <2>1, <2>2, <2>3, <2>4, <2>5, <2>6, <2>8, <2>9, <2>10, <2>11, <2>12 DEF Step, Detach, RebuildFanout
<1>4. ASSUME NEW x \in Uplinks, OnTrack(x) \/ LoopReturns(x) PROVE Shapes'
  BY <1>4 DEF OnTrack, LoopReturns, pubVars, viewVars, frameVars
<1>5. ASSUME NEW v \in Viewers, Connected(v) PROVE Shapes'
  BY <1>5 DEF Connected, linkVars, pubVars, viewVars
<1>6. ASSUME NEW v \in Viewers, NEW want \in BOOLEAN, SetSubscription(v, want) PROVE Shapes'
  BY <1>6 DEF SetSubscription, linkVars, pubVars, viewVars
<1>7. ASSUME NEW v \in Viewers, NEW q \in Asked, SetScreenLayer(v, q) PROVE Shapes'
  BY <1>7, NameAssumption DEF SetScreenLayer, linkVars, pubVars, viewVars, Qualities
<1>8. ASSUME NEW new \in BOOLEAN, ApplyCaps(new) PROVE Shapes'
  BY <1>8 DEF ApplyCaps, pubVars, viewVars, frameVars
<1>9. ASSUME NEW kind \in SinkKinds, ChangeSink(kind) PROVE Shapes'
  BY <1>9 DEF ChangeSink, linkVars, pubVars, viewVars
<1> QED
  BY <1>1, <1>2, <1>3, <1>4, <1>5, <1>6, <1>7, <1>8, <1>9 DEF Next

LEMMA AloneInitially ==
  ASSUME Init
  PROVE  Shapes /\ Alone
<1>1. Shapes
  BY DEF Init, Shapes, Qualities
<1>2. (\A t \in Threads : job[t] = <<>> /\ Left(t) = {}) /\ Todo = {}
  BY ShortMembers DEF Init, Left, Todo
<1>3. Lone
  BY <1>2, ShortMembers DEF Lone
<1>4. Consistent /\ Reasons
  BY <1>2 DEF Init, Consistent, Reasons
<1>5. OneTransceiver
  <2>1. \A x \in Uplinks : Track(x) \in Threads
    BY ThreadFacts
  <2> QED
    BY <1>2, <2>1 DEF Init, OneTransceiver, NoLayers
<1>6. Tracked /\ Shown /\ Silent
  BY DEF Init, Tracked, Shown, Silent
<1>7. Accompanied
  BY DEF Init, Accompanied
<1> QED
  BY <1>1, <1>3, <1>4, <1>5, <1>6, <1>7 DEF Alone, Sequential

LEMMA AloneKept ==
  ASSUME Simulcast, IInv, Shapes, Alone, [Next]_vars
  PROVE  Alone'
<1> SUFFICES ASSUME ~overlapped', life' = "in" PROVE Sequential'
  BY DEF Alone
<1>1. CASE UNCHANGED vars \/ Gone
  <2>1. UNCHANGED <<life, cap, up, stopped, publishing, tcv, layers, told, cascaded, companion, companionTcv, fan, down,
                    sinks, watching, unsub, sel, job, overlapped>>
    BY <1>1 DEF Gone, vars, linkVars, pubVars, viewVars, frameVars
  <2>2. Sequential /\ Todo' = Todo /\ \A u : Left(u)' = Left(u)
    BY <2>1 DEF Alone, Todo, Left
  <2>3. Lone' /\ Consistent' /\ Reasons' /\ OneTransceiver'
    BY <2>1, <2>2 DEF Sequential, Lone, Consistent, Reasons, OneTransceiver
  <2>4. Tracked' /\ Shown' /\ Accompanied' /\ Silent'
    BY <2>1, <2>2, TrackedKept, ShownKept, AccompaniedKept, SilentKept DEF Sequential, On, frameVars
  <2> QED
    BY <2>3, <2>4 DEF Sequential
<1>2. CASE Close
  BY <1>2 DEF Close
<1>3. ASSUME NEW t \in Threads, Step(t) PROVE Sequential'
  <2>1. CASE RemoveParticipant(t)
    BY <2>1 DEF RemoveParticipant
  <2>2. CASE ~RemoveParticipant(t)
    <3>1. life = "in" /\ ~overlapped
      <4>1. CASE \/ Admit(t) \/ Announce(t) \/ CascadePublish(t) \/ AdmitCompanion(t) \/ StoreCompanionTcv(t)
                 \/ Epilogue(t) \/ Finish(t) \/ ClearLayers(t) \/ Uncount(t) \/ ReportEnded(t) \/ FinishCompanion(t)
        <5>1. UNCHANGED linkVars /\ UNCHANGED overlapped
          BY <4>1 DEF Admit, Announce, CascadePublish, AdmitCompanion, StoreCompanionTcv, Epilogue, Finish,
                      ClearLayers, Uncount, ReportEnded, FinishCompanion, Continue
        <5> QED
          BY <5>1 DEF linkVars
      <4>2. CASE Strip(t) \/ StartLoop(t) \/ StopScreenUplink(t) \/ StopScreenAudioUplink(t)
        BY <4>2 DEF Strip, StartLoop, StopScreenUplink, StopScreenAudioUplink, Continue
      <4>3. CASE \/ TellEnded(t) \/ EndCompanion(t) \/ AttachScreen(t) \/ AttachCompanion(t)
                 \/ EnsureDownTrack(t) \/ Follow(t) \/ Detach(t) \/ RebuildFanout(t)
        <5>1. UNCHANGED linkVars /\ UNCHANGED overlapped
          BY <4>3 DEF TellEnded, EndCompanion, AttachScreen, AttachCompanion, Attach, EnsureDownTrack, Follow,
                      Detach, DetachScreenPublisher, DetachScreenAudioPublisher,
                      RebuildFanout, RebuildScreenFanout, RebuildScreenAudioFanout, Continue
        <5> QED
          BY <5>1 DEF linkVars
      <4> QED
        BY <1>3, <2>2, <4>1, <4>2, <4>3 DEF Step, Detach, RebuildFanout
    <3>2. Sequential
      BY <3>1 DEF Alone
    <3> QED
      BY <1>3, <2>2, <3>1, <3>2, StripAlone, AdmitAlone, AnnounceAlone, CascadeAlone, AdmitCompanionAlone,
         StoreCompanionTcvAlone, StartLoopAlone, EpilogueAlone, FinishAlone, ClearLayersAlone, UncountAlone,
         TellEndedAlone, ReportEndedAlone, FinishCompanionAlone, EndCompanionAlone, StopScreenUplinkAlone,
         StopScreenAudioUplinkAlone,
         AttachScreenAlone, AttachCompanionAlone, EnsureDownTrackAlone, FollowAlone, DetachAlone, RebuildFanoutAlone
         DEF Step, Detach, RebuildFanout
  <2> QED
    BY <2>1, <2>2
<1>4. ASSUME NEW x \in Uplinks, OnTrack(x) \/ LoopReturns(x) PROVE Sequential'
  <2>1. life = "in"
    BY <1>4 DEF OnTrack, LoopReturns
  <2> QED
    BY <1>4, <2>1, OnTrackAlone, LoopReturnsAlone
<1>5. ASSUME NEW v \in Viewers, Connected(v) PROVE Sequential'
  <2>1. life = "in"
    BY <1>5 DEF Connected, linkVars
  <2> QED
    BY <1>5, <2>1, ConnectedAlone
<1>6. ASSUME NEW v \in Viewers, NEW want \in BOOLEAN, SetSubscription(v, want) PROVE Sequential'
  <2>1. life = "in"
    BY <1>6 DEF SetSubscription, linkVars
  <2> QED
    BY <1>6, <2>1, SetSubscriptionAlone
<1>7. ASSUME NEW v \in Viewers, NEW q \in Asked, SetScreenLayer(v, q) PROVE Sequential'
  <2>1. life = "in"
    BY <1>7 DEF SetScreenLayer, linkVars
  <2> QED
    BY <1>7, <2>1, SetScreenLayerAlone
<1>8. ASSUME NEW new \in BOOLEAN, ApplyCaps(new) PROVE Sequential'
  <2>1. life = "in"
    BY <1>8 DEF ApplyCaps
  <2> QED
    BY <1>8, <2>1, ApplyCapsAlone
<1>9. ASSUME NEW kind \in SinkKinds, ChangeSink(kind) PROVE Sequential'
  <2>1. life = "in"
    BY <1>9 DEF ChangeSink, linkVars
  <2> QED
    BY <1>9, <2>1, ChangeSinkAlone
<1> QED
  BY <1>1, <1>2, <1>3, <1>4, <1>5, <1>6, <1>7, <1>8, <1>9 DEF Next

\* The layer that is picked, when there is one.
LEMMA Picked ==
  ASSUME Types, NEW want \in Qualities
  PROVE  LET p == PickScreenLayer(layers, want)
         IN  layers # NoLayers => p \in Tracks /\ Filed(p)
<1>1. "high" \in Qualities /\ "medium" \in Qualities /\ "low" \in Qualities
  BY DEF Qualities
<1>2. layers # NoLayers => layers["high"] # None \/ layers["medium"] # None \/ layers["low"] # None
  BY DEF NoLayers, Types, Qualities
<1> QED
  BY <1>1, <1>2, NameAssumption DEF PickScreenLayer, Filed, Types

LEMMA ExactWhenAlone ==
  ASSUME IInv, Shapes, Alone
  PROVE  ScreenExactAlone
<1> SUFFICES ASSUME Quiet, life = "in", ~overlapped
             PROVE  /\ publishing = (layers # NoLayers)
                    /\ publishing => cap
                    /\ (told = "active") = publishing
                    /\ (Screen \in cascaded) = publishing /\ (Audio \in cascaded) = companion
                    /\ \A v \in watching :
                         Serving(v) = IF publishing /\ v \notin unsub THEN {PickScreenLayer(layers, sel[v])} ELSE {}
                    /\ companionTcv # 0 => \A v \in watching :
                         v \in CompanionDelivered <=> companion /\ v \notin unsub /\ cap
                    /\ publishing => Reaching(Sink) = IF Screen \in sinks THEN {PickScreenLayer(layers, "high")} ELSE {}
  BY DEF ScreenExactAlone
<1>1. Sequential /\ Types
  BY DEF Alone, IInv
<1>2. (\A t \in Threads : job[t] = <<>> /\ Left(t) = {}) /\ Todo = {}
  BY ShortMembers DEF Quiet, Active, Left, Todo
<1>3. publishing \in BOOLEAN /\ companion \in BOOLEAN
  BY <1>1 DEF Types
<1>4. /\ publishing <=> layers # NoLayers
      /\ publishing => cap
      /\ told = "active" <=> publishing
      /\ Screen \in cascaded <=> publishing
      /\ Audio \in cascaded <=> companion
  BY <1>1, <1>2 DEF Sequential, Consistent
<1>5. /\ publishing = (layers # NoLayers) /\ (told = "active") = publishing
      /\ (Screen \in cascaded) = publishing /\ (Audio \in cascaded) = companion
  <2>1. publishing = (layers # NoLayers)
    BY <1>3, <1>4
  <2>2. (told = "active") = publishing
    BY <1>3, <1>4
  <2>3. (Screen \in cascaded) = publishing
    BY <1>3, <1>4
  <2>4. (Audio \in cascaded) = companion
    BY <1>3, <1>4
  <2> QED
    BY <2>1, <2>2, <2>3, <2>4
<1>6. ~Refills(Screen) /\ ~Refills(Audio)
  BY <1>2 DEF Refills
<1>7. \A x \in Tracks : Filed(x) => up[x] = "live" /\ Tcv(x) \notin stopped
  <2> SUFFICES ASSUME NEW q \in Qualities, layers[q] \in Tracks
               PROVE  up[layers[q]] = "live" /\ Tcv(layers[q]) \notin stopped
    BY DEF Filed
  <2>1. layers[q] # None
    BY NameAssumption
  <2>2. Owes(layers[q])
    BY <2>1 DEF IInv, LayersOwed
  <2>3. Ops(job[Track(layers[q])]) = {}
    BY <1>2, ThreadFacts, ShortOps DEF Uplinks
  <2> QED
    BY <1>1, <2>1, <2>2, <2>3 DEF Owes, Runs, Sequential, OneTransceiver
<1>8. \A x \in Tracks : fan[x] # {} /\ up[x] = "live" /\ Tcv(x) \notin stopped => Filed(x)
  BY <1>1, <1>2 DEF Sequential, Silent
<1>9. ~publishing => \A x \in Tracks : ~Filed(x)
  BY <1>4, NameAssumption DEF Filed, NoLayers
<1>10. publishing => \A x \in Tracks : Filed(x) => fan[x] = {v \in Takers(Screen) : LayerOf(v) = x}
  BY <1>1, <1>4, <1>6 DEF Sequential, Shown
<1>11. ASSUME NEW v
       PROVE  Reaching(v) = IF publishing /\ v \in Takers(Screen)
                            THEN {x \in Tracks : Filed(x) /\ LayerOf(v) = x} ELSE {}
  <2>1. CASE publishing
    BY <2>1, <1>4, <1>7, <1>8, <1>10 DEF Reaching, Delivered
  <2>2. CASE ~publishing
    BY <2>2, <1>8, <1>9 DEF Reaching, Delivered
  <2> QED
    BY <2>1, <2>2
<1>12. ASSUME NEW v, (v = Sink \/ sel[v] \in Qualities), publishing
       PROVE  {x \in Tracks : Filed(x) /\ LayerOf(v) = x} = {LayerOf(v)}
  <2>1. "high" \in Qualities
    BY DEF Qualities
  <2> QED
    BY <1>1, <1>4, <1>12, <2>1, Picked DEF LayerOf
<1>13. ASSUME NEW v \in watching
       PROVE  Serving(v) = IF publishing /\ v \notin unsub THEN {PickScreenLayer(layers, sel[v])} ELSE {}
  <2>1. v \in Viewers /\ v # Sink /\ sel[v] \in Qualities
    BY NameAssumption DEF Shapes
  <2>2. LayerOf(v) = PickScreenLayer(layers, sel[v])
    BY <2>1 DEF LayerOf
  <2>3. publishing /\ v \notin unsub => <<Screen, v>> \in down
    <3>1. publishing /\ v \notin unsub => Provided(Screen, v)
      BY <1>1, <1>4, StepFacts DEF Sequential, Tracked, On, Screen, Audio
    <3> QED
      BY <1>2, <2>1, <3>1, ThreadFacts DEF Provided
  <2>4. v \in Takers(Screen) <=> <<Screen, v>> \in down /\ cap /\ v \notin unsub
    BY <2>1 DEF Takers, ShouldForwardScreen
  <2>5. CASE publishing /\ v \notin unsub
    BY <1>4, <1>11, <1>12, <2>1, <2>2, <2>3, <2>4, <2>5 DEF Serving
  <2>6. CASE ~(publishing /\ v \notin unsub)
    BY <1>11, <2>4, <2>6 DEF Serving
  <2> QED
    BY <2>5, <2>6
<1>14. ASSUME companionTcv # 0, NEW v \in watching
       PROVE  v \in CompanionDelivered <=> companion /\ v \notin unsub /\ cap
  <2>1. v \in Viewers /\ v # Sink
    BY NameAssumption DEF Shapes
  <2>2. companion /\ v \notin unsub /\ cap => <<Audio, v>> \in down
    <3>1. companion /\ v \notin unsub /\ cap => Provided(Audio, v)
      BY <1>1, <1>14, StepFacts DEF Sequential, Tracked, On, Screen, Audio
    <3> QED
      BY <1>2, <2>1, <3>1, ThreadFacts DEF Provided
  <2>3. v \in Takers(Audio) <=> <<Audio, v>> \in down /\ cap /\ v \notin unsub
    BY <2>1 DEF Takers, ShouldForwardScreen
  <2>4. companion /\ cap => fan[None] = Takers(Audio)
    BY <1>1, <1>6 DEF Sequential, Accompanied
  <2>5. ~companion => v \notin fan[None]
    BY <1>1, <1>2, <2>1 DEF Sequential, Accompanied
  <2> QED
    BY <2>2, <2>3, <2>4, <2>5 DEF CompanionDelivered, Delivered
<1>15. publishing => Reaching(Sink) = IF Screen \in sinks THEN {PickScreenLayer(layers, "high")} ELSE {}
  <2>1. LayerOf(Sink) = PickScreenLayer(layers, "high")
    BY DEF LayerOf
  <2>2. Sink \in Takers(Screen) <=> cap /\ Screen \in sinks
    BY NameAssumption DEF Takers, Shapes
  <2> QED
    BY <1>4, <1>11, <1>12, <2>1, <2>2
<1> QED
  BY <1>4, <1>5, <1>13, <1>14, <1>15

\* As long as operations have come one after the other, on transceivers that
\* carry a companion or a plain screen alone or layers of different qualities:
\* with nothing under way the Server and the cascade know of exactly the screen
\* that is published, every viewer who wants it receives one layer, the one
\* asked for or the best there is, and the cascade's sink the best
\* (onScreenTrack, the read loop's epilogue, applyScreenCaps, setSubscription,
\* SetScreenLayer, AttachCascadeSink, rebuildScreenFanout).
THEOREM ShownAlone == Simulcast => (Spec => []ScreenExactAlone)
<1> DEFINE I == IInv /\ Shapes /\ Alone
<1> SUFFICES ASSUME Simulcast PROVE Spec => []ScreenExactAlone
  OBVIOUS
<1>1. Init => I
  BY Initially, AloneInitially
<1>2. I /\ [Next]_vars => I'
  BY Preserved, ShapesKept, AloneKept
<1>3. I => ScreenExactAlone
  BY ExactWhenAlone
<1> HIDE DEF I
<1> QED
  BY <1>1, <1>2, <1>3, PTL DEF Spec
=============================================================================
