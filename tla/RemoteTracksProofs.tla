------------------------ MODULE RemoteTracksProofs ------------------------
(* A track from another node, for any numbers of sessions, arrivals and    *)
(* listeners: however the goroutines that register, replace and drop it    *)
(* interleave, one of them or one remoteSpeaker answers for the publisher  *)
(* that the room lists; and without overlap it is heard as it should be.   *)
EXTENDS RemoteTracks, FiniteSetTheorems, SequenceTheorems, TLAPS

-----------------------------------------------------------------------------
(* What is under way                                                       *)

TrackOps == {"arrive", "register", "read", "ended", "drop", "recheck"}
PubOps == {"closePub", "unlist", "rebuild"}
Steps == [op : {"recompute"}]
         \cup [op : TrackOps, track : Tracks]
         \cup [op : PubOps, pub : Pubs]
         \cup [op : {"ensure", "insert"}, pub : Pubs, listener : Listeners]
         \cup [op : {"close", "edgeClosed"}, session : Sessions]
         \cup [op : {"store"}, track : Tracks, pub : Pubs]

Members(s) == {s[i] : i \in 1..Len(s)}
Left(t) == Members(job[t])
Todo == UNION {Left(t) : t \in Threads}

Types ==
  /\ job \in [Threads -> Seq(Steps)]
  /\ speaker \in Tracks \cup {None} /\ rp \in [Tracks -> Pubs \cup {None}]
  /\ entry \in Pubs \cup {None} /\ closed \subseteq Pubs
  /\ fan \in [Pubs -> SUBSET Listeners] /\ owner \in [Listeners -> Pubs \cup {None}]
  /\ sess \in [Sessions -> {"new", "up", "shut"}] /\ reg \in Sessions \cup {None}
  /\ track \in [Tracks -> {"off", "called", "live", "drained", "over"}]
  /\ part \in [Listeners -> {"out", "in", "connected", "gone"}]
  /\ room \in BOOLEAN /\ overlapped \in BOOLEAN /\ recomputed \in BOOLEAN

\* The order of the steps of a goroutine: what answers for a publisher is the
\* next thing to do, or waits for the filling of the new publisher only.
FillOps == {"ensure", "insert", "rebuild"}
FirstOps == {"arrive", "ended", "edgeClosed", "drop", "recheck", "closePub", "unlist"}
LastOps == {"arrive", "ended", "close", "edgeClosed", "read"}
Tidy(s) ==
  \A i \in 1..Len(s) :
    /\ s[i].op \in FirstOps => i = 1
    /\ s[i].op \in LastOps => i = Len(s)
    /\ s[i].op \in FillOps \cup {"store"} => \A j \in 1..(i - 1) : s[j].op \in FillOps
    /\ s[i].op \in {"ensure", "insert"} =>
         \E j \in (i + 1)..Len(s) : s[j] = ForPub("rebuild", s[i].pub)

\* The track's own goroutine.
Pinned == {"arrive", "read", "ended"}
Placed == \A t \in Threads : \A x \in Left(t) : x.op \in Pinned => t = <<"track", x.track>>

Ordered == job \in [Threads -> Seq(Steps)] /\ (\A t \in Threads : Tidy(job[t])) /\ Placed
Regular == Types /\ Ordered

-----------------------------------------------------------------------------
(* Who answers for the room's publisher                                    *)

TokenOps == {"store", "closePub", "unlist"}
Tokens(t) == {x \in Left(t) : x.op \in TokenOps}
Holds(t) == Tokens(t) # {}
Keeps(k) == rp[k] # None

\* They mean the publisher listed, which is open until it is about to be
\* taken out.
Meant ==
  /\ \A t \in Threads : \A x \in Tokens(t) :
       x.pub = entry /\ (x.op # "unlist" => entry \notin closed)
  /\ \A k \in Tracks : Keeps(k) => rp[k] = entry /\ entry \notin closed

\* There is one of them, and one only.
Single ==
  /\ \A t, u \in Threads : Holds(t) /\ Holds(u) => t = u
  /\ \A k, m \in Tracks : Keeps(k) /\ Keeps(m) => k = m
  /\ \A t \in Threads, k \in Tracks : ~(Holds(t) /\ Keeps(k))
Answered == entry # None => (\E t \in Threads : Holds(t)) \/ (\E k \in Tracks : Keeps(k))

\* A speaker that is not in force does not keep its publisher.
Pending(k) == ForTrack("drop", k) \in Todo \/ ForTrack("recheck", k) \in Todo
Due == \A k \in Tracks : Keeps(k) /\ k # speaker => Pending(k)

Held == Meant /\ Single /\ Answered /\ Due

-----------------------------------------------------------------------------
(* A recomputation by itself                                               *)

OnlyHook == \A t \in Threads \ {Hook} : job[t] = <<>>
Retries ==
  \/ job[Hook] = <<Recompute>>
  \/ speaker # None /\ rp[speaker] = None /\ job[Hook] = <<ForTrack("register", speaker)>>
  \/ /\ \A x \in Left(Hook) : /\ x.op \in FillOps \cup {"store", "recheck"}
                              /\ x.op \in {"store", "recheck"} => x.track = speaker
     /\ room /\ speaker # None =>
          rp[speaker] # None \/ \E x \in Left(Hook) : x.op = "store"
Healing == recomputed => OnlyHook /\ Retries

-----------------------------------------------------------------------------
(* Operations one after the other                                          *)

Lone == \A t, u \in Active : t = u

\* Sessions: the one in force is up, and the speaker's too.
InForce ==
  /\ \A s \in Sessions :
       /\ sess[s] = "up" => reg = s \/ ForSession("close", s) \in Todo
       /\ ForSession("edgeClosed", s) \in Todo => sess[s] = "shut"
       /\ reg = s => sess[s] = "up" \/ ForSession("edgeClosed", s) \in Todo
  /\ speaker # None =>
       sess[Origin[speaker]] = "up" \/ ForSession("edgeClosed", Origin[speaker]) \in Todo
  /\ \A k \in Tracks : /\ ForTrack("arrive", k) \in Todo => sess[Origin[k]] = "up"
                       /\ track[k] # "drained"

\* What is pending is about the speaker and the publisher in force.
About(x) ==
  /\ x.op \in {"register", "store", "recheck"} => x.track = speaker
  /\ x.op = "drop" => x.track # speaker
  /\ x.op \in FillOps => x.pub = entry
Current == \A x \in Todo : About(x)

\* With someone to listen, the speaker is registered or is going to be.
Registered ==
  /\ Listed # {} => room
  /\ speaker # None /\ Listed # {} =>
       \/ rp[speaker] # None \/ Recompute \in Todo
       \/ \E x \in Todo : x.op \in {"register", "store"}

\* Who is to hear has a down track of the publisher, or is going to have one.
Tracked ==
  /\ \A l \in Listeners : part[l] = "out" => owner[l] = None
  /\ entry # None /\ entry \notin closed =>
       \A l \in Listeners : part[l] = "connected" /\ l \notin unsub =>
         \/ owner[l] = entry
         \/ ForListener("ensure", entry, l) \in Todo
         \/ ForListener("insert", entry, l) \in Todo

Audience(p) == {l \in Listeners : owner[l] = p /\ RemoteShouldForward(l)}
Filled ==
  entry # None /\ entry \notin closed =>
    fan[entry] = Audience(entry) \/ ForPub("rebuild", entry) \in Todo

Sequential == InForce /\ Current /\ Registered /\ Tracked /\ Filled
Alone == ~overlapped => Lone /\ Sequential

IInv == Regular /\ Held /\ Healing /\ Alone

-----------------------------------------------------------------------------
(* Steps and sequences of them                                             *)

Store(k, p) == [op |-> "store", track |-> k, pub |-> p]

LEMMA StepFacts ==
  /\ Recompute \in Steps /\ Recompute.op = "recompute"
  /\ \A op \in TrackOps, k \in Tracks :
       ForTrack(op, k) \in Steps /\ ForTrack(op, k).op = op /\ ForTrack(op, k).track = k
  /\ \A op \in PubOps, p \in Pubs :
       ForPub(op, p) \in Steps /\ ForPub(op, p).op = op /\ ForPub(op, p).pub = p
  /\ \A op \in {"ensure", "insert"}, p \in Pubs, l \in Listeners :
       /\ ForListener(op, p, l) \in Steps /\ ForListener(op, p, l).op = op
       /\ ForListener(op, p, l).pub = p /\ ForListener(op, p, l).listener = l
  /\ \A op \in {"close", "edgeClosed"}, s \in Sessions :
       ForSession(op, s) \in Steps /\ ForSession(op, s).op = op /\ ForSession(op, s).session = s
  /\ \A k \in Tracks, p \in Pubs :
       /\ Store(k, p) \in Steps /\ Store(k, p).op = "store"
       /\ Store(k, p).track = k /\ Store(k, p).pub = p
BY DEF Steps, TrackOps, PubOps, Recompute, Step, ForTrack, ForPub, ForListener, ForSession, Store

\* What the name of a step tells of it.
LEMMA StepKinds ==
  ASSUME NEW x \in Steps
  PROVE  /\ x.op = "recompute" => x = Recompute
         /\ x.op \in TrackOps => x.track \in Tracks /\ x = ForTrack(x.op, x.track)
         /\ x.op \in PubOps => x.pub \in Pubs /\ x = ForPub(x.op, x.pub)
         /\ x.op \in {"ensure", "insert"} =>
              x.pub \in Pubs /\ x.listener \in Listeners /\ x = ForListener(x.op, x.pub, x.listener)
         /\ x.op \in {"close", "edgeClosed"} =>
              x.session \in Sessions /\ x = ForSession(x.op, x.session)
         /\ x.op = "store" =>
              x.track \in Tracks /\ x.pub \in Pubs /\ x = Store(x.track, x.pub)
<1>1. CASE x \in [op : {"recompute"}]
  BY <1>1 DEF TrackOps, PubOps, Recompute, Step
<1>2. CASE x \in [op : TrackOps, track : Tracks]
  BY <1>2 DEF TrackOps, PubOps, ForTrack
<1>3. CASE x \in [op : PubOps, pub : Pubs]
  BY <1>3 DEF TrackOps, PubOps, ForPub
<1>4. CASE x \in [op : {"ensure", "insert"}, pub : Pubs, listener : Listeners]
  BY <1>4 DEF TrackOps, PubOps, ForListener
<1>5. CASE x \in [op : {"close", "edgeClosed"}, session : Sessions]
  BY <1>5 DEF TrackOps, PubOps, ForSession
<1>6. CASE x \in [op : {"store"}, track : Tracks, pub : Pubs]
  BY <1>6 DEF TrackOps, PubOps, Store
<1> QED
  BY <1>1, <1>2, <1>3, <1>4, <1>5, <1>6 DEF Steps

LEMMA ThreadFacts ==
  /\ Hook \in Threads
  /\ \A s \in Sessions : <<"edge", s>> \in Threads /\ <<"edge", s>> # Hook
  /\ \A k \in Tracks : <<"track", k>> \in Threads /\ <<"track", k>> # Hook
  /\ \A l \in Listeners :
       /\ <<"join", l>> \in Threads /\ <<"connect", l>> \in Threads /\ <<"loop", l>> \in Threads
       /\ <<"join", l>> # Hook /\ <<"connect", l>> # Hook /\ <<"loop", l>> # Hook
BY DEF Threads, Hook

LEMMA MembersFacts ==
  /\ Members(<<>>) = {}
  /\ \A x : Members(<<x>>) = {x}
  /\ \A x, y : Members(<<x, y>>) = {x, y}
  /\ \A x, y, z : Members(<<x, y, z>>) = {x, y, z}
<1>1. Members(<<>>) = {}
  BY DEF Members
<1>2. \A x : Members(<<x>>) = {x}
  BY DEF Members
<1>3. ASSUME NEW x, NEW y PROVE Members(<<x, y>>) = {x, y}
  <2>1. Len(<<x, y>>) = 2 /\ 1..2 = {1, 2} /\ <<x, y>>[1] = x /\ <<x, y>>[2] = y
    OBVIOUS
  <2> QED
    BY <2>1 DEF Members
<1>4. ASSUME NEW x, NEW y, NEW z PROVE Members(<<x, y, z>>) = {x, y, z}
  <2>1. /\ Len(<<x, y, z>>) = 3 /\ 1..3 = {1, 2, 3}
        /\ <<x, y, z>>[1] = x /\ <<x, y, z>>[2] = y /\ <<x, y, z>>[3] = z
    OBVIOUS
  <2> QED
    BY <2>1 DEF Members
<1> QED
  BY <1>1, <1>2, <1>3, <1>4

LEMMA Joined ==
  ASSUME NEW S, NEW a \in Seq(S), NEW b \in Seq(S)
  PROVE  a \o b \in Seq(S) /\ Members(a \o b) = Members(a) \cup Members(b)
<1> DEFINE r == a \o b
<1>1. /\ r \in Seq(S) /\ Len(r) = Len(a) + Len(b) /\ Len(a) \in Nat /\ Len(b) \in Nat
      /\ \A i \in 1..Len(r) : r[i] = IF i <= Len(a) THEN a[i] ELSE b[i - Len(a)]
  BY ConcatProperties, LenProperties
<1> HIDE DEF r
<1>2. ASSUME NEW i \in 1..Len(r) PROVE r[i] \in Members(a) \cup Members(b)
  <2>1. CASE i <= Len(a)
    <3>1. i \in 1..Len(a) /\ r[i] = a[i]
      BY <1>1, <2>1
    <3> QED
      BY <3>1 DEF Members
  <2>2. CASE ~(i <= Len(a))
    <3>1. i - Len(a) \in 1..Len(b) /\ r[i] = b[i - Len(a)]
      BY <1>1, <2>2
    <3> QED
      BY <3>1 DEF Members
  <2> QED
    BY <2>1, <2>2
<1>3. ASSUME NEW i \in 1..Len(a) PROVE a[i] \in Members(r)
  <2>1. i \in 1..Len(r) /\ r[i] = a[i]
    BY <1>1
  <2> QED
    BY <2>1 DEF Members
<1>4. ASSUME NEW i \in 1..Len(b) PROVE b[i] \in Members(r)
  <2> DEFINE j == i + Len(a)
  <2>1. j \in 1..Len(r) /\ ~(j <= Len(a)) /\ j - Len(a) = i
    BY <1>1
  <2> HIDE DEF j
  <2>2. r[j] = b[i]
    BY <1>1, <2>1
  <2> QED
    BY <2>1, <2>2 DEF Members
<1> QED
  BY <1>1, <1>2, <1>3, <1>4 DEF r, Members

\* What a goroutine has left when its first step is replaced.
LEMMA Prepended ==
  ASSUME NEW S, NEW s \in Seq(S), s # <<>>, NEW a \in Seq(S)
  PROVE  LET r == a \o Tail(s) IN
         /\ r \in Seq(S) /\ Len(r) = Len(a) + Len(s) - 1
         /\ \A i \in 1..Len(a) : i \in 1..Len(r) /\ r[i] = a[i]
         /\ \A i \in 1..Len(r) : i \notin 1..Len(a) =>
              i - Len(a) + 1 \in 2..Len(s) /\ r[i] = s[i - Len(a) + 1]
         /\ \A j \in 2..Len(s) : j - 1 + Len(a) \in 1..Len(r) /\ r[j - 1 + Len(a)] = s[j]
         /\ Len(s) \in Nat \ {0} /\ Len(a) \in Nat /\ Head(s) = s[1] /\ Tail(s) \in Seq(S)
<1> DEFINE r == a \o Tail(s)
<1>1. /\ Tail(s) \in Seq(S) /\ Len(Tail(s)) = Len(s) - 1 /\ Head(s) = s[1]
      /\ \A i \in 1..Len(Tail(s)) : Tail(s)[i] = s[i + 1]
      /\ Len(s) \in Nat \ {0} /\ Len(a) \in Nat
  BY HeadTailProperties, EmptySeq, LenProperties
<1>2. /\ r \in Seq(S) /\ Len(r) = Len(a) + Len(Tail(s))
      /\ \A i \in 1..Len(r) : r[i] = IF i <= Len(a) THEN a[i] ELSE Tail(s)[i - Len(a)]
  BY <1>1, ConcatProperties
<1> HIDE DEF r
<1>3. ASSUME NEW i \in 1..Len(r), i \notin 1..Len(a)
      PROVE  i - Len(a) + 1 \in 2..Len(s) /\ r[i] = s[i - Len(a) + 1]
  <2>1. i - Len(a) \in 1..Len(Tail(s)) /\ ~(i <= Len(a)) /\ i - Len(a) + 1 \in 2..Len(s)
    BY <1>1, <1>2, <1>3
  <2> QED
    BY <1>1, <1>2, <2>1
<1>4. ASSUME NEW j \in 2..Len(s)
      PROVE  j - 1 + Len(a) \in 1..Len(r) /\ r[j - 1 + Len(a)] = s[j]
  <2> DEFINE i == j - 1 + Len(a)
  <2>1. i \in 1..Len(r) /\ i \notin 1..Len(a) /\ i - Len(a) + 1 = j
    BY <1>1, <1>2
  <2> HIDE DEF i
  <2>2. r[i] = s[i - Len(a) + 1]
    BY <1>3, <2>1
  <2> QED
    BY <2>1, <2>2 DEF i
<1>5. \A i \in 1..Len(a) : i \in 1..Len(r) /\ r[i] = a[i]
  BY <1>1, <1>2
<1>6. Len(r) = Len(a) + Len(s) - 1
  BY <1>1, <1>2
<1> QED
  BY <1>1, <1>2, <1>3, <1>4, <1>5, <1>6 DEF r

\* The first step and the rest.
Rest(t) == Members(Tail(job[t]))

LEMMA RestFacts ==
  ASSUME Types, NEW t \in Threads, job[t] # <<>>, Tidy(job[t])
  PROVE  /\ Left(t) = {Head(job[t])} \cup Rest(t)
         /\ Head(job[t]) \in Steps /\ Rest(t) \subseteq Steps
         /\ \A x \in Rest(t) :
              /\ x.op \notin FirstOps
              /\ Head(job[t]).op \notin FillOps => x.op \notin FillOps \cup {"store"}
              /\ Head(job[t]).op \notin LastOps
         /\ Head(job[t]).op \in {"ensure", "insert"} =>
              ForPub("rebuild", Head(job[t]).pub) \in Rest(t)
<1> DEFINE s == job[t]
<1>1. /\ s \in Seq(Steps) /\ Tail(s) \in Seq(Steps) /\ Len(Tail(s)) = Len(s) - 1
      /\ Head(s) = s[1] /\ Head(s) \in Steps
      /\ \A i \in 1..Len(Tail(s)) : Tail(s)[i] = s[i + 1]
      /\ Len(s) \in Nat \ {0}
  BY HeadTailProperties, EmptySeq, LenProperties DEF Types
<1>2. \A i \in 1..Len(Tail(s)) : i + 1 \in 2..Len(s) /\ i + 1 \in 1..Len(s) /\ i + 1 # 1
  BY <1>1
<1>3. \A j \in 2..Len(s) : j - 1 \in 1..Len(Tail(s)) /\ Tail(s)[j - 1] = s[j] /\ j \in 1..Len(s)
  BY <1>1
<1>4. Tidy(s)
  OBVIOUS
<1> HIDE DEF s
<1>5. Members(Tail(s)) = {s[j] : j \in 2..Len(s)}
  BY <1>1, <1>2, <1>3 DEF Members
<1>6. Members(s) = {Head(s)} \cup Members(Tail(s))
  <2>1. 1..Len(s) = {1} \cup 2..Len(s)
    BY <1>1
  <2> QED
    BY <1>1, <1>5, <2>1 DEF Members
<1>7. ASSUME NEW x \in Members(Tail(s))
      PROVE  /\ x.op \notin FirstOps
             /\ Head(s).op \notin FillOps => x.op \notin FillOps \cup {"store"}
             /\ Head(s).op \notin LastOps /\ x \in Steps
  <2>1. PICK j \in 2..Len(s) : x = s[j]
    BY <1>5, <1>7
  <2>2. j \in 1..Len(s) /\ j # 1 /\ 1 \in 1..(j - 1) /\ 1 \in 1..Len(s) /\ 1 # Len(s)
    BY <1>1
  <2>3. s[j] \in Steps
    BY <1>1, <2>2
  <2> QED
    BY <1>1, <1>4, <2>1, <2>2, <2>3 DEF Tidy
<1>8. Head(s).op \in {"ensure", "insert"} => ForPub("rebuild", Head(s).pub) \in Members(Tail(s))
  <2>1. 1 \in 1..Len(s) /\ (1 + 1)..Len(s) = 2..Len(s)
    BY <1>1
  <2>2. Head(s).op \in {"ensure", "insert"} =>
          \E j \in (1 + 1)..Len(s) : s[j] = ForPub("rebuild", Head(s).pub)
    BY <1>1, <1>4, <2>1 DEF Tidy
  <2> QED
    BY <1>5, <2>1, <2>2
<1> QED
  BY <1>1, <1>6, <1>7, <1>8 DEF Left, Rest, s

\* Steps a may take the place of step h.
Fits(h, a) ==
  /\ h.op \in FillOps => \A i \in 1..Len(a) : a[i].op \in FillOps
  /\ \A i \in 1..Len(a) :
       /\ a[i].op \in FirstOps => i = 1
       /\ a[i].op \in LastOps => i = Len(a) /\ h.op \in LastOps
       /\ a[i].op \in FillOps \cup {"store"} => \A j \in 1..(i - 1) : a[j].op \in FillOps
       /\ a[i].op \in {"ensure", "insert"} =>
            \/ \E j \in (i + 1)..Len(a) : a[j] = ForPub("rebuild", a[i].pub)
            \/ h.op \in {"ensure", "insert"} /\ a[i].pub = h.pub

LEMMA TidyGoes ==
  ASSUME NEW s \in Seq(Steps), s # <<>>, Tidy(s), NEW a \in Seq(Steps), Fits(Head(s), a)
  PROVE  Tidy(a \o Tail(s))
<1> DEFINE r == a \o Tail(s)
<1>1. /\ r \in Seq(Steps) /\ Len(r) = Len(a) + Len(s) - 1
      /\ \A i \in 1..Len(a) : i \in 1..Len(r) /\ r[i] = a[i]
      /\ \A i \in 1..Len(r) : i \notin 1..Len(a) =>
           i - Len(a) + 1 \in 2..Len(s) /\ r[i] = s[i - Len(a) + 1]
      /\ \A j \in 2..Len(s) : j - 1 + Len(a) \in 1..Len(r) /\ r[j - 1 + Len(a)] = s[j]
      /\ Len(s) \in Nat \ {0} /\ Len(a) \in Nat /\ Head(s) = s[1]
  BY Prepended
<1> HIDE DEF r
<1>2. 1 \in 1..Len(s)
  BY <1>1
<1>3. ASSUME NEW i \in 1..Len(r), i \in 1..Len(a)
      PROVE  /\ r[i].op \in FirstOps => i = 1
             /\ r[i].op \in LastOps => i = Len(r)
             /\ r[i].op \in FillOps \cup {"store"} => \A j \in 1..(i - 1) : r[j].op \in FillOps
             /\ r[i].op \in {"ensure", "insert"} =>
                  \E j \in (i + 1)..Len(r) : r[j] = ForPub("rebuild", r[i].pub)
  <2>1. r[i] = a[i]
    BY <1>1, <1>3
  <2>2. r[i].op \in LastOps => i = Len(r)
    <3>1. Head(s).op \in LastOps => Len(s) = 1
      BY <1>1, <1>2 DEF Tidy
    <3>2. r[i].op \in LastOps => i = Len(a) /\ Head(s).op \in LastOps
      BY <1>3, <2>1 DEF Fits
    <3>3. Len(s) = 1 => Len(r) = Len(a)
      BY <1>1
    <3> QED
      BY <3>1, <3>2, <3>3
  <2>3. r[i].op \in FillOps \cup {"store"} => \A j \in 1..(i - 1) : r[j].op \in FillOps
    <3>1. \A j \in 1..(i - 1) : j \in 1..Len(a) /\ r[j] = a[j]
      BY <1>1, <1>3
    <3> QED
      BY <1>3, <2>1, <3>1 DEF Fits
  <2>4. ASSUME r[i].op \in {"ensure", "insert"}
        PROVE  \E j \in (i + 1)..Len(r) : r[j] = ForPub("rebuild", r[i].pub)
    <3>1. CASE \E j \in (i + 1)..Len(a) : a[j] = ForPub("rebuild", a[i].pub)
      <4>1. PICK j \in (i + 1)..Len(a) : a[j] = ForPub("rebuild", a[i].pub)
        BY <3>1
      <4>2. j \in 1..Len(a)
        BY <1>1, <1>3
      <4>3. j \in (i + 1)..Len(r)
        BY <1>1, <1>3, <4>2
      <4> QED
        BY <1>1, <2>1, <4>1, <4>2, <4>3
    <3>2. CASE Head(s).op \in {"ensure", "insert"} /\ a[i].pub = Head(s).pub
      <4>1. PICK m \in (1 + 1)..Len(s) : s[m] = ForPub("rebuild", Head(s).pub)
        BY <1>1, <1>2, <3>2 DEF Tidy
      <4> DEFINE j == m - 1 + Len(a)
      <4>2. m \in 2..Len(s)
        BY <1>1
      <4>3. j \in 1..Len(r) /\ r[j] = s[m]
        BY <1>1, <4>2
      <4>4. j \in (i + 1)..Len(r)
        BY <1>1, <1>3, <4>2
      <4> HIDE DEF j
      <4> QED
        BY <2>1, <3>2, <4>1, <4>3, <4>4
    <3> QED
      BY <1>3, <2>1, <2>4, <3>1, <3>2 DEF Fits
  <2>5. r[i].op \in FirstOps => i = 1
    BY <1>3, <2>1 DEF Fits
  <2> QED
    BY <2>2, <2>3, <2>4, <2>5
<1>4. ASSUME NEW i \in 1..Len(r), i \notin 1..Len(a)
      PROVE  /\ r[i].op \in FirstOps => i = 1
             /\ r[i].op \in LastOps => i = Len(r)
             /\ r[i].op \in FillOps \cup {"store"} => \A j \in 1..(i - 1) : r[j].op \in FillOps
             /\ r[i].op \in {"ensure", "insert"} =>
                  \E j \in (i + 1)..Len(r) : r[j] = ForPub("rebuild", r[i].pub)
  <2> DEFINE k == i - Len(a) + 1
  <2>1. k \in 2..Len(s) /\ k \in 1..Len(s) /\ k # 1 /\ r[i] = s[k] /\ (k = Len(s) => i = Len(r))
    BY <1>1, <1>4
  <2>2. i = k - 1 + Len(a)
    BY <1>1
  <2> HIDE DEF k
  <2>3. r[i].op \notin FirstOps /\ (r[i].op \in LastOps => i = Len(r))
    BY <1>1, <2>1 DEF Tidy
  <2>4. ASSUME r[i].op \in FillOps \cup {"store"}, NEW j \in 1..(i - 1) PROVE r[j].op \in FillOps
    <3>1. \A m \in 1..(k - 1) : s[m].op \in FillOps
      BY <2>1, <2>4 DEF Tidy
    <3>2. Head(s).op \in FillOps
      <4>1. 1 \in 1..(k - 1)
        BY <1>1, <2>1
      <4> QED
        BY <1>1, <3>1, <4>1
    <3>3. CASE j \in 1..Len(a)
      BY <1>1, <3>2, <3>3 DEF Fits
    <3>4. CASE j \notin 1..Len(a)
      <4>1. j \in 1..Len(r) /\ j - Len(a) + 1 \in 1..(k - 1)
        <5>1. Len(r) \in Int /\ Len(a) \in Nat /\ i \in Int /\ i <= Len(r) /\ k \in Int
          BY <1>1, <2>1
        <5> QED
          BY <2>2, <3>4, <5>1
      <4>2. r[j] = s[j - Len(a) + 1]
        BY <1>1, <3>4, <4>1
      <4> QED
        BY <3>1, <4>1, <4>2
    <3> QED
      BY <3>3, <3>4
  <2>5. ASSUME r[i].op \in {"ensure", "insert"}
        PROVE  \E j \in (i + 1)..Len(r) : r[j] = ForPub("rebuild", r[i].pub)
    <3>1. PICK m \in (k + 1)..Len(s) : s[m] = ForPub("rebuild", s[k].pub)
      BY <2>1, <2>5 DEF Tidy
    <3> DEFINE j == m - 1 + Len(a)
    <3>2. m \in 2..Len(s)
      BY <1>1, <2>1
    <3>3. j \in (i + 1)..Len(r)
      BY <1>1, <2>1, <2>2, <3>2
    <3>4. r[j] = s[m]
      BY <1>1, <3>2
    <3> HIDE DEF j
    <3> QED
      BY <2>1, <3>1, <3>3, <3>4
  <2> QED
    BY <2>3, <2>4, <2>5
<1> QED
  BY <1>3, <1>4 DEF Tidy, r

\* Goroutine t replaces its first step by the steps of a set M.
Left2(t, M) ==
  /\ Left(t)' = M
  /\ \A u \in Threads : u # t => Left(u)' = Left(u)

LEMMA Passed ==
  ASSUME Types, \A u \in Threads : Tidy(job[u]), NEW t \in Threads, job[t] # <<>>,
         NEW a \in Seq(Steps), Continue(t, a), Fits(Head(job[t]), a)
  PROVE  /\ job' \in [Threads -> Seq(Steps)] /\ \A u \in Threads : Tidy(job[u])'
         /\ Left2(t, Members(a) \cup Rest(t))
         /\ \A u \in Threads : u # t => job'[u] = job[u]
         /\ job'[t] = a \o Tail(job[t])
<1>1. /\ job[t] \in Seq(Steps) /\ job'[t] = a \o Tail(job[t])
      /\ \A u \in Threads : u # t => job'[u] = job[u]
      /\ job' = [job EXCEPT ![t] = a \o Tail(job[t])]
  BY DEF Types, Continue
<1>2. Tail(job[t]) \in Seq(Steps)
  BY <1>1, HeadTailProperties, EmptySeq
<1>3. a \o Tail(job[t]) \in Seq(Steps) /\ Members(a \o Tail(job[t])) = Members(a) \cup Rest(t)
  BY <1>2, Joined DEF Rest
<1>4. job' \in [Threads -> Seq(Steps)]
  BY <1>1, <1>3 DEF Types
<1>5. Tidy(a \o Tail(job[t]))
  BY <1>1, TidyGoes
<1>6. Tidy(job'[t]) /\ \A u \in Threads : u # t => Tidy(job'[u])
  BY <1>1, <1>5
<1>7. \A u \in Threads : Tidy(job[u])'
  <2> SUFFICES ASSUME NEW u \in Threads PROVE Tidy(job'[u])
    BY DEF Tidy
  <2> QED
    BY <1>6
<1>8. Left(t)' = Members(a) \cup Rest(t)
  BY <1>1, <1>3 DEF Left, Members
<1>9. \A u \in Threads : u # t => Left(u)' = Left(u)
  BY <1>1 DEF Left, Members
<1> QED
  BY <1>1, <1>4, <1>7, <1>8, <1>9 DEF Left2

LEMMA Begun ==
  ASSUME Types, \A u \in Threads : Tidy(job[u]), NEW t \in Threads,
         NEW a \in Seq(Steps), Start(t, a), Tidy(a)
  PROVE  /\ job' \in [Threads -> Seq(Steps)] /\ \A u \in Threads : Tidy(job[u])'
         /\ Left2(t, Members(a)) /\ Left(t) = {}
         /\ \A u \in Threads : u # t => job'[u] = job[u]
         /\ job'[t] = a
<1>1. job[t] = <<>> /\ job'[t] = a /\ \A u \in Threads : u # t => job'[u] = job[u]
  BY DEF Types, Start
<1>2. job' \in [Threads -> Seq(Steps)]
  BY <1>1 DEF Types, Start
<1>3. \A u \in Threads : Tidy(job'[u])
  BY <1>1
<1>4. \A u \in Threads : Tidy(job[u])'
  BY <1>3 DEF Tidy
<1>5. Left(t) = {}
  BY <1>1, MembersFacts DEF Left
<1>6. Left(t)' = Members(a) /\ \A u \in Threads : u # t => Left(u)' = Left(u)
  BY <1>1 DEF Left, Members
<1> QED
  BY <1>1, <1>2, <1>4, <1>5, <1>6 DEF Left2

\* Short sequences.
LEMMA FitsShort ==
  ASSUME NEW h \in Steps
  PROVE  /\ Fits(h, <<>>)
         /\ \A x \in Steps :
              /\ h.op \in FillOps => x.op \in FillOps
              /\ x.op \in LastOps => h.op \in LastOps
              /\ x.op \in {"ensure", "insert"} => h.op \in {"ensure", "insert"} /\ x.pub = h.pub
              => Fits(h, <<x>>)
         /\ \A x, y \in Steps :
              /\ h.op \notin FillOps /\ y.op \notin FirstOps /\ x.op \notin LastOps
              /\ y.op \in LastOps => h.op \in LastOps
              /\ x.op \notin FillOps \cup {"store"} /\ y.op \notin FillOps \cup {"store"}
              => Fits(h, <<x, y>>)
<1>1. Fits(h, <<>>)
  BY DEF Fits
<1>2. ASSUME NEW x \in Steps,
             h.op \in FillOps => x.op \in FillOps,
             x.op \in LastOps => h.op \in LastOps,
             x.op \in {"ensure", "insert"} => h.op \in {"ensure", "insert"} /\ x.pub = h.pub
      PROVE  Fits(h, <<x>>)
  <2>1. Len(<<x>>) = 1 /\ 1..1 = {1} /\ <<x>>[1] = x /\ 1..(1 - 1) = {}
    OBVIOUS
  <2> QED
    BY <1>2, <2>1 DEF Fits
<1>3. ASSUME NEW x \in Steps, NEW y \in Steps,
             h.op \notin FillOps, y.op \notin FirstOps, x.op \notin LastOps,
             y.op \in LastOps => h.op \in LastOps,
             x.op \notin FillOps \cup {"store"}, y.op \notin FillOps \cup {"store"}
      PROVE  Fits(h, <<x, y>>)
  <2>1. Len(<<x, y>>) = 2 /\ 1..2 = {1, 2} /\ <<x, y>>[1] = x /\ <<x, y>>[2] = y
    OBVIOUS
  <2>2. x.op \notin {"ensure", "insert"} /\ y.op \notin {"ensure", "insert"}
    BY <1>3 DEF FillOps
  <2> QED
    BY <1>3, <2>1, <2>2 DEF Fits
<1> QED
  BY <1>1, <1>2, <1>3

LEMMA TidyShort ==
  /\ Tidy(<<>>)
  /\ \A x \in Steps : x.op \notin {"ensure", "insert"} => Tidy(<<x>>)
  /\ \A x, y \in Steps :
       /\ x.op \notin LastOps /\ y.op \notin FirstOps
       /\ x.op \notin {"ensure", "insert"} /\ y.op \notin FillOps \cup {"store"}
       => Tidy(<<x, y>>)
<1>1. Tidy(<<>>)
  BY DEF Tidy
<1>2. ASSUME NEW x \in Steps, x.op \notin {"ensure", "insert"} PROVE Tidy(<<x>>)
  <2>1. Len(<<x>>) = 1 /\ 1..1 = {1} /\ <<x>>[1] = x /\ 1..(1 - 1) = {}
    OBVIOUS
  <2> QED
    BY <1>2, <2>1 DEF Tidy
<1>3. ASSUME NEW x \in Steps, NEW y \in Steps, x.op \notin LastOps, y.op \notin FirstOps,
             x.op \notin {"ensure", "insert"}, y.op \notin FillOps \cup {"store"}
      PROVE  Tidy(<<x, y>>)
  <2>1. Len(<<x, y>>) = 2 /\ 1..2 = {1, 2} /\ <<x, y>>[1] = x /\ <<x, y>>[2] = y /\ 1..(1 - 1) = {}
    OBVIOUS
  <2>2. y.op \notin {"ensure", "insert"}
    BY <1>3 DEF FillOps
  <2> QED
    BY <1>3, <2>1, <2>2 DEF Tidy
<1> QED
  BY <1>1, <1>2, <1>3

LEMMA OneStep ==
  ASSUME NEW x \in Steps
  PROVE  <<x>> \in Seq(Steps) /\ <<>> \in Seq(Steps)
OBVIOUS

LEMMA TwoSteps ==
  ASSUME NEW x \in Steps, NEW y \in Steps
  PROVE  /\ <<x, y>> \in Seq(Steps) /\ <<x>> \o <<y>> = <<x, y>>
         /\ <<>> \o <<x>> = <<x>> /\ <<x>> \o <<>> = <<x>>
<1>1. <<x>> \in Seq(Steps) /\ <<y>> \in Seq(Steps) /\ <<x, y>> \in Seq(Steps)
  OBVIOUS
<1>2. <<>> \o <<x>> = <<x>> /\ <<x>> \o <<>> = <<x>>
  BY <1>1, ConcatEmptySeq
<1>3. Append(<<x>>, y) = <<x>> \o <<y>>
  BY <1>1, AppendIsConcat
<1>4. Append(<<x>>, y) = <<x, y>>
  <2> DEFINE p == Append(<<x>>, y)
             q == <<x, y>>
  <2>1. p \in Seq(Steps) /\ Len(p) = 2 /\ p[1] = x /\ p[2] = y
    BY <1>1, AppendProperties
  <2>2. q \in Seq(Steps) /\ Len(q) = 2 /\ q[1] = x /\ q[2] = y
    BY <1>1
  <2> HIDE DEF p, q
  <2>3. \A i \in 1..Len(p) : p[i] = q[i]
    <3>1. 1..2 = {1, 2}
      OBVIOUS
    <3> QED
      BY <2>1, <2>2, <3>1
  <2>4. p = q
    BY <2>1, <2>2, <2>3, SeqEqual
  <2> QED
    BY <2>4 DEF p, q
<1> QED
  BY <1>1, <1>2, <1>3, <1>4

\* The step that goroutine t takes.
LEMMA HeadFacts ==
  ASSUME Regular, NEW t \in Threads, NEW op, At(t, op)
  PROVE  /\ job[t] # <<>> /\ Head(job[t]) \in Steps /\ Head(job[t]).op = op
         /\ Head(job[t]) \in Left(t) /\ Left(t) = {Head(job[t])} \cup Rest(t) /\ Rest(t) \subseteq Steps
BY RestFacts DEF At, Regular, Ordered

\* A step that puts M in the place of the first one.
LEMMA Went ==
  ASSUME Regular, NEW t \in Threads, job[t] # <<>>, NEW a \in Seq(Steps), Continue(t, a),
         Fits(Head(job[t]), a), \A x \in Members(a) : x.op \in Pinned => t = <<"track", x.track>>
  PROVE  Ordered' /\ Left2(t, Members(a) \cup Rest(t))
<1>1. /\ job' \in [Threads -> Seq(Steps)] /\ (\A u \in Threads : Tidy(job[u])')
      /\ Left2(t, Members(a) \cup Rest(t))
  BY Passed DEF Regular, Ordered
<1>2. Left(t) = {Head(job[t])} \cup Rest(t)
  BY RestFacts DEF Regular, Ordered
<1>3. Placed'
  BY <1>1, <1>2 DEF Regular, Ordered, Placed, Left2
<1> QED
  BY <1>1, <1>3 DEF Ordered

LEMMA WentNone ==
  ASSUME Regular, NEW t \in Threads, NEW op, At(t, op), Continue(t, <<>>)
  PROVE  Ordered' /\ Left2(t, Rest(t))
<1>1. job[t] # <<>> /\ Head(job[t]) \in Steps
  BY HeadFacts
<1>2. <<>> \in Seq(Steps) /\ Members(<<>>) = {} /\ Fits(Head(job[t]), <<>>)
  BY <1>1, FitsShort, MembersFacts, EmptySeq
<1> QED
  BY <1>1, <1>2, Went

LEMMA WentOne ==
  ASSUME Regular, NEW t \in Threads, NEW op, At(t, op), NEW x \in Steps, Continue(t, <<x>>),
         op \in FillOps => x.op \in FillOps,
         x.op \in LastOps => op \in LastOps,
         x.op \in {"ensure", "insert"} => op \in {"ensure", "insert"} /\ x.pub = Head(job[t]).pub,
         x.op \notin Pinned
  PROVE  Ordered' /\ Left2(t, {x} \cup Rest(t))
<1>1. job[t] # <<>> /\ Head(job[t]) \in Steps /\ Head(job[t]).op = op
  BY HeadFacts
<1>2. <<x>> \in Seq(Steps) /\ Members(<<x>>) = {x}
  BY OneStep, MembersFacts
<1>3. Fits(Head(job[t]), <<x>>)
  BY <1>1, FitsShort
<1> QED
  BY <1>1, <1>2, <1>3, Went

LEMMA WentTwo ==
  ASSUME Regular, NEW t \in Threads, NEW op, At(t, op), NEW x \in Steps, NEW y \in Steps,
         Continue(t, <<x, y>>), op \notin FillOps, y.op \notin FirstOps, x.op \notin LastOps,
         y.op \notin LastOps, x.op \notin FillOps \cup {"store"}, y.op \notin FillOps \cup {"store"},
         x.op \notin Pinned, y.op \notin Pinned
  PROVE  Ordered' /\ Left2(t, {x, y} \cup Rest(t))
<1>1. job[t] # <<>> /\ Head(job[t]) \in Steps /\ Head(job[t]).op = op
  BY HeadFacts
<1>2. <<x, y>> \in Seq(Steps) /\ Members(<<x, y>>) = {x, y}
  BY TwoSteps, MembersFacts
<1>3. Fits(Head(job[t]), <<x, y>>)
  BY <1>1, FitsShort
<1> QED
  BY <1>1, <1>2, <1>3, Went

LEMMA Came ==
  ASSUME Regular, NEW t \in Threads, NEW a \in Seq(Steps), Start(t, a), Tidy(a),
         \A x \in Members(a) : x.op \in Pinned => t = <<"track", x.track>>
  PROVE  Ordered' /\ Left2(t, Members(a)) /\ Left(t) = {}
<1>1. /\ job' \in [Threads -> Seq(Steps)] /\ (\A u \in Threads : Tidy(job[u])')
      /\ Left2(t, Members(a)) /\ Left(t) = {}
  BY Begun DEF Regular, Ordered
<1>2. Placed'
  BY <1>1 DEF Regular, Ordered, Placed, Left2
<1> QED
  BY <1>1, <1>2 DEF Ordered

LEMMA CameOne ==
  ASSUME Regular, NEW t \in Threads, NEW x \in Steps, Start(t, <<x>>),
         x.op \notin {"ensure", "insert"}, x.op \in Pinned => t = <<"track", x.track>>
  PROVE  Ordered' /\ Left2(t, {x}) /\ Left(t) = {}
<1>1. <<x>> \in Seq(Steps) /\ Members(<<x>>) = {x} /\ Tidy(<<x>>)
  BY OneStep, MembersFacts, TidyShort
<1> QED
  BY <1>1, Came

LEMMA Chained ==
  ASSUME NEW c \in Steps, NEW b \in Seq(Steps)
  PROVE  /\ <<c>> \o b \in Seq(Steps) /\ Len(<<c>> \o b) = Len(b) + 1
         /\ (<<c>> \o b)[1] = c /\ \A i \in 2..(Len(b) + 1) : (<<c>> \o b)[i] = b[i - 1]
         /\ Members(<<c>> \o b) = {c} \cup Members(b)
<1> DEFINE d == <<c>>
<1>1. d \in Seq(Steps) /\ Len(d) = 1 /\ d[1] = c /\ Members(d) = {c} /\ Len(b) \in Nat
  BY MembersFacts, LenProperties
<1> HIDE DEF d
<1>2. d \o b \in Seq(Steps) /\ Members(d \o b) = {c} \cup Members(b)
  BY <1>1, Joined
<1>3. /\ Len(d \o b) = Len(d) + Len(b)
      /\ \A i \in 1..Len(d) + Len(b) : (d \o b)[i] = IF i <= Len(d) THEN d[i] ELSE b[i - Len(d)]
  <2>1. d \in Seq(Steps)
    BY <1>1
  <2> QED
    BY <2>1, ConcatProperties
<1>4. Len(d \o b) = Len(b) + 1 /\ (d \o b)[1] = c /\ \A i \in 2..(Len(b) + 1) : (d \o b)[i] = b[i - 1]
  BY <1>1, <1>3
<1> QED
  BY <1>2, <1>3, <1>4 DEF d

-----------------------------------------------------------------------------
(* The types, and what each step does to the pending ones                  *)

\* The steps of the goroutines, by their effect on what is pending.
LEMMA CloseSessionRegular ==
  ASSUME Regular, NEW t \in Threads, CloseSession(t)
  PROVE  LET s == Head(job[t]).session
             M == IF sess[s] = "shut" THEN {} ELSE {ForSession("edgeClosed", s)}
         IN  s \in Sessions /\ Head(job[t]) = ForSession("close", s)
             /\ Regular' /\ Left2(t, M \cup Rest(t))
<1> DEFINE s == Head(job[t]).session
           x == ForSession("edgeClosed", s)
<1>1. At(t, "close") /\ Head(job[t]) \in Steps /\ Head(job[t]).op = "close"
  BY HeadFacts DEF CloseSession
<1>2. s \in Sessions /\ Head(job[t]) = ForSession("close", s)
  BY <1>1, StepKinds
<1>3. x \in Steps /\ x.op = "edgeClosed"
  BY <1>2, StepFacts
<1>4. Ordered' /\ Left2(t, (IF sess[s] = "shut" THEN {} ELSE {x}) \cup Rest(t))
  <2>1. CASE sess[s] = "shut"
    BY <1>1, <2>1, WentNone DEF CloseSession
  <2>2. CASE sess[s] # "shut"
    <3>1. Continue(t, <<x>>)
      BY <2>2 DEF CloseSession
    <3> QED
      BY <1>1, <1>3, <2>2, <3>1, WentOne DEF FillOps, LastOps, Pinned
  <2> QED
    BY <2>1, <2>2
<1>5. Types'
  BY <1>2, <1>4 DEF Types, Regular, Ordered, CloseSession, Continue, pubVars, partVars
<1> QED
  BY <1>2, <1>4, <1>5 DEF Regular

LEMMA OnEdgeClosedRegular ==
  ASSUME Regular, NEW t \in Threads, OnEdgeClosed(t)
  PROVE  LET s == Head(job[t]).session
             D == IF speaker # None /\ Origin[speaker] = s THEN {ForTrack("drop", speaker)} ELSE {}
         IN  s \in Sessions /\ Head(job[t]) = ForSession("edgeClosed", s)
             /\ Regular' /\ Left2(t, D \cup {Recompute} \cup Rest(t))
<1> DEFINE s == Head(job[t]).session
           x == ForTrack("drop", speaker)
           ends == speaker # None /\ Origin[speaker] = s
<1>1. At(t, "edgeClosed") /\ Head(job[t]) \in Steps /\ Head(job[t]).op = "edgeClosed"
  BY HeadFacts DEF OnEdgeClosed
<1>2. s \in Sessions /\ Head(job[t]) = ForSession("edgeClosed", s)
  BY <1>1, StepKinds
<1>3. Recompute \in Steps /\ Recompute.op = "recompute"
  BY StepFacts
<1>4. Ordered' /\ Left2(t, (IF ends THEN {x} ELSE {}) \cup {Recompute} \cup Rest(t))
  <2>1. CASE ends
    <3>1. x \in Steps /\ x.op = "drop"
      BY <2>1, StepFacts DEF TrackOps, Regular, Types
    <3>2. Continue(t, <<x, Recompute>>)
      BY <1>3, <2>1, <3>1, TwoSteps DEF OnEdgeClosed
    <3>3. Ordered' /\ Left2(t, {x, Recompute} \cup Rest(t))
      BY <1>1, <1>3, <3>1, <3>2, WentTwo DEF FillOps, FirstOps, LastOps, Pinned
    <3>4. {x, Recompute} = {x} \cup {Recompute}
      OBVIOUS
    <3> QED
      BY <2>1, <3>3, <3>4
  <2>2. CASE ~ends
    <3>1. Continue(t, <<Recompute>>)
      BY <1>3, <2>2, TwoSteps DEF OnEdgeClosed
    <3>2. Ordered' /\ Left2(t, {Recompute} \cup Rest(t))
      BY <1>1, <1>3, <3>1, WentOne DEF FillOps, LastOps, Pinned
    <3> QED
      BY <2>2, <3>2
  <2> QED
    BY <2>1, <2>2
<1>5. Types'
  BY <1>2, <1>4 DEF Types, Regular, Ordered, OnEdgeClosed, Continue, pubVars, partVars
<1> QED
  BY <1>2, <1>4, <1>5 DEF Regular

\* A rejected track; one that is accepted is the subject of the next lemma.
LEMMA RejectedRegular ==
  ASSUME Regular, NEW t \in Threads, OnRemoteTrack(t), ~Accepted(t[2])
  PROVE  /\ t[2] \in Tracks /\ Head(job[t]) = ForTrack("arrive", t[2])
         /\ Regular' /\ Left2(t, Rest(t))
         /\ UNCHANGED <<speaker, rp>>
<1>1. At(t, "arrive") /\ Head(job[t]) \in Steps /\ Head(job[t]).op = "arrive" /\ Head(job[t]) \in Left(t)
  BY HeadFacts DEF OnRemoteTrack
<1>2. t[2] \in Tracks /\ Head(job[t]) = ForTrack("arrive", t[2])
  <2>1. t = <<"track", Head(job[t]).track>>
    BY <1>1 DEF Regular, Ordered, Placed, Pinned
  <2> QED
    BY <1>1, <2>1, StepKinds DEF TrackOps
<1>3. Continue(t, <<>>) /\ UNCHANGED <<speaker, rp>> /\ track' = [track EXCEPT ![t[2]] = "drained"]
  BY DEF OnRemoteTrack
<1>4. Ordered' /\ Left2(t, Rest(t))
  BY <1>1, <1>3, WentNone
<1>5. Types'
  BY <1>2, <1>3, <1>4 DEF Types, Regular, Ordered, OnRemoteTrack, Continue, pubVars, partVars
<1> QED
  BY <1>2, <1>3, <1>4, <1>5 DEF Regular

LEMMA AcceptedRegular ==
  ASSUME Regular, NEW t \in Threads, OnRemoteTrack(t), Accepted(t[2])
  PROVE  LET k == t[2]
             old == IF speaker = None THEN None ELSE rp[speaker]
             C == IF old # None THEN {ForPub("closePub", old)} ELSE {}
         IN  /\ k \in Tracks /\ Head(job[t]) = ForTrack("arrive", k) /\ Rest(t) = {}
             /\ Regular' /\ speaker' = k
             /\ Left2(t, C \cup {ForTrack("register", k), Recompute, ForTrack("read", k)})
<1> DEFINE k == t[2]
           old == IF speaker = None THEN None ELSE rp[speaker]
           c == ForPub("closePub", old)
           x == ForTrack("register", k)
           z == ForTrack("read", k)
           b == <<x, Recompute, z>>
           a == (IF old # None THEN <<c>> ELSE <<>>) \o b
           C == IF old # None THEN {c} ELSE {}
<1>1. /\ At(t, "arrive") /\ Head(job[t]) \in Steps /\ Head(job[t]).op = "arrive"
      /\ Head(job[t]) \in Left(t) /\ job[t] # <<>>
  BY HeadFacts DEF OnRemoteTrack
<1>2. k \in Tracks /\ t = <<"track", k>> /\ Head(job[t]) = ForTrack("arrive", k)
  <2>1. t = <<"track", Head(job[t]).track>>
    BY <1>1 DEF Regular, Ordered, Placed, Pinned
  <2> QED
    BY <1>1, <2>1, StepKinds DEF TrackOps
<1>3. Rest(t) = {}
  BY <1>1, RestFacts DEF Regular, Ordered, LastOps
<1>4. /\ x \in Steps /\ x.op = "register" /\ z \in Steps /\ z.op = "read" /\ z.track = k
      /\ Recompute \in Steps /\ Recompute.op = "recompute"
  BY <1>2, StepFacts DEF TrackOps
<1>5. old # None => c \in Steps /\ c.op = "closePub"
  <2>1. old # None => old \in Pubs
    BY DEF Regular, Types
  <2> QED
    BY <2>1, StepFacts DEF PubOps
<1>6. /\ b \in Seq(Steps) /\ Members(b) = {x, Recompute, z} /\ Len(b) = 3
      /\ b[1] = x /\ b[2] = Recompute /\ b[3] = z
  BY <1>4, MembersFacts
<1>7. a \in Seq(Steps) /\ Members(a) = C \cup {x, Recompute, z}
  <2>1. CASE old # None
    <3>1. a = <<c>> \o b /\ C = {c} /\ c \in Steps
      BY <1>5, <2>1
    <3> HIDE DEF a, b, c, C, x, z
    <3>2. <<c>> \o b \in Seq(Steps) /\ Members(<<c>> \o b) = {c} \cup Members(b)
      BY <1>6, <3>1, Chained
    <3> QED
      BY <1>6, <3>1, <3>2
  <2>2. CASE old = None
    <3> HIDE DEF b, c
    <3>1. <<>> \o b = b
      BY <1>6, ConcatEmptySeq
    <3> QED
      BY <1>6, <2>2, <3>1
  <2> QED
    BY <2>1, <2>2
<1>8. Fits(Head(job[t]), a)
  <2>1. /\ Head(job[t]).op \in LastOps /\ Head(job[t]).op \notin FillOps
    BY <1>1 DEF LastOps, FillOps
  <2>2. /\ x.op \notin FirstOps \cup LastOps \cup FillOps \cup {"store", "ensure", "insert"}
        /\ Recompute.op \notin FirstOps \cup LastOps \cup FillOps \cup {"store", "ensure", "insert"}
        /\ z.op \notin FirstOps \cup FillOps \cup {"store", "ensure", "insert"}
        /\ old # None => c.op \notin LastOps \cup FillOps \cup {"store", "ensure", "insert"}
    BY <1>4, <1>5 DEF LastOps, FillOps, FirstOps
  <2>3. CASE old # None
    <3>1. a = <<c>> \o b /\ c \in Steps
      BY <1>5, <2>3
    <3>2. /\ Len(a) = 4 /\ a[1] = c /\ a[2] = x /\ a[3] = Recompute /\ a[4] = z
      <4> HIDE DEF a, b, c, x, z
      <4>1. b \in Seq(Steps)
        BY <1>6
      <4>2. Len(a) = Len(b) + 1 /\ a[1] = c /\ \A i \in 2..(Len(b) + 1) : a[i] = b[i - 1]
        BY <3>1, <4>1, Chained
      <4> QED
        BY <1>6, <4>2
    <3>3. 1..4 = {1, 2, 3, 4}
      OBVIOUS
    <3> HIDE DEF a, c, x, z
    <3> QED
      BY <2>1, <2>2, <2>3, <3>2, <3>3 DEF Fits
  <2>4. CASE old = None
    <3>1. a = b
      <4> HIDE DEF b
      <4> QED
        BY <1>6, <2>4, ConcatEmptySeq
    <3>2. 1..3 = {1, 2, 3}
      OBVIOUS
    <3> HIDE DEF a, b, x, z
    <3> QED
      BY <1>6, <2>1, <2>2, <2>4, <3>1, <3>2 DEF Fits
  <2> QED
    BY <2>3, <2>4
<1>9. /\ speaker' = k /\ track' = track /\ Continue(t, a)
      /\ rp' = [y \in Tracks |-> IF y = speaker THEN None ELSE rp[y]]
  BY DEF OnRemoteTrack
<1>10. \A y \in Members(a) : y.op \in Pinned => t = <<"track", y.track>>
  <2> HIDE DEF a, c, x, z
  <2> QED
    BY <1>2, <1>4, <1>5, <1>7 DEF Pinned
<1>11. Ordered' /\ Left2(t, Members(a) \cup Rest(t))
  <2> HIDE DEF a
  <2> QED
    BY <1>1, <1>7, <1>8, <1>9, <1>10, Went
<1>12. Types'
  BY <1>2, <1>9, <1>11 DEF Types, Regular, Ordered, OnRemoteTrack, pubVars, partVars, Continue
<1> QED
  BY <1>2, <1>3, <1>7, <1>9, <1>11, <1>12 DEF Regular

LEMMA ReadLoopRegular ==
  ASSUME Regular, NEW t \in Threads, ReadLoop(t)
  PROVE  /\ Head(job[t]).op = "read" /\ Head(job[t]) \in Steps
         /\ Regular' /\ Left2(t, Rest(t))
<1>1. At(t, "read") /\ Head(job[t]) \in Steps /\ Head(job[t]).op = "read" /\ Continue(t, <<>>)
  BY HeadFacts DEF ReadLoop
<1>2. Ordered' /\ Left2(t, Rest(t))
  BY <1>1, WentNone
<1>3. Types'
  BY <1>1, <1>2 DEF Types, Regular, Ordered, ReadLoop, Continue, pubVars, partVars
<1> QED
  BY <1>1, <1>2, <1>3 DEF Regular

LEMMA EndedRegular ==
  ASSUME Regular, NEW t \in Threads, OnRemoteSpeakerEnded(t)
  PROVE  /\ t[2] \in Tracks /\ Head(job[t]) = ForTrack("ended", t[2])
         /\ Regular' /\ Left2(t, {ForTrack("drop", t[2]), Recompute} \cup Rest(t))
<1> DEFINE x == ForTrack("drop", t[2])
<1>1. At(t, "ended") /\ Head(job[t]) \in Steps /\ Head(job[t]).op = "ended" /\ Head(job[t]) \in Left(t)
  BY HeadFacts DEF OnRemoteSpeakerEnded
<1>2. t[2] \in Tracks /\ Head(job[t]) = ForTrack("ended", t[2])
  <2>1. t = <<"track", Head(job[t]).track>>
    BY <1>1 DEF Regular, Ordered, Placed, Pinned
  <2> QED
    BY <1>1, <2>1, StepKinds DEF TrackOps
<1>3. Recompute \in Steps /\ Recompute.op = "recompute" /\ x \in Steps /\ x.op = "drop"
  BY <1>2, StepFacts DEF TrackOps
<1>4. Continue(t, <<x, Recompute>>)
  BY DEF OnRemoteSpeakerEnded
<1>5. Ordered' /\ Left2(t, {x, Recompute} \cup Rest(t))
  BY <1>1, <1>3, <1>4, WentTwo DEF FillOps, FirstOps, LastOps, Pinned
<1>6. Types'
  BY <1>2, <1>5 DEF Types, Regular, Ordered, OnRemoteSpeakerEnded, Continue, pubVars, partVars
<1> QED
  BY <1>2, <1>5, <1>6 DEF Regular

LEMMA DropRegular ==
  ASSUME Regular, NEW t \in Threads, DropPublisher(t)
  PROVE  LET k == Head(job[t]).track
             M == IF rp[k] # None THEN {ForPub("closePub", rp[k])} ELSE {}
         IN  k \in Tracks /\ Head(job[t]) = ForTrack("drop", k)
             /\ Regular' /\ Left2(t, M \cup Rest(t))
<1> DEFINE k == Head(job[t]).track
           x == ForPub("closePub", rp[k])
<1>1. At(t, "drop") /\ Head(job[t]) \in Steps /\ Head(job[t]).op = "drop"
  BY HeadFacts DEF DropPublisher
<1>2. k \in Tracks /\ Head(job[t]) = ForTrack("drop", k)
  BY <1>1, StepKinds DEF TrackOps
<1>3. rp[k] # None => x \in Steps /\ x.op = "closePub"
  <2>1. rp[k] # None => rp[k] \in Pubs
    BY <1>2 DEF Regular, Types
  <2> QED
    BY <2>1, StepFacts DEF PubOps
<1>4. Ordered' /\ Left2(t, (IF rp[k] # None THEN {x} ELSE {}) \cup Rest(t))
  <2>1. CASE rp[k] = None
    BY <1>1, <2>1, WentNone DEF DropPublisher
  <2>2. CASE rp[k] # None
    <3>1. Continue(t, <<x>>)
      BY <2>2 DEF DropPublisher
    <3> QED
      BY <1>1, <1>3, <2>2, <3>1, WentOne DEF FillOps, LastOps, Pinned
  <2> QED
    BY <2>1, <2>2
<1>5. Types'
  BY <1>2, <1>4 DEF Types, Regular, Ordered, DropPublisher, Continue, pubVars, partVars
<1> QED
  BY <1>2, <1>4, <1>5 DEF Regular

LEMMA SetToSeqFacts ==
  ASSUME NEW S, IsFiniteSet(S)
  PROVE  SetToSeq(S) \in Seq(S) /\ Members(SetToSeq(S)) = S
<1> DEFINE n == Cardinality(S)
           s == SetToSeq(S)
<1>1. n \in Nat /\ ExistsBijection(1..n, S)
  BY FS_CardinalityType
<1>2. PICK g : g \in Bijection(1..n, S)
  BY <1>1 DEF ExistsBijection
<1>3. g \in [1..n -> S] /\ IsInjective(g)
  BY <1>2 DEF Bijection, Injection
<1>4. s \in [1..n -> S] /\ IsInjective(s)
  <2>1. \E f \in [1..n -> S] : IsInjective(f)
    BY <1>3
  <2> QED
    BY <2>1 DEF SetToSeq
<1>5. s \in Surjection(1..n, S)
  <2>1. s \in Injection(1..n, S)
    BY <1>4 DEF Injection
  <2>2. IsFiniteSet(1..n) /\ Cardinality(1..n) = n
    BY <1>1, FS_Interval
  <2> HIDE DEF s
  <2> QED
    BY <2>1, <2>2, FS_Injection
<1>6. s \in Seq(S) /\ Len(s) = n
  BY <1>1, <1>4
<1> HIDE DEF s, n
<1>7. Members(s) = S
  BY <1>4, <1>5, <1>6 DEF Surjection, Members
<1> QED
  BY <1>6, <1>7 DEF s

\* The steps of AddRemotePublisher for its publisher.
Filling(p, k, m) ==
  [i \in 1..Len(m) |-> ForListener("ensure", p, m[i])] \o <<ForPub("rebuild", p), Store(k, p)>>

LEMMA FillingFacts ==
  ASSUME NEW p \in Pubs, NEW k \in Tracks, NEW m \in Seq(Listeners)
  PROVE  /\ Filling(p, k, m) \in Seq(Steps)
         /\ Members(Filling(p, k, m)) =
              {ForListener("ensure", p, l) : l \in Members(m)} \cup {ForPub("rebuild", p), Store(k, p)}
         /\ \A h \in Steps : h.op = "register" => Fits(h, Filling(p, k, m))
<1> DEFINE n == Len(m)
           e == [i \in 1..n |-> ForListener("ensure", p, m[i])]
           x == ForPub("rebuild", p)
           y == Store(k, p)
           b == <<x, y>>
           a == Filling(p, k, m)
<1>1. n \in Nat /\ \A i \in 1..n : m[i] \in Listeners
  BY LenProperties, ElementOfSeq
<1>2. \A i \in 1..n : /\ ForListener("ensure", p, m[i]) \in Steps
                      /\ ForListener("ensure", p, m[i]).op = "ensure"
                      /\ ForListener("ensure", p, m[i]).pub = p
  BY <1>1, StepFacts
<1>3. e \in Seq(Steps) /\ Len(e) = n /\ \A i \in 1..n : e[i] = ForListener("ensure", p, m[i])
  BY <1>1, <1>2
<1>4. x \in Steps /\ x.op = "rebuild" /\ x.pub = p /\ y \in Steps /\ y.op = "store"
  BY StepFacts DEF PubOps
<1>5. b \in Seq(Steps) /\ Len(b) = 2 /\ b[1] = x /\ b[2] = y /\ Members(b) = {x, y}
  BY <1>4, TwoSteps, MembersFacts
<1>6. a = e \o b
  BY DEF Filling
<1>7. Members(e) = {ForListener("ensure", p, l) : l \in Members(m)}
  <2> HIDE DEF e
  <2> QED
    BY <1>3 DEF Members
<1> HIDE DEF e, b, x, y, n, a
<1>8. a \in Seq(Steps) /\ Members(a) = Members(e) \cup Members(b)
  <2>1. e \in Seq(Steps) /\ b \in Seq(Steps)
    BY <1>3, <1>5
  <2> QED
    BY <1>6, <2>1, Joined
<1>9. /\ Len(a) = n + 2 /\ a[n + 1] = x /\ a[n + 2] = y
      /\ \A i \in 1..n : a[i] = e[i]
  <2>1. e \in Seq(Steps) /\ b \in Seq(Steps)
    BY <1>3, <1>5
  <2>2. Len(a) = Len(e) + Len(b) /\ \A i \in 1..Len(e) + Len(b) : a[i] = IF i <= Len(e) THEN e[i] ELSE b[i - Len(e)]
    BY <1>6, <2>1, ConcatProperties
  <2>3. n + 1 \in 1..(n + 2) /\ ~(n + 1 <= n) /\ n + 1 - n = 1
    BY <1>1
  <2>4. n + 2 \in 1..(n + 2) /\ ~(n + 2 <= n) /\ n + 2 - n = 2
    BY <1>1
  <2>5. \A i \in 1..n : i \in 1..(n + 2) /\ i <= n
    BY <1>1
  <2> QED
    BY <1>1, <1>3, <1>5, <2>2, <2>3, <2>4, <2>5
<1>10. ASSUME NEW h \in Steps, h.op = "register" PROVE Fits(h, a)
  <2>1. h.op \notin FillOps
    BY <1>10 DEF FillOps
  <2>2. \A i \in 1..n : a[i].op = "ensure" /\ a[i].pub = p
    BY <1>2, <1>3, <1>9
  <2>3. \A i \in 1..Len(a) : i \in 1..n \/ i = n + 1 \/ i = n + 2
    BY <1>1, <1>9
  <2>4. \A i \in 1..Len(a) : a[i].op \in {"ensure", "rebuild", "store"}
    BY <1>4, <1>9, <2>2, <2>3
  <2>5. \A i \in 1..Len(a) : a[i].op \notin FirstOps \cup LastOps
    BY <2>4 DEF FirstOps, LastOps
  <2>6. \A i \in 1..Len(a) : \A j \in 1..(i - 1) : a[j].op \in FillOps
    <3> SUFFICES ASSUME NEW i \in 1..Len(a), NEW j \in 1..(i - 1) PROVE a[j].op \in FillOps
      OBVIOUS
    <3>1. j \in 1..n \/ j = n + 1
      BY <1>1, <1>9
    <3> QED
      BY <1>4, <1>9, <2>2, <3>1 DEF FillOps
  <2>7. \A i \in 1..Len(a) : a[i].op \in {"ensure", "insert"} =>
          \E j \in (i + 1)..Len(a) : a[j] = ForPub("rebuild", a[i].pub)
    <3> SUFFICES ASSUME NEW i \in 1..Len(a), a[i].op \in {"ensure", "insert"}
                 PROVE  \E j \in (i + 1)..Len(a) : a[j] = ForPub("rebuild", a[i].pub)
      OBVIOUS
    <3>1. i \in 1..n
      BY <1>4, <1>9, <2>3
    <3>2. n + 1 \in (i + 1)..Len(a)
      BY <1>1, <1>9, <3>1
    <3> QED
      BY <1>9, <2>2, <3>1, <3>2 DEF x
  <2> QED
    BY <2>1, <2>5, <2>6, <2>7 DEF Fits
<1> QED
  BY <1>5, <1>7, <1>8, <1>10 DEF a, x, y

\* AddRemotePublisher refuses, or makes a publisher that nothing knows.
LEMMA AddRegular ==
  ASSUME Regular, NEW t \in Threads, AddRemotePublisher(t)
  PROVE  LET k == Head(job[t]).track
             p == FreshPub
         IN  /\ k \in Tracks /\ Head(job[t]) = ForTrack("register", k) /\ Regular'
             /\ \/ /\ ~room \/ entry # None
                   /\ UNCHANGED <<entry, closed, fan>> /\ Left2(t, Rest(t))
                \/ /\ room /\ entry = None /\ p \in Pubs /\ ~InUse(p)
                   /\ entry' = p /\ closed' = {q \in closed : InUse(q)} /\ fan' = [fan EXCEPT ![p] = {}]
                   /\ Left2(t, {ForListener("ensure", p, l) : l \in Listed}
                               \cup {ForPub("rebuild", p), Store(k, p)} \cup Rest(t))
<1> DEFINE k == Head(job[t]).track
           p == FreshPub
           m == SetToSeq(Listed)
<1>1. /\ At(t, "register") /\ Head(job[t]) \in Steps /\ Head(job[t]).op = "register"
      /\ job[t] # <<>>
  BY HeadFacts DEF AddRemotePublisher
<1>2. k \in Tracks /\ Head(job[t]) = ForTrack("register", k)
  BY <1>1, StepKinds DEF TrackOps
<1>3. CASE (~room \/ entry # None) /\ Continue(t, <<>>) /\ UNCHANGED <<entry, closed, fan>>
  <2>1. Ordered' /\ Left2(t, Rest(t))
    BY <1>1, <1>3, WentNone
  <2>2. Types'
    BY <1>3, <2>1 DEF Types, Regular, Ordered, AddRemotePublisher, Continue, linkVars, partVars
  <2> QED
    BY <1>2, <1>3, <2>1, <2>2 DEF Regular
<1>4. CASE /\ room /\ entry = None /\ \E q \in Pubs : ~InUse(q)
           /\ entry' = p /\ closed' = {q \in closed : InUse(q)} /\ fan' = [fan EXCEPT ![p] = {}]
           /\ Continue(t, Filling(p, k, m))
  <2>1. p \in Pubs /\ ~InUse(p)
    BY <1>4 DEF FreshPub
  <2>2. IsFiniteSet(Listed) /\ Listed \subseteq Listeners
    BY ListenerAssumption, FS_Subset DEF Listed
  <2>3. m \in Seq(Listeners) /\ Members(m) = Listed
    <3>1. m \in Seq(Listed) /\ Members(m) = Listed
      BY <2>2, SetToSeqFacts
    <3> HIDE DEF m
    <3> QED
      BY <2>2, <3>1, SeqMonotonic
  <2> HIDE DEF m, p
  <2>4. /\ Filling(p, k, m) \in Seq(Steps) /\ Fits(Head(job[t]), Filling(p, k, m))
        /\ Members(Filling(p, k, m)) =
             {ForListener("ensure", p, l) : l \in Listed} \cup {ForPub("rebuild", p), Store(k, p)}
    BY <1>1, <1>2, <2>1, <2>3, FillingFacts
  <2>5. \A x \in Members(Filling(p, k, m)) : x.op \notin Pinned
    <3>1. /\ \A l \in Listed : ForListener("ensure", p, l).op = "ensure"
          /\ ForPub("rebuild", p).op = "rebuild" /\ Store(k, p).op = "store"
      BY <1>2, <2>1, <2>2, StepFacts DEF PubOps
    <3> QED
      BY <2>4, <3>1 DEF Pinned
  <2>6. Ordered' /\ Left2(t, Members(Filling(p, k, m)) \cup Rest(t))
    BY <1>1, <1>4, <2>4, <2>5, Went
  <2>7. Types'
    BY <1>4, <2>1, <2>6 DEF Types, Regular, Ordered, AddRemotePublisher, Continue, linkVars, partVars
  <2> QED
    BY <1>2, <1>4, <2>1, <2>4, <2>6, <2>7 DEF Regular, p
<1> QED
  BY <1>3, <1>4 DEF AddRemotePublisher, Filling, Store

LEMMA StoreRegular ==
  ASSUME Regular, NEW t \in Threads, StorePublisher(t)
  PROVE  LET k == Head(job[t]).track
             p == Head(job[t]).pub
         IN  /\ k \in Tracks /\ p \in Pubs /\ Head(job[t]) = Store(k, p) /\ Regular'
             /\ rp' = [rp EXCEPT ![k] = p] /\ Left2(t, {ForTrack("recheck", k)} \cup Rest(t))
<1> DEFINE k == Head(job[t]).track
           p == Head(job[t]).pub
           x == ForTrack("recheck", k)
<1>1. At(t, "store") /\ Head(job[t]) \in Steps /\ Head(job[t]).op = "store"
  BY HeadFacts DEF StorePublisher
<1>2. k \in Tracks /\ p \in Pubs /\ Head(job[t]) = Store(k, p)
  BY <1>1, StepKinds
<1>3. x \in Steps /\ x.op = "recheck"
  BY <1>2, StepFacts DEF TrackOps
<1>4. Continue(t, <<x>>) /\ rp' = [rp EXCEPT ![k] = p]
  BY DEF StorePublisher
<1>5. Ordered' /\ Left2(t, {x} \cup Rest(t))
  BY <1>1, <1>3, <1>4, WentOne DEF FillOps, LastOps, Pinned
<1>6. Types'
  BY <1>2, <1>4, <1>5 DEF Types, Regular, Ordered, StorePublisher, Continue, pubVars, partVars
<1> QED
  BY <1>2, <1>4, <1>5, <1>6 DEF Regular

LEMMA RecheckRegular ==
  ASSUME Regular, NEW t \in Threads, Recheck(t)
  PROVE  LET k == Head(job[t]).track
             M == IF speaker # k THEN {ForTrack("drop", k)} ELSE {}
         IN  /\ k \in Tracks /\ Head(job[t]) = ForTrack("recheck", k) /\ Regular'
             /\ Left2(t, M \cup Rest(t))
<1> DEFINE k == Head(job[t]).track
           x == ForTrack("drop", k)
<1>1. At(t, "recheck") /\ Head(job[t]) \in Steps /\ Head(job[t]).op = "recheck"
  BY HeadFacts DEF Recheck
<1>2. k \in Tracks /\ Head(job[t]) = ForTrack("recheck", k)
  BY <1>1, StepKinds DEF TrackOps
<1>3. x \in Steps /\ x.op = "drop"
  BY <1>2, StepFacts DEF TrackOps
<1>4. Ordered' /\ Left2(t, (IF speaker # k THEN {x} ELSE {}) \cup Rest(t))
  <2>1. CASE speaker = k
    BY <1>1, <2>1, WentNone DEF Recheck
  <2>2. CASE speaker # k
    <3>1. Continue(t, <<x>>)
      BY <2>2 DEF Recheck
    <3> QED
      BY <1>1, <1>3, <2>2, <3>1, WentOne DEF FillOps, LastOps, Pinned
  <2> QED
    BY <2>1, <2>2
<1>5. Types'
  BY <1>4 DEF Types, Regular, Ordered, Recheck, Continue, linkVars, pubVars, partVars
<1> QED
  BY <1>2, <1>4, <1>5 DEF Regular

LEMMA ClosePublisherRegular ==
  ASSUME Regular, NEW t \in Threads, ClosePublisher(t)
  PROVE  LET p == Head(job[t]).pub
             M == IF p \in closed THEN {} ELSE {ForPub("unlist", p)}
         IN  /\ p \in Pubs /\ Head(job[t]) = ForPub("closePub", p) /\ Regular'
             /\ closed' = closed \cup {p} /\ Left2(t, M \cup Rest(t))
<1> DEFINE p == Head(job[t]).pub
           x == ForPub("unlist", p)
<1>1. At(t, "closePub") /\ Head(job[t]) \in Steps /\ Head(job[t]).op = "closePub"
  BY HeadFacts DEF ClosePublisher
<1>2. p \in Pubs /\ Head(job[t]) = ForPub("closePub", p)
  BY <1>1, StepKinds DEF PubOps
<1>3. x \in Steps /\ x.op = "unlist"
  BY <1>2, StepFacts DEF PubOps
<1>4. Ordered' /\ Left2(t, (IF p \in closed THEN {} ELSE {x}) \cup Rest(t))
  <2>1. CASE p \in closed
    BY <1>1, <2>1, WentNone DEF ClosePublisher
  <2>2. CASE p \notin closed
    <3>1. Continue(t, <<x>>)
      BY <2>2 DEF ClosePublisher
    <3> QED
      BY <1>1, <1>3, <2>2, <3>1, WentOne DEF FillOps, LastOps, Pinned
  <2> QED
    BY <2>1, <2>2
<1>5. Types' /\ closed' = closed \cup {p}
  BY <1>2, <1>4 DEF Types, Regular, Ordered, ClosePublisher, Continue, linkVars, partVars
<1> QED
  BY <1>2, <1>4, <1>5 DEF Regular

LEMMA UnlistRegular ==
  ASSUME Regular, NEW t \in Threads, Unlist(t)
  PROVE  LET p == Head(job[t]).pub
         IN  /\ p \in Pubs /\ Head(job[t]) = ForPub("unlist", p) /\ Regular'
             /\ entry' = (IF entry = p THEN None ELSE entry) /\ Left2(t, Rest(t))
<1> DEFINE p == Head(job[t]).pub
<1>1. At(t, "unlist") /\ Head(job[t]) \in Steps /\ Head(job[t]).op = "unlist"
  BY HeadFacts DEF Unlist
<1>2. p \in Pubs /\ Head(job[t]) = ForPub("unlist", p)
  BY <1>1, StepKinds DEF PubOps
<1>3. Ordered' /\ Left2(t, Rest(t))
  BY <1>1, WentNone DEF Unlist
<1>4. Types' /\ entry' = (IF entry = p THEN None ELSE entry)
  BY <1>2, <1>3 DEF Types, Regular, Ordered, Unlist, Continue, linkVars, partVars
<1> QED
  BY <1>2, <1>3, <1>4 DEF Regular

LEMMA RecomputeRegular ==
  ASSUME Regular, NEW t \in Threads, RecomputeRoom(t)
  PROVE  LET M == IF speaker # None /\ rp[speaker] = None THEN {ForTrack("register", speaker)} ELSE {}
         IN  Head(job[t]) = Recompute /\ Regular' /\ Left2(t, M \cup Rest(t))
<1> DEFINE x == ForTrack("register", speaker)
           wants == speaker # None /\ rp[speaker] = None
<1>1. At(t, "recompute") /\ Head(job[t]) \in Steps /\ Head(job[t]).op = "recompute"
  BY HeadFacts DEF RecomputeRoom
<1>2. Head(job[t]) = Recompute
  BY <1>1, StepKinds
<1>3. speaker # None => x \in Steps /\ x.op = "register"
  BY StepFacts DEF TrackOps, Regular, Types
<1>4. Ordered' /\ Left2(t, (IF wants THEN {x} ELSE {}) \cup Rest(t))
  <2>1. CASE ~wants
    BY <1>1, <2>1, WentNone DEF RecomputeRoom
  <2>2. CASE wants
    <3>1. Continue(t, <<x>>)
      BY <2>2 DEF RecomputeRoom
    <3> QED
      BY <1>1, <1>3, <2>2, <3>1, WentOne DEF FillOps, LastOps, Pinned
  <2> QED
    BY <2>1, <2>2
<1>5. Types'
  BY <1>4 DEF Types, Regular, Ordered, RecomputeRoom, Continue, linkVars, pubVars, partVars
<1> QED
  BY <1>2, <1>4, <1>5 DEF Regular

LEMMA EnsureRegular ==
  ASSUME Regular, NEW t \in Threads, EnsureRemoteDownTrack(t)
  PROVE  LET p == Head(job[t]).pub
             l == Head(job[t]).listener
             wanted == p \notin closed /\ RemoteShouldForward(l)
             M == IF wanted /\ owner[l] = None THEN {ForListener("insert", p, l)} ELSE {}
         IN  /\ p \in Pubs /\ l \in Listeners /\ Head(job[t]) = ForListener("ensure", p, l) /\ Regular'
             /\ owner' = (IF wanted /\ owner[l] # None THEN [owner EXCEPT ![l] = p] ELSE owner)
             /\ Left2(t, M \cup Rest(t))
<1> DEFINE p == Head(job[t]).pub
           l == Head(job[t]).listener
           wanted == p \notin closed /\ RemoteShouldForward(l)
           x == ForListener("insert", p, l)
<1>1. At(t, "ensure") /\ Head(job[t]) \in Steps /\ Head(job[t]).op = "ensure"
  BY HeadFacts DEF EnsureRemoteDownTrack
<1>2. p \in Pubs /\ l \in Listeners /\ Head(job[t]) = ForListener("ensure", p, l)
  BY <1>1, StepKinds
<1>3. x \in Steps /\ x.op = "insert" /\ x.pub = p
  BY <1>2, StepFacts
<1>4. Ordered' /\ Left2(t, (IF wanted /\ owner[l] = None THEN {x} ELSE {}) \cup Rest(t))
  <2>1. CASE ~(wanted /\ owner[l] = None)
    BY <1>1, <2>1, WentNone DEF EnsureRemoteDownTrack
  <2>2. CASE wanted /\ owner[l] = None
    <3>1. Continue(t, <<x>>)
      BY <2>2 DEF EnsureRemoteDownTrack
    <3>2. Ordered' /\ Left2(t, {x} \cup Rest(t))
      <4> HIDE DEF x, p
      <4> QED
        BY <1>1, <1>3, <3>1, WentOne DEF FillOps, LastOps, Pinned, p
    <3> QED
      BY <2>2, <3>2
  <2> QED
    BY <2>1, <2>2
<1>5. owner' = (IF wanted /\ owner[l] # None THEN [owner EXCEPT ![l] = p] ELSE owner)
  BY DEF EnsureRemoteDownTrack
<1>6. Types'
  <2> HIDE DEF wanted, p, l
  <2> QED
    BY <1>2, <1>4, <1>5 DEF Types, Regular, Ordered, EnsureRemoteDownTrack, Continue, linkVars, pubVars
<1> QED
  BY <1>2, <1>4, <1>5, <1>6 DEF Regular

LEMMA InsertRegular ==
  ASSUME Regular, NEW t \in Threads, InsertDownTrack(t)
  PROVE  LET p == Head(job[t]).pub
             l == Head(job[t]).listener
         IN  /\ p \in Pubs /\ l \in Listeners /\ Head(job[t]) = ForListener("insert", p, l) /\ Regular'
             /\ owner' = (IF l \in Listed THEN [owner EXCEPT ![l] = p] ELSE owner)
             /\ Left2(t, Rest(t))
<1> DEFINE p == Head(job[t]).pub
           l == Head(job[t]).listener
<1>1. At(t, "insert") /\ Head(job[t]) \in Steps /\ Head(job[t]).op = "insert"
  BY HeadFacts DEF InsertDownTrack
<1>2. p \in Pubs /\ l \in Listeners /\ Head(job[t]) = ForListener("insert", p, l)
  BY <1>1, StepKinds
<1>3. Ordered' /\ Left2(t, Rest(t))
  BY <1>1, WentNone DEF InsertDownTrack
<1>4. owner' = (IF l \in Listed THEN [owner EXCEPT ![l] = p] ELSE owner)
  BY DEF InsertDownTrack
<1>5. Types'
  <2> HIDE DEF p, l
  <2> QED
    BY <1>2, <1>3, <1>4 DEF Types, Regular, Ordered, InsertDownTrack, Continue, linkVars, pubVars
<1> QED
  BY <1>2, <1>3, <1>4, <1>5 DEF Regular

LEMMA RebuildRegular ==
  ASSUME Regular, NEW t \in Threads, RebuildRemoteFanout(t)
  PROVE  LET p == Head(job[t]).pub
         IN  /\ p \in Pubs /\ Head(job[t]) = ForPub("rebuild", p) /\ Regular'
             /\ fan' = (IF p \in closed THEN fan ELSE [fan EXCEPT ![p] = Audience(p)])
             /\ Left2(t, Rest(t))
<1> DEFINE p == Head(job[t]).pub
<1>1. At(t, "rebuild") /\ Head(job[t]) \in Steps /\ Head(job[t]).op = "rebuild"
  BY HeadFacts DEF RebuildRemoteFanout
<1>2. p \in Pubs /\ Head(job[t]) = ForPub("rebuild", p)
  BY <1>1, StepKinds DEF PubOps
<1>3. Ordered' /\ Left2(t, Rest(t))
  BY <1>1, WentNone DEF RebuildRemoteFanout
<1>4. fan' = (IF p \in closed THEN fan ELSE [fan EXCEPT ![p] = Audience(p)])
  BY DEF RebuildRemoteFanout, Audience
<1>5. Audience(p) \subseteq Listeners
  BY DEF Audience
<1>6. Types'
  <2> HIDE DEF p
  <2> QED
    BY <1>2, <1>3, <1>4, <1>5 DEF Types, Regular, Ordered, RebuildRemoteFanout, Continue, linkVars, partVars
<1> QED
  BY <1>2, <1>3, <1>4, <1>6 DEF Regular

-----------------------------------------------------------------------------
(* The operations that begin                                               *)

LEMMA EstablishRegular ==
  ASSUME Regular, NEW s \in Sessions, Establish(s)
  PROVE  LET t == <<"edge", s>>
             M == IF reg # None THEN {ForSession("close", reg)} ELSE {}
         IN  Regular' /\ Left2(t, {Recompute} \cup M) /\ Left(t) = {}
<1> DEFINE t == <<"edge", s>>
           x == ForSession("close", reg)
<1>1. t \in Threads /\ Recompute \in Steps /\ Recompute.op = "recompute"
  BY ThreadFacts, StepFacts
<1>2. Ordered' /\ Left2(t, {Recompute} \cup (IF reg # None THEN {x} ELSE {})) /\ Left(t) = {}
  <2>1. CASE reg = None
    <3>1. Start(t, <<Recompute>>)
      BY <1>1, <2>1, TwoSteps DEF Establish
    <3> HIDE DEF t
    <3> QED
      BY <1>1, <2>1, <3>1, CameOne DEF Pinned
  <2>2. CASE reg # None
    <3>1. x \in Steps /\ x.op = "close"
      BY <2>2, StepFacts DEF Regular, Types
    <3>2. Start(t, <<Recompute, x>>)
      BY <1>1, <2>2, <3>1, TwoSteps DEF Establish
    <3>3. Tidy(<<Recompute, x>>) /\ Members(<<Recompute, x>>) = {Recompute, x} /\ <<Recompute, x>> \in Seq(Steps)
      BY <1>1, <3>1, TidyShort, MembersFacts, TwoSteps DEF LastOps, FirstOps, FillOps
    <3>4. {Recompute, x} = {Recompute} \cup {x} /\ \A y \in {Recompute, x} : y.op \notin Pinned
      BY <1>1, <3>1 DEF Pinned
    <3> HIDE DEF t, x
    <3> QED
      BY <1>1, <2>2, <3>2, <3>3, <3>4, Came
  <2> QED
    BY <2>1, <2>2
<1>3. Types'
  BY <1>2 DEF Types, Regular, Ordered, Establish, Start, pubVars, partVars
<1> QED
  BY <1>2, <1>3 DEF Regular

LEMMA BreaksRegular ==
  ASSUME Regular, NEW s \in Sessions, Breaks(s)
  PROVE  /\ Regular' /\ Left2(<<"edge", s>>, {ForSession("close", s)}) /\ Left(<<"edge", s>>) = {}
<1>1. <<"edge", s>> \in Threads /\ ForSession("close", s) \in Steps /\ ForSession("close", s).op = "close"
  BY ThreadFacts, StepFacts
<1>2. Ordered' /\ Left2(<<"edge", s>>, {ForSession("close", s)}) /\ Left(<<"edge", s>>) = {}
  BY <1>1, CameOne DEF Pinned, Breaks
<1>3. Types'
  BY <1>2 DEF Types, Regular, Ordered, Breaks, Start, linkVars, pubVars, partVars
<1> QED
  BY <1>2, <1>3 DEF Regular

LEMMA OnTrackRegular ==
  ASSUME Regular, NEW k \in Tracks, OnTrack(k)
  PROVE  /\ Regular' /\ Left2(<<"track", k>>, {ForTrack("arrive", k)}) /\ Left(<<"track", k>>) = {}
<1>1. /\ <<"track", k>> \in Threads /\ ForTrack("arrive", k) \in Steps
      /\ ForTrack("arrive", k).op = "arrive" /\ ForTrack("arrive", k).track = k
  BY ThreadFacts, StepFacts DEF TrackOps
<1>2. Ordered' /\ Left2(<<"track", k>>, {ForTrack("arrive", k)}) /\ Left(<<"track", k>>) = {}
  BY <1>1, CameOne DEF OnTrack
<1>3. Types'
  BY <1>2 DEF Types, Regular, Ordered, OnTrack, Start, pubVars, partVars
<1> QED
  BY <1>2, <1>3 DEF Regular

LEMMA LoopReturnsRegular ==
  ASSUME Regular, NEW k \in Tracks, LoopReturns(k)
  PROVE  /\ Regular' /\ Left2(<<"track", k>>, {ForTrack("ended", k)}) /\ Left(<<"track", k>>) = {}
<1>1. /\ <<"track", k>> \in Threads /\ ForTrack("ended", k) \in Steps
      /\ ForTrack("ended", k).op = "ended" /\ ForTrack("ended", k).track = k
  BY ThreadFacts, StepFacts DEF TrackOps
<1>2. Ordered' /\ Left2(<<"track", k>>, {ForTrack("ended", k)}) /\ Left(<<"track", k>>) = {}
  BY <1>1, CameOne DEF LoopReturns
<1>3. Types'
  BY <1>2 DEF Types, Regular, Ordered, LoopReturns, Start, pubVars, partVars
<1> QED
  BY <1>2, <1>3 DEF Regular

LEMMA JoinRegular ==
  ASSUME Regular, NEW l \in Listeners, Join(l)
  PROVE  /\ Regular' /\ Left2(<<"join", l>>, {Recompute}) /\ Left(<<"join", l>>) = {}
<1>1. <<"join", l>> \in Threads /\ Recompute \in Steps /\ Recompute.op = "recompute"
  BY ThreadFacts, StepFacts
<1>2. Ordered' /\ Left2(<<"join", l>>, {Recompute}) /\ Left(<<"join", l>>) = {}
  BY <1>1, CameOne DEF Join, Pinned
<1>3. Types'
  BY <1>2 DEF Types, Regular, Ordered, Join, Start, linkVars, pubVars
<1> QED
  BY <1>2, <1>3 DEF Regular

LEMMA DemandRegular ==
  ASSUME Regular, Demand
  PROVE  /\ Regular' /\ Left2(Hook, {Recompute}) /\ Left(Hook) = {}
<1>1. Hook \in Threads /\ Recompute \in Steps /\ Recompute.op = "recompute"
  BY ThreadFacts, StepFacts
<1>2. Ordered' /\ Left2(Hook, {Recompute}) /\ Left(Hook) = {}
  BY <1>1, CameOne DEF Demand, Pinned
<1>3. Types'
  BY <1>2 DEF Types, Regular, Ordered, Demand, Start, linkVars, pubVars, partVars
<1> QED
  BY <1>2, <1>3 DEF Regular

\* The steps for the publisher that a listener finds.
FillFor(l) == IF entry = None THEN {} ELSE {ForListener("ensure", entry, l), ForPub("rebuild", entry)}
FillOne == IF entry = None THEN {} ELSE {ForPub("rebuild", entry)}

LEMMA FillSteps ==
  ASSUME Regular, NEW l \in Listeners
  PROVE  /\ EnsureAndRebuild(l) \in Seq(Steps) /\ Members(EnsureAndRebuild(l)) = FillFor(l)
         /\ Tidy(EnsureAndRebuild(l))
         /\ RebuildAll \in Seq(Steps) /\ Members(RebuildAll) = FillOne /\ Tidy(RebuildAll)
         /\ \A x \in FillFor(l) \cup FillOne : x.op \in FillOps /\ x.op \notin Pinned
<1>1. CASE entry = None
  BY <1>1, EmptySeq, MembersFacts, TidyShort DEF EnsureAndRebuild, RebuildAll, ForEachPub, FillFor, FillOne
<1>2. CASE entry # None
  <2> DEFINE x == ForListener("ensure", entry, l)
             y == ForPub("rebuild", entry)
  <2>1. /\ x \in Steps /\ x.op = "ensure" /\ x.pub = entry /\ y \in Steps /\ y.op = "rebuild"
    <3>1. entry \in Pubs
      BY <1>2 DEF Regular, Types
    <3> QED
      BY <3>1, StepFacts DEF PubOps
  <2>2. /\ EnsureAndRebuild(l) = <<x, y>> /\ RebuildAll = <<y>>
        /\ FillFor(l) = {x, y} /\ FillOne = {y}
    BY <1>2 DEF EnsureAndRebuild, RebuildAll, ForEachPub, FillFor, FillOne
  <2>3. <<x, y>> \in Seq(Steps) /\ <<y>> \in Seq(Steps) /\ Members(<<x, y>>) = {x, y} /\ Members(<<y>>) = {y}
    BY <2>1, OneStep, TwoSteps, MembersFacts
  <2>4. Tidy(<<y>>)
    BY <2>1, TidyShort
  <2>5. Tidy(<<x, y>>)
    <3>1. Len(<<x, y>>) = 2 /\ 1..2 = {1, 2} /\ <<x, y>>[1] = x /\ <<x, y>>[2] = y
      OBVIOUS
    <3>2. x.op \notin FirstOps \cup LastOps /\ y.op \notin FirstOps \cup LastOps \cup {"ensure", "insert"} /\ x.op \in FillOps
      BY <2>1 DEF FirstOps, LastOps, FillOps
    <3>3. 1..(1 - 1) = {} /\ 1..(2 - 1) = {1} /\ 2 \in (1 + 1)..2
      OBVIOUS
    <3>4. y = ForPub("rebuild", x.pub)
      BY <2>1
    <3> HIDE DEF x, y
    <3> QED
      BY <3>1, <3>2, <3>3, <3>4 DEF Tidy
  <2>6. x.op \in FillOps /\ y.op \in FillOps /\ x.op \notin Pinned /\ y.op \notin Pinned
    BY <2>1 DEF FillOps, Pinned
  <2> HIDE DEF x, y
  <2> QED
    BY <2>2, <2>3, <2>4, <2>5, <2>6
<1> QED
  BY <1>1, <1>2

LEMMA ThenRecompute ==
  ASSUME NEW s \in Seq(Steps), Tidy(s), \A x \in Members(s) : x.op \in FillOps
  PROVE  /\ s \o <<Recompute>> \in Seq(Steps) /\ Tidy(s \o <<Recompute>>)
         /\ Members(s \o <<Recompute>>) = Members(s) \cup {Recompute}
<1> DEFINE b == <<Recompute>>
           r == s \o b
           n == Len(s)
<1>1. /\ Recompute \in Steps
      /\ Recompute.op \notin FirstOps \cup LastOps \cup FillOps \cup {"store", "ensure", "insert"}
  BY StepFacts DEF FirstOps, LastOps, FillOps
<1>2. b \in Seq(Steps) /\ Len(b) = 1 /\ b[1] = Recompute /\ Members(b) = {Recompute}
  BY <1>1, OneStep, MembersFacts
<1>3. b \in Seq(Steps)
  BY <1>2
<1> HIDE DEF b
<1>4. r \in Seq(Steps) /\ Members(r) = Members(s) \cup Members(b)
  BY <1>3, Joined
<1>5. Len(r) = Len(s) + Len(b) /\ \A i \in 1..Len(s) + Len(b) : r[i] = IF i <= Len(s) THEN s[i] ELSE b[i - Len(s)]
  BY <1>3, ConcatProperties
<1>6. n \in Nat
  BY LenProperties
<1>7. /\ Len(r) = n + 1 /\ r[n + 1] = Recompute
      /\ \A i \in 1..n : r[i] = s[i]
  BY <1>2, <1>5, <1>6
<1> HIDE DEF r, n
<1>8. ASSUME NEW i \in 1..Len(r)
      PROVE  /\ r[i].op \notin FirstOps \cup LastOps
             /\ r[i].op \in FillOps \cup {"store"} => \A j \in 1..(i - 1) : r[j].op \in FillOps
             /\ r[i].op \in {"ensure", "insert"} =>
                  \E j \in (i + 1)..Len(r) : r[j] = ForPub("rebuild", r[i].pub)
  <2>1. \A j \in 1..n : s[j].op \in FillOps
    BY DEF Members, n
  <2>2. CASE i \in 1..n
    <3>1. r[i] = s[i] /\ r[i].op \in FillOps /\ \A j \in 1..(i - 1) : j \in 1..n
      BY <1>6, <1>7, <2>1, <2>2
    <3>2. \A j \in (i + 1)..n : j \in 1..n /\ j \in (i + 1)..Len(r)
      BY <1>6, <1>7, <2>2
    <3>3. r[i].op \in {"ensure", "insert"} => \E j \in (i + 1)..n : s[j] = ForPub("rebuild", r[i].pub)
      BY <2>2, <3>1 DEF Tidy, n
    <3>4. r[i].op \notin FirstOps \cup LastOps
      BY <3>1 DEF FirstOps, LastOps, FillOps
    <3> QED
      BY <1>7, <2>1, <3>1, <3>2, <3>3, <3>4
  <2>3. CASE i = n + 1
    BY <1>1, <1>7, <2>3
  <2> QED
    BY <1>6, <1>7, <2>2, <2>3
<1>9. Tidy(r)
  BY <1>8 DEF Tidy
<1> QED
  BY <1>2, <1>4, <1>9 DEF r, b

LEMMA ConnectedRegular ==
  ASSUME Regular, NEW l \in Listeners, Connected(l)
  PROVE  /\ Regular' /\ Left2(<<"connect", l>>, FillFor(l)) /\ Left(<<"connect", l>>) = {}
<1>1. <<"connect", l>> \in Threads
  BY ThreadFacts
<1>2. Ordered' /\ Left2(<<"connect", l>>, FillFor(l)) /\ Left(<<"connect", l>>) = {}
  <2> DEFINE a == EnsureAndRebuild(l)
  <2>1. a \in Seq(Steps) /\ Members(a) = FillFor(l) /\ Tidy(a) /\ \A x \in Members(a) : x.op \notin Pinned
    BY FillSteps
  <2>2. Start(<<"connect", l>>, a)
    BY DEF Connected
  <2> HIDE DEF a
  <2> QED
    BY <1>1, <2>1, <2>2, Came
<1>3. Types'
  BY <1>2 DEF Types, Regular, Ordered, Connected, Start, linkVars, pubVars
<1> QED
  BY <1>2, <1>3 DEF Regular

LEMMA LeaveRegular ==
  ASSUME Regular, NEW l \in Listeners, Leave(l)
  PROVE  /\ Regular' /\ Left2(<<"join", l>>, FillOne \cup {Recompute}) /\ Left(<<"join", l>>) = {}
<1>1. <<"join", l>> \in Threads
  BY ThreadFacts
<1>2. Ordered' /\ Left2(<<"join", l>>, FillOne \cup {Recompute}) /\ Left(<<"join", l>>) = {}
  <2> DEFINE a == RebuildAll \o <<Recompute>>
  <2>1. /\ RebuildAll \in Seq(Steps) /\ Members(RebuildAll) = FillOne /\ Tidy(RebuildAll)
        /\ \A x \in FillOne : x.op \in FillOps /\ x.op \notin Pinned
    BY FillSteps
  <2>2. a \in Seq(Steps) /\ Members(a) = FillOne \cup {Recompute} /\ Tidy(a)
    BY <2>1, ThenRecompute
  <2>3. \A x \in FillOne \cup {Recompute} : x.op \notin Pinned
    BY <2>1, StepFacts DEF Pinned
  <2>4. Start(<<"join", l>>, a)
    BY DEF Leave
  <2> HIDE DEF a
  <2> QED
    BY <1>1, <2>2, <2>3, <2>4, Came
<1>3. Types'
  BY <1>2 DEF Types, Regular, Ordered, Leave, Start, linkVars, pubVars
<1> QED
  BY <1>2, <1>3 DEF Regular

LEMMA SubscriptionRegular ==
  ASSUME Regular, NEW l \in Listeners, NEW want \in BOOLEAN, SetSubscription(l, want)
  PROVE  /\ Regular' /\ Left(<<"loop", l>>) = {}
         /\ Left2(<<"loop", l>>, (IF want THEN FillFor(l) ELSE FillOne) \cup {Recompute})
<1> DEFINE F == IF want THEN FillFor(l) ELSE FillOne
<1>1. <<"loop", l>> \in Threads
  BY ThreadFacts
<1>2. Ordered' /\ Left2(<<"loop", l>>, F \cup {Recompute}) /\ Left(<<"loop", l>>) = {}
  <2> DEFINE f == IF want THEN EnsureAndRebuild(l) ELSE RebuildAll
             a == f \o <<Recompute>>
  <2>1. f \in Seq(Steps) /\ Members(f) = F /\ Tidy(f) /\ \A x \in F : x.op \in FillOps /\ x.op \notin Pinned
    BY FillSteps
  <2>2. Start(<<"loop", l>>, a)
    BY DEF SetSubscription
  <2> HIDE DEF f, F
  <2>3. a \in Seq(Steps) /\ Members(a) = F \cup {Recompute} /\ Tidy(a)
    BY <2>1, ThenRecompute
  <2>4. \A x \in F \cup {Recompute} : x.op \notin Pinned
    BY <2>1, StepFacts DEF Pinned
  <2> HIDE DEF a
  <2> QED
    BY <1>1, <2>2, <2>3, <2>4, Came
<1>3. Types'
  BY <1>2 DEF Types, Regular, Ordered, SetSubscription, Start, linkVars, pubVars
<1> QED
  BY <1>2, <1>3 DEF Regular

LEMMA EnsureRoomRegular ==
  ASSUME Regular, EnsureRoom
  PROVE  /\ Regular' /\ \A t \in Threads : Left(t)' = Left(t)
<1>1. Types' /\ job' = job
  BY DEF Regular, Types, EnsureRoom, linkVars, partVars
<1>2. \A t \in Threads : Left(t)' = Left(t)
  BY <1>1 DEF Left, Members
<1> QED
  BY <1>1, <1>2 DEF Regular, Ordered, Placed, Tidy

-----------------------------------------------------------------------------
(* Who answers for the publisher                                           *)

\* How a step of t changes what is pending.
LEMMA TodoFacts ==
  ASSUME NEW t \in Threads, NEW N, Left2(t, N)
  PROVE  /\ N \subseteq Todo' /\ Left(t) \subseteq Todo
         /\ \A x \in Todo' : x \in N \/ \E u \in Threads \ {t} : x \in Left(u)
         /\ \A x \in Todo : x \in Todo' \/ x \in Left(t)
         /\ Tokens(t)' = {x \in N : x.op \in TokenOps}
         /\ \A u \in Threads : u # t => Tokens(u)' = Tokens(u)
BY DEF Left2, Todo, Tokens

\* After a first step that does not fill, nothing that answers.
LEMMA NoTokenBehind ==
  ASSUME Regular, NEW t \in Threads, job[t] # <<>>, Head(job[t]).op \notin FillOps
  PROVE  /\ Left(t) = {Head(job[t])} \cup Rest(t)
         /\ \A x \in Rest(t) : x.op \notin TokenOps
BY RestFacts DEF Regular, Ordered, FirstOps, TokenOps

\* A step that touches neither the publisher nor who answers for it.
LEMMA HeldPlain ==
  ASSUME Held, NEW t \in Threads, NEW A, NEW M, NEW R, Left(t) = A \cup R, Left2(t, M \cup R),
         \A x \in A \cup M : x.op \notin TokenOps,
         rp' = rp, entry' = entry, closed' = closed,
         \A k \in Tracks : /\ Keeps(k) /\ k # speaker'
                           /\ k = speaker \/ ForTrack("drop", k) \in A \/ ForTrack("recheck", k) \in A
                           => ForTrack("drop", k) \in M
  PROVE  Held'
<1>1. \A u \in Threads : Tokens(u)' = Tokens(u)
  <2>1. Tokens(t)' = {x \in M \cup R : x.op \in TokenOps} /\ \A u \in Threads : u # t => Tokens(u)' = Tokens(u)
    BY TodoFacts
  <2>2. Tokens(t) = {x \in A \cup R : x.op \in TokenOps}
    BY DEF Tokens
  <2>3. Tokens(t)' = Tokens(t)
    BY <2>1, <2>2
  <2> QED
    BY <2>1, <2>3
<1>2. \A u \in Threads : Holds(u)' <=> Holds(u)
  BY <1>1 DEF Holds
<1>3. \A k \in Tracks : Keeps(k)' <=> Keeps(k)
  BY DEF Keeps
<1>4. Meant'
  BY <1>1, <1>3 DEF Held, Meant
<1>5. Single' /\ Answered'
  BY <1>2, <1>3 DEF Held, Single, Answered
<1>6. ASSUME NEW k \in Tracks, Keeps(k), k # speaker' PROVE Pending(k)'
  <2>1. /\ M \cup R \subseteq Todo'
        /\ \A x \in Todo : x \in Todo' \/ x \in A \cup R
    BY TodoFacts
  <2>2. \A x \in Todo : x \in Todo' \/ x \in A
    BY <2>1
  <2>3. ForTrack("drop", k) \in M => Pending(k)'
    BY <2>1 DEF Pending
  <2>4. CASE k = speaker
    BY <1>6, <2>3, <2>4
  <2>5. CASE k # speaker
    <3>1. ForTrack("drop", k) \in Todo \/ ForTrack("recheck", k) \in Todo
      BY <1>6, <2>5 DEF Held, Due, Pending
    <3>2. CASE ForTrack("drop", k) \in A \/ ForTrack("recheck", k) \in A
      BY <1>6, <2>3, <3>2
    <3>3. CASE ~(ForTrack("drop", k) \in A \/ ForTrack("recheck", k) \in A)
      BY <2>2, <3>1, <3>3 DEF Pending
    <3> QED
      BY <3>2, <3>3
  <2> QED
    BY <2>4, <2>5
<1>7. Due'
  BY <1>3, <1>6 DEF Due
<1> QED
  BY <1>4, <1>5, <1>7 DEF Held

LEMMA HeldStep ==
  ASSUME Regular, Held, NEW t \in Threads, job[t] # <<>>, NEW M, Left2(t, M \cup Rest(t)),
         Head(job[t]).op \notin TokenOps, \A x \in M : x.op \notin TokenOps,
         rp' = rp, entry' = entry, closed' = closed,
         \A k \in Tracks :
           /\ Keeps(k) /\ k # speaker'
           /\ k = speaker \/ Head(job[t]) = ForTrack("drop", k) \/ Head(job[t]) = ForTrack("recheck", k)
           => ForTrack("drop", k) \in M
  PROVE  Held'
<1> DEFINE A == {Head(job[t])}
           R == Rest(t)
<1>1. Left(t) = A \cup R /\ Left2(t, M \cup R) /\ \A x \in A \cup M : x.op \notin TokenOps
  BY RestFacts DEF Regular, Ordered
<1>2. \A k \in Tracks : /\ Keeps(k) /\ k # speaker'
                        /\ k = speaker \/ ForTrack("drop", k) \in A \/ ForTrack("recheck", k) \in A
                        => ForTrack("drop", k) \in M
  OBVIOUS
<1> HIDE DEF A, R
<1> QED
  BY <1>1, <1>2, HeldPlain

\* An ordinary step: neither the speaker nor what is due to be dropped.
LEMMA HeldOrdinary ==
  ASSUME Regular, Held, NEW t \in Threads, job[t] # <<>>, NEW M, Left2(t, M \cup Rest(t)),
         Head(job[t]).op \notin TokenOps \cup {"drop", "recheck"}, \A x \in M : x.op \notin TokenOps,
         rp' = rp, entry' = entry, closed' = closed, speaker' = speaker
  PROVE  Held'
<1>1. \A k \in Tracks : ForTrack("drop", k) # Head(job[t]) /\ ForTrack("recheck", k) # Head(job[t])
  BY StepFacts DEF TrackOps
<1>2. Head(job[t]).op \notin TokenOps
  OBVIOUS
<1> QED
  BY <1>1, <1>2, HeldStep

LEMMA HeldLess ==
  ASSUME Regular, Held, NEW t \in Threads, job[t] # <<>>, Left2(t, Rest(t)),
         Head(job[t]).op \notin TokenOps \cup {"drop", "recheck"},
         rp' = rp, entry' = entry, closed' = closed, speaker' = speaker
  PROVE  Held'
<1> DEFINE M == {}
<1>1. M \cup Rest(t) = Rest(t) /\ \A x \in M : x.op \notin TokenOps
  OBVIOUS
<1>2. Left2(t, M \cup Rest(t))
  BY <1>1
<1> HIDE DEF M
<1> QED
  BY <1>1, <1>2, HeldOrdinary

LEMMA HeldBegun ==
  ASSUME Regular, Held, NEW t \in Threads, Left(t) = {}, NEW N, Left2(t, N),
         \A x \in N : x.op \notin TokenOps,
         rp' = rp, entry' = entry, closed' = closed, speaker' = speaker
  PROVE  Held'
<1> DEFINE A == {}
           R == {}
<1>1. Left(t) = A \cup R /\ N \cup R = N /\ (\A x \in A \cup N : x.op \notin TokenOps) /\ \A x : x \notin A
  OBVIOUS
<1>2. Left2(t, N \cup R)
  BY <1>1
<1> HIDE DEF A, R
<1> QED
  BY <1>1, <1>2, HeldPlain

\* A publisher goes from a speaker to the goroutine that closes it.
LEMMA HeldHanded ==
  ASSUME Regular, Held, NEW t \in Threads, NEW k \in Tracks, Keeps(k), NEW R,
         Left2(t, {ForPub("closePub", rp[k])} \cup R), \A x \in R : x.op \notin TokenOps,
         entry' = entry, closed' = closed,
         rp'[k] = None, \A m \in Tracks : m # k => rp'[m] = rp[m]
  PROVE  Held'
<1> DEFINE x == ForPub("closePub", rp[k])
<1>1. rp[k] = entry /\ entry \notin closed /\ rp[k] \in Pubs
  BY DEF Held, Meant, Keeps, Regular, Types
<1>2. x.op = "closePub" /\ x.pub = entry
  BY <1>1, StepFacts DEF PubOps
<1>3. (\A u \in Threads : Tokens(u) = {}) /\ \A m \in Tracks : m # k => ~Keeps(m)
  BY DEF Held, Single, Holds
<1>4. Tokens(t)' = {x} /\ \A u \in Threads : u # t => Tokens(u)' = {}
  <2>1. Tokens(t)' = {y \in {x} \cup R : y.op \in TokenOps} /\ \A u \in Threads : u # t => Tokens(u)' = Tokens(u)
    BY TodoFacts
  <2> QED
    BY <1>2, <1>3, <2>1 DEF TokenOps
<1> HIDE DEF x
<1>5. \A m \in Tracks : ~Keeps(m)'
  BY <1>3 DEF Keeps
<1>6. Meant'
  BY <1>1, <1>2, <1>4, <1>5 DEF Meant
<1>7. Single' /\ Answered' /\ Due'
  BY <1>4, <1>5 DEF Single, Answered, Due, Holds
<1> QED
  BY <1>6, <1>7 DEF Held

\* A goroutine that answers for the publisher is the only one.
LEMMA Responsible ==
  ASSUME Regular, Held, NEW t \in Threads, job[t] # <<>>, Head(job[t]).op \in TokenOps
  PROVE  /\ Head(job[t]).pub = entry /\ (Head(job[t]).op # "unlist" => entry \notin closed)
         /\ Left(t) = {Head(job[t])} \cup Rest(t)
         /\ \A x \in Rest(t) : x.op \notin TokenOps
         /\ \A u \in Threads : u # t => Tokens(u) = {}
         /\ \A k \in Tracks : ~Keeps(k)
<1>1. Left(t) = {Head(job[t])} \cup Rest(t) /\ \A x \in Rest(t) : x.op \notin TokenOps
  BY NoTokenBehind DEF TokenOps, FillOps
<1>2. Head(job[t]) \in Tokens(t) /\ Holds(t)
  BY <1>1 DEF Tokens, Holds
<1>3. Head(job[t]).pub = entry /\ (Head(job[t]).op # "unlist" => entry \notin closed)
  BY <1>2 DEF Held, Meant
<1>4. (\A u \in Threads : u # t => Tokens(u) = {}) /\ \A k \in Tracks : ~Keeps(k)
  BY <1>2 DEF Held, Single, Holds
<1> QED
  BY <1>1, <1>3, <1>4

LEMMA StoreHeld ==
  ASSUME Regular, Held, NEW t \in Threads, StorePublisher(t)
  PROVE  Held'
<1>1. PICK k \in Tracks, p \in Pubs :
        /\ k = Head(job[t]).track /\ p = Head(job[t]).pub /\ Head(job[t]) = Store(k, p)
        /\ rp' = [rp EXCEPT ![k] = p] /\ Left2(t, {ForTrack("recheck", k)} \cup Rest(t))
  BY StoreRegular
<1> DEFINE x == ForTrack("recheck", k)
<1>2. job[t] # <<>> /\ Head(job[t]).op = "store" /\ UNCHANGED <<speaker, entry, closed>>
  BY DEF StorePublisher, At, pubVars
<1>3. /\ p = entry /\ entry \notin closed /\ (\A y \in Rest(t) : y.op \notin TokenOps)
      /\ (\A u \in Threads : u # t => Tokens(u) = {}) /\ \A m \in Tracks : ~Keeps(m)
  BY <1>1, <1>2, Responsible DEF TokenOps
<1>4. x.op \notin TokenOps
  BY <1>1, StepFacts DEF TrackOps, TokenOps
<1>5. \A u \in Threads : Tokens(u)' = {}
  <2>1. Tokens(t)' = {y \in {x} \cup Rest(t) : y.op \in TokenOps} /\ \A u \in Threads : u # t => Tokens(u)' = Tokens(u)
    BY <1>1, TodoFacts
  <2> HIDE DEF x
  <2> QED
    BY <1>3, <1>4, <2>1
<1>6. Pending(k)'
  <2>1. {x} \cup Rest(t) \subseteq Todo'
    BY <1>1, TodoFacts
  <2> QED
    BY <2>1 DEF Pending
<1>7. rp'[k] = p /\ \A m \in Tracks : m # k => rp'[m] = None
  BY <1>1, <1>3 DEF Keeps, Regular, Types
<1>8. p # None
  BY <1>1, NameAssumption DEF Pubs
<1>9. \A m \in Tracks : Keeps(m)' <=> m = k
  BY <1>1, <1>7, <1>8 DEF Keeps
<1>10. Meant'
  BY <1>2, <1>3, <1>5, <1>7, <1>9 DEF Meant
<1>11. Single' /\ Answered' /\ Due'
  BY <1>1, <1>5, <1>6, <1>9 DEF Single, Answered, Due, Holds
<1> QED
  BY <1>10, <1>11 DEF Held

LEMMA ClosePublisherHeld ==
  ASSUME Regular, Held, NEW t \in Threads, ClosePublisher(t)
  PROVE  Held'
<1> DEFINE p == Head(job[t]).pub
           x == ForPub("unlist", p)
<1>1. job[t] # <<>> /\ Head(job[t]).op = "closePub" /\ UNCHANGED <<speaker, entry, rp>>
  BY DEF ClosePublisher, At, linkVars
<1>2. /\ p = entry /\ entry \notin closed /\ (\A y \in Rest(t) : y.op \notin TokenOps)
      /\ (\A u \in Threads : u # t => Tokens(u) = {}) /\ \A m \in Tracks : ~Keeps(m)
  BY <1>1, Responsible DEF TokenOps
<1>3. p \in Pubs /\ closed' = closed \cup {p} /\ Left2(t, {x} \cup Rest(t))
  BY <1>2, ClosePublisherRegular
<1>4. x.op = "unlist" /\ x.pub = p
  BY <1>3, StepFacts DEF PubOps
<1>5. Tokens(t)' = {x} /\ \A u \in Threads : u # t => Tokens(u)' = {}
  <2>1. Tokens(t)' = {y \in {x} \cup Rest(t) : y.op \in TokenOps} /\ \A u \in Threads : u # t => Tokens(u)' = Tokens(u)
    BY <1>3, TodoFacts
  <2> QED
    BY <1>2, <1>4, <2>1 DEF TokenOps
<1> HIDE DEF x, p
<1>6. \A m \in Tracks : ~Keeps(m)'
  BY <1>1, <1>2 DEF Keeps
<1>7. Meant'
  BY <1>1, <1>2, <1>4, <1>5, <1>6 DEF Meant
<1>8. Single' /\ Answered' /\ Due'
  BY <1>5, <1>6 DEF Single, Answered, Due, Holds
<1> QED
  BY <1>7, <1>8 DEF Held

LEMMA UnlistHeld ==
  ASSUME Regular, Held, NEW t \in Threads, Unlist(t)
  PROVE  Held' /\ entry' = None
<1> DEFINE p == Head(job[t]).pub
<1>1. job[t] # <<>> /\ Head(job[t]).op = "unlist" /\ UNCHANGED <<speaker, closed, rp>>
  BY DEF Unlist, At, linkVars
<1>2. /\ p = entry /\ (\A y \in Rest(t) : y.op \notin TokenOps)
      /\ (\A u \in Threads : u # t => Tokens(u) = {}) /\ \A m \in Tracks : ~Keeps(m)
  BY <1>1, Responsible DEF TokenOps
<1>3. entry' = None /\ Left2(t, Rest(t))
  BY <1>2, UnlistRegular
<1>4. \A u \in Threads : Tokens(u)' = {}
  <2>1. Tokens(t)' = {y \in Rest(t) : y.op \in TokenOps} /\ \A u \in Threads : u # t => Tokens(u)' = Tokens(u)
    BY <1>3, TodoFacts
  <2> QED
    BY <1>2, <2>1
<1>5. \A m \in Tracks : ~Keeps(m)'
  BY <1>1, <1>2 DEF Keeps
<1> QED
  BY <1>3, <1>4, <1>5 DEF Held, Meant, Single, Answered, Due, Holds

\* Without an entry nobody answers for one.
LEMMA NoneToAnswer ==
  ASSUME Regular, Held, entry = None
  PROVE  (\A u \in Threads : Tokens(u) = {}) /\ \A k \in Tracks : ~Keeps(k)
<1>1. \A k \in Tracks : ~Keeps(k)
  BY DEF Held, Meant, Keeps
<1>2. ASSUME NEW u \in Threads, NEW x \in Tokens(u) PROVE FALSE
  <2>1. x \in Left(u) /\ x.op \in TokenOps /\ x.pub = None
    BY <1>2 DEF Tokens, Held, Meant
  <2>2. x \in Steps
    <3>1. job[u] \in Seq(Steps)
      BY DEF Regular, Types
    <3> QED
      BY <2>1, <3>1 DEF Left, Members
  <2>3. x.pub \in Pubs
    BY <2>1, <2>2, StepKinds DEF TokenOps, PubOps
  <2> QED
    BY <2>1, <2>3, NameAssumption DEF Pubs
<1> QED
  BY <1>1, <1>2

LEMMA AddHeld ==
  ASSUME Regular, Held, NEW t \in Threads, AddRemotePublisher(t)
  PROVE  Held'
<1> DEFINE k == Head(job[t]).track
           p == FreshPub
           E == {ForListener("ensure", p, l) : l \in Listed}
           y == ForPub("rebuild", p)
           x == Store(k, p)
<1>1. /\ job[t] # <<>> /\ Head(job[t]).op = "register" /\ UNCHANGED <<speaker, rp>>
      /\ Head(job[t]).op \notin FillOps \cup TokenOps
  BY DEF AddRemotePublisher, At, linkVars, FillOps, TokenOps
<1>2. Left(t) = {Head(job[t])} \cup Rest(t) /\ \A z \in Rest(t) : z.op \notin TokenOps
  BY <1>1, NoTokenBehind
<1>3. k \in Tracks /\ Head(job[t]) = ForTrack("register", k)
  BY AddRegular
<1>4. CASE UNCHANGED <<entry, closed>> /\ Left2(t, Rest(t))
  <2>1. Head(job[t]).op \notin TokenOps \cup {"drop", "recheck"}
    BY <1>1 DEF TokenOps
  <2> QED
    BY <1>1, <1>4, <2>1, HeldLess
<1>5. CASE /\ entry = None /\ p \in Pubs /\ ~InUse(p)
           /\ entry' = p /\ closed' = {q \in closed : InUse(q)}
           /\ Left2(t, E \cup {y, x} \cup Rest(t))
  <2>1. (\A u \in Threads : Tokens(u) = {}) /\ \A m \in Tracks : ~Keeps(m)
    BY <1>5, NoneToAnswer
  <2>2. x.op = "store" /\ x.pub = p /\ y.op = "rebuild" /\ \A z \in E : z.op = "ensure"
    BY <1>3, <1>5, StepFacts DEF PubOps, Listed
  <2>3. Tokens(t)' = {x} /\ \A u \in Threads : u # t => Tokens(u)' = {}
    <3>1. /\ Tokens(t)' = {z \in E \cup {y, x} \cup Rest(t) : z.op \in TokenOps}
          /\ \A u \in Threads : u # t => Tokens(u)' = Tokens(u)
      BY <1>5, TodoFacts
    <3> HIDE DEF x, y, E
    <3> QED
      BY <1>2, <2>1, <2>2, <3>1 DEF TokenOps
  <2> HIDE DEF x, y, E, p, k
  <2>4. \A m \in Tracks : ~Keeps(m)'
    BY <1>1, <2>1 DEF Keeps
  <2>5. entry' \notin closed'
    BY <1>5
  <2>6. Meant'
    BY <1>5, <2>2, <2>3, <2>4, <2>5 DEF Meant
  <2>7. Single' /\ Answered' /\ Due'
    BY <2>3, <2>4 DEF Single, Answered, Due, Holds
  <2> QED
    BY <2>6, <2>7 DEF Held
<1> QED
  BY <1>4, <1>5, AddRegular

LEMMA AcceptedHeld ==
  ASSUME Regular, Held, NEW t \in Threads, OnRemoteTrack(t), Accepted(t[2])
  PROVE  Held'
<1>1. PICK k \in Tracks : k = t[2]
  BY AcceptedRegular
<1> DEFINE x == ForTrack("register", k)
           z == ForTrack("read", k)
           old == IF speaker = None THEN None ELSE rp[speaker]
           B == {x, Recompute, z}
           C == IF old # None THEN {ForPub("closePub", old)} ELSE {}
<1>2. /\ job[t] # <<>> /\ Head(job[t]).op = "arrive" /\ UNCHANGED <<entry, closed>>
      /\ rp' = [y \in Tracks |-> IF y = speaker THEN None ELSE rp[y]]
  BY DEF OnRemoteTrack, At, pubVars
<1>3. Rest(t) = {} /\ speaker' = k /\ Left2(t, C \cup B)
  BY <1>1, AcceptedRegular
<1>4. \A y \in B : y.op \notin TokenOps
  BY StepFacts DEF TrackOps, TokenOps
<1>5. CASE old # None
  <2>1. PICK m \in Tracks : m = speaker
    BY <1>5 DEF Regular, Types
  <2>2. Keeps(m) /\ C = {ForPub("closePub", rp[m])}
    BY <1>5, <2>1 DEF Keeps
  <2>3. rp'[m] = None /\ \A j \in Tracks : j # m => rp'[j] = rp[j]
    BY <1>2, <2>1
  <2> HIDE DEF B, C
  <2> QED
    BY <1>2, <1>3, <1>4, <2>2, <2>3, HeldHanded
<1>6. CASE old = None
  <2>1. rp' = rp
    <3>1. \A y \in Tracks : (IF y = speaker THEN None ELSE rp[y]) = rp[y]
      BY <1>6, NameAssumption
    <3>2. rp = [y \in Tracks |-> rp[y]]
      BY DEF Regular, Types
    <3> QED
      BY <1>2, <3>1, <3>2
  <2>2. Left2(t, B \cup Rest(t))
    <3>1. C \cup B = B \cup Rest(t)
      BY <1>3, <1>6
    <3> QED
      BY <1>3, <3>1
  <2>3. \A j \in Tracks : Keeps(j) => j # speaker
    BY <1>6, NameAssumption DEF Keeps
  <2>4. \A j \in Tracks : ForTrack("drop", j) # Head(job[t]) /\ ForTrack("recheck", j) # Head(job[t])
    BY <1>2, StepFacts DEF TrackOps
  <2>5. Head(job[t]).op \notin TokenOps
    BY <1>2 DEF TokenOps
  <2> HIDE DEF B, C
  <2> QED
    BY <1>2, <1>4, <2>1, <2>2, <2>3, <2>4, <2>5, HeldStep
<1> QED
  BY <1>5, <1>6

LEMMA DropHeld ==
  ASSUME Regular, Held, NEW t \in Threads, DropPublisher(t)
  PROVE  Held'
<1>1. PICK k \in Tracks :
        /\ k = Head(job[t]).track /\ Head(job[t]) = ForTrack("drop", k)
        /\ Left2(t, (IF rp[k] # None THEN {ForPub("closePub", rp[k])} ELSE {}) \cup Rest(t))
  BY DropRegular
<1>2. /\ job[t] # <<>> /\ Head(job[t]).op = "drop" /\ UNCHANGED <<speaker, entry, closed>>
      /\ rp' = [rp EXCEPT ![k] = None]
  BY <1>1 DEF DropPublisher, At, pubVars
<1>3. CASE rp[k] # None
  <2>1. Left2(t, {ForPub("closePub", rp[k])} \cup Rest(t)) /\ Keeps(k)
    BY <1>1, <1>3 DEF Keeps
  <2>2. \A x \in Rest(t) : x.op \notin TokenOps
    BY <1>2, NoTokenBehind DEF FillOps
  <2>3. rp'[k] = None /\ \A j \in Tracks : j # k => rp'[j] = rp[j]
    BY <1>2 DEF Regular, Types
  <2> QED
    BY <1>2, <2>1, <2>2, <2>3, HeldHanded
<1>4. CASE rp[k] = None
  <2> DEFINE M == {}
  <2>1. Left2(t, M \cup Rest(t)) /\ \A x \in M : x.op \notin TokenOps
    BY <1>1, <1>4
  <2>2. rp' = rp
    BY <1>2, <1>4 DEF Regular, Types
  <2>3. \A j \in Tracks : Keeps(j) => ForTrack("drop", j) # Head(job[t]) /\ ForTrack("recheck", j) # Head(job[t])
    BY <1>1, <1>2, <1>4, StepFacts DEF TrackOps, Keeps
  <2>4. Head(job[t]).op \notin TokenOps
    BY <1>2 DEF TokenOps
  <2> HIDE DEF M
  <2> QED
    BY <1>2, <2>1, <2>2, <2>3, <2>4, HeldStep
<1> QED
  BY <1>3, <1>4

LEMMA OnEdgeClosedHeld ==
  ASSUME Regular, Held, NEW t \in Threads, OnEdgeClosed(t)
  PROVE  Held'
<1> DEFINE s == Head(job[t]).session
           ends == speaker # None /\ Origin[speaker] = s
           D == IF ends THEN {ForTrack("drop", speaker)} ELSE {}
           M == D \cup {Recompute}
<1>1. Left2(t, M \cup Rest(t))
  BY OnEdgeClosedRegular
<1>2. /\ job[t] # <<>> /\ Head(job[t]).op = "edgeClosed" /\ UNCHANGED <<rp, entry, closed>>
      /\ speaker' = IF ends THEN None ELSE speaker
  BY DEF OnEdgeClosed, At, pubVars
<1>3. \A x \in M : x.op \notin TokenOps
  BY StepFacts DEF TrackOps, TokenOps, Regular, Types
<1>4. \A k \in Tracks : k = speaker /\ k # speaker' => ForTrack("drop", k) \in M
  BY <1>2
<1>5. \A j \in Tracks : ForTrack("drop", j) # Head(job[t]) /\ ForTrack("recheck", j) # Head(job[t])
  BY <1>2, StepFacts DEF TrackOps
<1>6. Head(job[t]).op \notin TokenOps
  BY <1>2 DEF TokenOps
<1> HIDE DEF M
<1> QED
  BY <1>1, <1>2, <1>3, <1>4, <1>5, <1>6, HeldStep

LEMMA EndedHeld ==
  ASSUME Regular, Held, NEW t \in Threads, OnRemoteSpeakerEnded(t)
  PROVE  Held'
<1>1. PICK k \in Tracks : k = t[2] /\ Left2(t, {ForTrack("drop", k), Recompute} \cup Rest(t))
  BY EndedRegular
<1> DEFINE M == {ForTrack("drop", k), Recompute}
<1>2. /\ job[t] # <<>> /\ Head(job[t]).op = "ended" /\ UNCHANGED <<rp, entry, closed>>
      /\ speaker' = IF speaker = k THEN None ELSE speaker
  BY <1>1 DEF OnRemoteSpeakerEnded, At, pubVars
<1>3. \A x \in M : x.op \notin TokenOps
  BY StepFacts DEF TrackOps, TokenOps
<1>4. \A m \in Tracks : m = speaker /\ m # speaker' => ForTrack("drop", m) \in M
  BY <1>2
<1>5. \A j \in Tracks : ForTrack("drop", j) # Head(job[t]) /\ ForTrack("recheck", j) # Head(job[t])
  BY <1>2, StepFacts DEF TrackOps
<1>6. Head(job[t]).op \notin TokenOps
  BY <1>2 DEF TokenOps
<1> HIDE DEF M
<1>7. Left2(t, M \cup Rest(t))
  BY <1>1 DEF M
<1> QED
  BY <1>2, <1>3, <1>4, <1>5, <1>6, <1>7, HeldStep

LEMMA RecheckHeld ==
  ASSUME Regular, Held, NEW t \in Threads, Recheck(t)
  PROVE  Held'
<1>1. PICK k \in Tracks :
        /\ k = Head(job[t]).track /\ Head(job[t]) = ForTrack("recheck", k)
        /\ Left2(t, (IF speaker # k THEN {ForTrack("drop", k)} ELSE {}) \cup Rest(t))
  BY RecheckRegular
<1> DEFINE M == IF speaker # k THEN {ForTrack("drop", k)} ELSE {}
<1>2. job[t] # <<>> /\ Head(job[t]).op = "recheck" /\ UNCHANGED <<rp, entry, closed, speaker>>
  BY DEF Recheck, At, linkVars, pubVars
<1>3. \A x \in M : x.op \notin TokenOps
  BY StepFacts DEF TrackOps, TokenOps
<1>4. \A j \in Tracks : ForTrack("drop", j) # Head(job[t]) /\ (ForTrack("recheck", j) = Head(job[t]) => j = k)
  BY <1>1, <1>2, StepFacts DEF TrackOps
<1>5. speaker # k => ForTrack("drop", k) \in M
  OBVIOUS
<1>6. Head(job[t]).op \notin TokenOps
  BY <1>2 DEF TokenOps
<1>7. Left2(t, M \cup Rest(t))
  BY <1>1
<1> HIDE DEF M
<1> QED
  BY <1>2, <1>3, <1>4, <1>5, <1>6, <1>7, HeldStep

LEMMA AdvanceHeld ==
  ASSUME Regular, Held, NEW t \in Threads, Advance(t)
  PROVE  Regular' /\ Held'
<1>1. CASE CloseSession(t)
  <2> DEFINE s == Head(job[t]).session
             M == IF sess[s] = "shut" THEN {} ELSE {ForSession("edgeClosed", s)}
  <2>1. s \in Sessions /\ Regular' /\ Left2(t, M \cup Rest(t))
    BY <1>1, CloseSessionRegular
  <2>2. /\ job[t] # <<>> /\ Head(job[t]).op = "close" /\ UNCHANGED <<rp, entry, closed, speaker>>
    BY <1>1 DEF CloseSession, At, pubVars
  <2>3. /\ \A x \in M : x.op \notin TokenOps
        /\ Head(job[t]).op \notin TokenOps \cup {"drop", "recheck"}
    BY <2>1, <2>2, StepFacts DEF TokenOps
  <2> HIDE DEF M
  <2> QED
    BY <2>1, <2>2, <2>3, HeldOrdinary
<1>2. CASE OnEdgeClosed(t)
  BY <1>2, OnEdgeClosedRegular, OnEdgeClosedHeld
<1>3. CASE OnRemoteTrack(t)
  <2>1. CASE Accepted(t[2])
    BY <1>3, <2>1, AcceptedRegular, AcceptedHeld
  <2>2. CASE ~Accepted(t[2])
    <3>1. Regular' /\ Left2(t, Rest(t)) /\ UNCHANGED <<speaker, rp>>
      BY <1>3, <2>2, RejectedRegular
    <3>2. job[t] # <<>> /\ Head(job[t]).op = "arrive" /\ UNCHANGED <<entry, closed>>
      BY <1>3 DEF OnRemoteTrack, At, pubVars
    <3> QED
      BY <3>1, <3>2, HeldLess DEF TokenOps
  <2> QED
    BY <2>1, <2>2
<1>4. CASE ReadLoop(t)
  <2>1. Regular' /\ Left2(t, Rest(t))
    BY <1>4, ReadLoopRegular
  <2>2. job[t] # <<>> /\ Head(job[t]).op = "read" /\ UNCHANGED <<rp, entry, closed, speaker>>
    BY <1>4 DEF ReadLoop, At, pubVars
  <2> QED
    BY <2>1, <2>2, HeldLess DEF TokenOps
<1>5. CASE OnRemoteSpeakerEnded(t)
  BY <1>5, EndedRegular, EndedHeld
<1>6. CASE DropPublisher(t)
  BY <1>6, DropRegular, DropHeld
<1>7. CASE AddRemotePublisher(t)
  BY <1>7, AddRegular, AddHeld
<1>8. CASE StorePublisher(t)
  BY <1>8, StoreRegular, StoreHeld
<1>9. CASE Recheck(t)
  BY <1>9, RecheckRegular, RecheckHeld
<1>10. CASE ClosePublisher(t)
  BY <1>10, ClosePublisherRegular, ClosePublisherHeld
<1>11. CASE Unlist(t)
  BY <1>11, UnlistRegular, UnlistHeld
<1>12. CASE RecomputeRoom(t)
  <2> DEFINE M == IF speaker # None /\ rp[speaker] = None THEN {ForTrack("register", speaker)} ELSE {}
  <2>1. Regular' /\ Left2(t, M \cup Rest(t))
    BY <1>12, RecomputeRegular
  <2>2. /\ job[t] # <<>> /\ Head(job[t]).op = "recompute" /\ UNCHANGED <<rp, entry, closed, speaker>>
    BY <1>12 DEF RecomputeRoom, At, linkVars, pubVars
  <2>3. /\ \A x \in M : x.op \notin TokenOps
        /\ Head(job[t]).op \notin TokenOps \cup {"drop", "recheck"}
    BY <2>2, StepFacts DEF TokenOps, TrackOps, Regular, Types
  <2> HIDE DEF M
  <2> QED
    BY <2>1, <2>2, <2>3, HeldOrdinary
<1>13. CASE EnsureRemoteDownTrack(t)
  <2> DEFINE p == Head(job[t]).pub
             l == Head(job[t]).listener
             M == IF (p \notin closed /\ RemoteShouldForward(l)) /\ owner[l] = None
                  THEN {ForListener("insert", p, l)} ELSE {}
  <2>1. p \in Pubs /\ l \in Listeners /\ Regular' /\ Left2(t, M \cup Rest(t))
    BY <1>13, EnsureRegular
  <2>2. /\ job[t] # <<>> /\ Head(job[t]).op = "ensure" /\ UNCHANGED <<rp, entry, closed, speaker>>
    BY <1>13 DEF EnsureRemoteDownTrack, At, linkVars, pubVars
  <2>3. /\ \A x \in M : x.op \notin TokenOps
        /\ Head(job[t]).op \notin TokenOps \cup {"drop", "recheck"}
    BY <2>1, <2>2, StepFacts DEF TokenOps
  <2> HIDE DEF M
  <2> QED
    BY <2>1, <2>2, <2>3, HeldOrdinary
<1>14. CASE InsertDownTrack(t)
  <2>1. Regular' /\ Left2(t, Rest(t))
    BY <1>14, InsertRegular
  <2>2. job[t] # <<>> /\ Head(job[t]).op = "insert" /\ UNCHANGED <<rp, entry, closed, speaker>>
    BY <1>14 DEF InsertDownTrack, At, linkVars, pubVars
  <2> QED
    BY <2>1, <2>2, HeldLess DEF TokenOps
<1>15. CASE RebuildRemoteFanout(t)
  <2>1. Regular' /\ Left2(t, Rest(t))
    BY <1>15, RebuildRegular
  <2>2. job[t] # <<>> /\ Head(job[t]).op = "rebuild" /\ UNCHANGED <<rp, entry, closed, speaker>>
    BY <1>15 DEF RebuildRemoteFanout, At, linkVars
  <2> QED
    BY <2>1, <2>2, HeldLess DEF TokenOps
<1> QED
  BY <1>1, <1>2, <1>3, <1>4, <1>5, <1>6, <1>7, <1>8, <1>9, <1>10, <1>11, <1>12, <1>13, <1>14, <1>15 DEF Advance

\* An operation that begins, as every one does: N is what it has to do.
Begins(t, N) == Left(t) = {} /\ Left2(t, N)

\* The operations that begin do not touch the two tables.
Other ==
  \/ \E s \in Sessions : Establish(s) \/ Breaks(s)
  \/ \E k \in Tracks : OnTrack(k) \/ LoopReturns(k)
  \/ Demand
  \/ \E l \in Listeners : Join(l) \/ Connected(l) \/ Leave(l)
                          \/ \E want \in BOOLEAN : SetSubscription(l, want)

LEMMA OtherBegins ==
  ASSUME Regular, Other
  PROVE  /\ Regular' /\ rp' = rp /\ entry' = entry /\ closed' = closed /\ speaker' = speaker
         /\ fan' = fan /\ room' = room
         /\ \E t \in Threads, N \in SUBSET Steps :
              Begins(t, N) /\ (\E a : Start(t, a)) /\ \A x \in N : x.op \notin TokenOps
<1> DEFINE Goal(t, N) == /\ Begins(t, N) /\ (\E a : Start(t, a)) /\ N \subseteq Steps
                         /\ \A x \in N : x.op \notin TokenOps
           Same == /\ rp' = rp /\ entry' = entry /\ closed' = closed /\ speaker' = speaker
                   /\ fan' = fan /\ room' = room
<1>1. ASSUME NEW s \in Sessions, Establish(s)
      PROVE  Regular' /\ Same /\ \E t \in Threads, N \in SUBSET Steps : Goal(t, N)
  <2> DEFINE t == <<"edge", s>>
             N == {Recompute} \cup (IF reg # None THEN {ForSession("close", reg)} ELSE {})
  <2>1. Regular' /\ Begins(t, N)
    BY <1>1, EstablishRegular DEF Begins
  <2>2. Same /\ \E a : Start(t, a)
    BY <1>1 DEF Establish, pubVars
  <2>3. t \in Threads /\ N \subseteq Steps /\ \A x \in N : x.op \notin TokenOps
    BY ThreadFacts, StepFacts DEF TokenOps, Regular, Types
  <2> HIDE DEF t, N
  <2> QED
    BY <2>1, <2>2, <2>3
<1>2. ASSUME NEW s \in Sessions, Breaks(s)
      PROVE  Regular' /\ Same /\ \E t \in Threads, N \in SUBSET Steps : Goal(t, N)
  <2> DEFINE t == <<"edge", s>>
             N == {ForSession("close", s)}
  <2>1. Regular' /\ Begins(t, N)
    BY <1>2, BreaksRegular DEF Begins
  <2>2. Same /\ \E a : Start(t, a)
    BY <1>2 DEF Breaks, pubVars, linkVars
  <2>3. t \in Threads /\ N \subseteq Steps /\ \A x \in N : x.op \notin TokenOps
    BY ThreadFacts, StepFacts DEF TokenOps
  <2> HIDE DEF t, N
  <2> QED
    BY <2>1, <2>2, <2>3
<1>3. ASSUME NEW k \in Tracks, OnTrack(k)
      PROVE  Regular' /\ Same /\ \E t \in Threads, N \in SUBSET Steps : Goal(t, N)
  <2> DEFINE t == <<"track", k>>
             N == {ForTrack("arrive", k)}
  <2>1. Regular' /\ Begins(t, N)
    BY <1>3, OnTrackRegular DEF Begins
  <2>2. Same /\ \E a : Start(t, a)
    BY <1>3 DEF OnTrack, pubVars
  <2>3. t \in Threads /\ N \subseteq Steps /\ \A x \in N : x.op \notin TokenOps
    BY ThreadFacts, StepFacts DEF TokenOps, TrackOps
  <2> HIDE DEF t, N
  <2> QED
    BY <2>1, <2>2, <2>3
<1>4. ASSUME NEW k \in Tracks, LoopReturns(k)
      PROVE  Regular' /\ Same /\ \E t \in Threads, N \in SUBSET Steps : Goal(t, N)
  <2> DEFINE t == <<"track", k>>
             N == {ForTrack("ended", k)}
  <2>1. Regular' /\ Begins(t, N)
    BY <1>4, LoopReturnsRegular DEF Begins
  <2>2. Same /\ \E a : Start(t, a)
    BY <1>4 DEF LoopReturns, pubVars
  <2>3. t \in Threads /\ N \subseteq Steps /\ \A x \in N : x.op \notin TokenOps
    BY ThreadFacts, StepFacts DEF TokenOps, TrackOps
  <2> HIDE DEF t, N
  <2> QED
    BY <2>1, <2>2, <2>3
<1>5. ASSUME Demand
      PROVE  Regular' /\ Same /\ \E t \in Threads, N \in SUBSET Steps : Goal(t, N)
  <2> DEFINE N == {Recompute}
  <2>1. Regular' /\ Begins(Hook, N)
    BY <1>5, DemandRegular DEF Begins
  <2>2. Same /\ \E a : Start(Hook, a)
    BY <1>5 DEF Demand, linkVars, pubVars
  <2>3. Hook \in Threads /\ N \subseteq Steps /\ \A x \in N : x.op \notin TokenOps
    BY ThreadFacts, StepFacts DEF TokenOps
  <2> HIDE DEF N
  <2> QED
    BY <2>1, <2>2, <2>3
<1>6. ASSUME NEW l \in Listeners, Join(l)
      PROVE  Regular' /\ Same /\ \E t \in Threads, N \in SUBSET Steps : Goal(t, N)
  <2> DEFINE t == <<"join", l>>
             N == {Recompute}
  <2>1. Regular' /\ Begins(t, N)
    BY <1>6, JoinRegular DEF Begins
  <2>2. Same /\ \E a : Start(t, a)
    BY <1>6 DEF Join, linkVars, pubVars
  <2>3. t \in Threads /\ N \subseteq Steps /\ \A x \in N : x.op \notin TokenOps
    BY ThreadFacts, StepFacts DEF TokenOps
  <2> HIDE DEF t, N
  <2> QED
    BY <2>1, <2>2, <2>3
<1>7. ASSUME NEW l \in Listeners
      PROVE  /\ FillFor(l) \cup FillOne \cup {Recompute} \subseteq Steps
             /\ \A x \in FillFor(l) \cup FillOne \cup {Recompute} : x.op \notin TokenOps
  <2>1. \A x \in FillFor(l) \cup FillOne : x.op \in FillOps
    BY FillSteps
  <2>2. FillFor(l) \cup FillOne \subseteq Steps
    <3>1. entry # None => entry \in Pubs
      BY DEF Regular, Types
    <3> QED
      BY <3>1, StepFacts DEF FillFor, FillOne, PubOps
  <2> QED
    BY <2>1, <2>2, StepFacts DEF FillOps, TokenOps
<1>8. ASSUME NEW l \in Listeners, Connected(l)
      PROVE  Regular' /\ Same /\ \E t \in Threads, N \in SUBSET Steps : Goal(t, N)
  <2> DEFINE t == <<"connect", l>>
             N == FillFor(l)
  <2>1. Regular' /\ Begins(t, N)
    BY <1>8, ConnectedRegular DEF Begins
  <2>2. Same /\ \E a : Start(t, a)
    BY <1>8 DEF Connected, linkVars, pubVars
  <2>3. t \in Threads /\ N \subseteq Steps /\ \A x \in N : x.op \notin TokenOps
    BY <1>7, ThreadFacts
  <2> HIDE DEF t, N
  <2> QED
    BY <2>1, <2>2, <2>3
<1>9. ASSUME NEW l \in Listeners, Leave(l)
      PROVE  Regular' /\ Same /\ \E t \in Threads, N \in SUBSET Steps : Goal(t, N)
  <2> DEFINE t == <<"join", l>>
             N == FillOne \cup {Recompute}
  <2>1. Regular' /\ Begins(t, N)
    BY <1>9, LeaveRegular DEF Begins
  <2>2. Same /\ \E a : Start(t, a)
    BY <1>9 DEF Leave, linkVars, pubVars
  <2>3. t \in Threads /\ N \subseteq Steps /\ \A x \in N : x.op \notin TokenOps
    BY <1>7, ThreadFacts
  <2> HIDE DEF t, N
  <2> QED
    BY <2>1, <2>2, <2>3
<1>10. ASSUME NEW l \in Listeners, NEW want \in BOOLEAN, SetSubscription(l, want)
      PROVE  Regular' /\ Same /\ \E t \in Threads, N \in SUBSET Steps : Goal(t, N)
  <2> DEFINE t == <<"loop", l>>
             N == (IF want THEN FillFor(l) ELSE FillOne) \cup {Recompute}
  <2>1. Regular' /\ Begins(t, N)
    BY <1>10, SubscriptionRegular DEF Begins
  <2>2. Same /\ \E a : Start(t, a)
    BY <1>10 DEF SetSubscription, linkVars, pubVars
  <2>3. t \in Threads /\ N \subseteq Steps /\ \A x \in N : x.op \notin TokenOps
    BY <1>7, ThreadFacts
  <2> HIDE DEF t, N
  <2> QED
    BY <2>1, <2>2, <2>3
<1> QED
  BY <1>1, <1>2, <1>3, <1>4, <1>5, <1>6, <1>8, <1>9, <1>10 DEF Other

LEMMA OtherHeld ==
  ASSUME Regular, Held, Other
  PROVE  Regular' /\ Held'
<1>1. /\ Regular' /\ rp' = rp /\ entry' = entry /\ closed' = closed /\ speaker' = speaker
      /\ \E t \in Threads, N \in SUBSET Steps : Begins(t, N) /\ \A x \in N : x.op \notin TokenOps
  BY OtherBegins
<1>2. PICK t \in Threads, N \in SUBSET Steps : Begins(t, N) /\ \A x \in N : x.op \notin TokenOps
  BY <1>1
<1> QED
  BY <1>1, <1>2, HeldBegun DEF Begins

LEMMA EnsureRoomHeld ==
  ASSUME Regular, Held, EnsureRoom
  PROVE  Regular' /\ Held'
<1>1. Regular' /\ (\A t \in Threads : Left(t)' = Left(t)) /\ UNCHANGED <<rp, entry, closed, speaker>>
  BY EnsureRoomRegular DEF EnsureRoom, linkVars
<1>2. \A t \in Threads : Tokens(t)' = Tokens(t)
  BY <1>1 DEF Tokens
<1>3. Todo' = Todo
  BY <1>1 DEF Todo
<1> QED
  BY <1>1, <1>2, <1>3 DEF Held, Meant, Single, Answered, Due, Pending, Holds, Keeps

\* The room and the cascade keep to each other whatever overlaps.
LEMMA StepHeld ==
  ASSUME Regular, Held, [Next]_vars
  PROVE  Regular' /\ Held'
<1>1. CASE Next
  BY <1>1, AdvanceHeld, OtherHeld, EnsureRoomHeld DEF Next, Other
<1>2. CASE UNCHANGED vars
  <2>1. /\ UNCHANGED <<rp, entry, closed, speaker, job, fan, owner, sess, reg, track, part, room, overlapped, recomputed>>
    BY <1>2 DEF vars, linkVars, pubVars, partVars
  <2>2. \A t \in Threads : Left(t)' = Left(t)
    BY <2>1 DEF Left, Members
  <2>3. \A t \in Threads : Tokens(t)' = Tokens(t)
    BY <2>2 DEF Tokens
  <2>4. Todo' = Todo
    BY <2>2 DEF Todo
  <2>5. Held'
    BY <2>1, <2>3, <2>4 DEF Held, Meant, Single, Answered, Due, Pending, Holds, Keeps
  <2>6. Regular'
    BY <2>1, <2>2 DEF Regular, Types, Ordered, Placed, Tidy
  <2> QED
    BY <2>5, <2>6
<1> QED
  BY <1>1, <1>2

-----------------------------------------------------------------------------
(* A recomputation with nothing beside it                                  *)

\* What every step of a goroutine leaves alone, and which step it is.
LEMMA AdvanceFrame ==
  ASSUME Regular, NEW t \in Threads, Advance(t)
  PROVE  /\ job[t] # <<>> /\ overlapped' = overlapped /\ recomputed' = recomputed
         /\ \A u \in Threads : u # t => job'[u] = job[u]
<1>1. \E a : Continue(t, a)
  <2>1. CASE CloseSession(t) \/ OnEdgeClosed(t) \/ ReadLoop(t) \/ OnRemoteSpeakerEnded(t) \/ DropPublisher(t)
    BY <2>1 DEF CloseSession, OnEdgeClosed, ReadLoop, OnRemoteSpeakerEnded, DropPublisher
  <2>2. CASE OnRemoteTrack(t)
    BY <2>2 DEF OnRemoteTrack
  <2>3. CASE AddRemotePublisher(t)
    BY <2>3 DEF AddRemotePublisher
  <2>4. CASE StorePublisher(t) \/ Recheck(t) \/ ClosePublisher(t) \/ Unlist(t) \/ RecomputeRoom(t)
    BY <2>4 DEF StorePublisher, Recheck, ClosePublisher, Unlist, RecomputeRoom
  <2>5. CASE EnsureRemoteDownTrack(t) \/ InsertDownTrack(t) \/ RebuildRemoteFanout(t)
    BY <2>5 DEF EnsureRemoteDownTrack, InsertDownTrack, RebuildRemoteFanout
  <2> QED
    BY <2>1, <2>2, <2>3, <2>4, <2>5 DEF Advance
<1>2. PICK a : Continue(t, a)
  BY <1>1
<1> QED
  BY <1>2 DEF Continue, Regular, Types, Advance

LEMMA ByName ==
  ASSUME NEW t \in Threads, Advance(t)
  PROVE  LET op == Head(job[t]).op IN
         /\ op = "recompute" => RecomputeRoom(t)
         /\ op = "register" => AddRemotePublisher(t)
         /\ op = "store" => StorePublisher(t)
         /\ op = "recheck" => Recheck(t)
         /\ op = "ensure" => EnsureRemoteDownTrack(t)
         /\ op = "insert" => InsertDownTrack(t)
         /\ op = "rebuild" => RebuildRemoteFanout(t)
<1>1. /\ CloseSession(t) => Head(job[t]).op = "close"
      /\ OnEdgeClosed(t) => Head(job[t]).op = "edgeClosed"
      /\ OnRemoteTrack(t) => Head(job[t]).op = "arrive"
      /\ ReadLoop(t) => Head(job[t]).op = "read"
      /\ OnRemoteSpeakerEnded(t) => Head(job[t]).op = "ended"
      /\ DropPublisher(t) => Head(job[t]).op = "drop"
      /\ AddRemotePublisher(t) => Head(job[t]).op = "register"
      /\ StorePublisher(t) => Head(job[t]).op = "store"
      /\ Recheck(t) => Head(job[t]).op = "recheck"
      /\ ClosePublisher(t) => Head(job[t]).op = "closePub"
      /\ Unlist(t) => Head(job[t]).op = "unlist"
      /\ RecomputeRoom(t) => Head(job[t]).op = "recompute"
      /\ EnsureRemoteDownTrack(t) => Head(job[t]).op = "ensure"
      /\ InsertDownTrack(t) => Head(job[t]).op = "insert"
      /\ RebuildRemoteFanout(t) => Head(job[t]).op = "rebuild"
  BY DEF CloseSession, OnEdgeClosed, OnRemoteTrack, ReadLoop, OnRemoteSpeakerEnded, DropPublisher,
         AddRemotePublisher, StorePublisher, Recheck, ClosePublisher, Unlist, RecomputeRoom,
         EnsureRemoteDownTrack, InsertDownTrack, RebuildRemoteFanout, At
<1> QED
  BY <1>1 DEF Advance

LEMMA OneLeft ==
  ASSUME NEW t \in Threads, NEW x \in Steps, job[t] = <<x>>
  PROVE  Head(job[t]) = x /\ Tail(job[t]) = <<>> /\ Rest(t) = {} /\ Left(t) = {x}
<1>1. Head(<<x>>) = x /\ Tail(<<x>>) = <<>>
  OBVIOUS
<1> QED
  BY <1>1, MembersFacts DEF Rest, Left

LEMMA IdleLeft ==
  ASSUME NEW t \in Threads, job[t] = <<>>
  PROVE  Left(t) = {}
BY MembersFacts DEF Left

LEMMA AdvanceHealing ==
  ASSUME Regular, Held, Healing, NEW t \in Threads, Advance(t)
  PROVE  Healing'
<1> SUFFICES ASSUME recomputed' PROVE OnlyHook' /\ Retries'
  BY DEF Healing
<1>1. /\ job[t] # <<>> /\ recomputed /\ \A u \in Threads : u # t => job'[u] = job[u]
  BY AdvanceFrame
<1>2. t = Hook /\ \A u \in Threads \ {Hook} : job[u] = <<>>
  BY <1>1 DEF Healing, OnlyHook
<1>3. OnlyHook'
  BY <1>1, <1>2 DEF OnlyHook
<1>4. CASE job[Hook] = <<Recompute>>
  <2>1. Recompute \in Steps /\ Recompute.op = "recompute"
    BY StepFacts
  <2>2. Head(job[Hook]) = Recompute /\ Tail(job[Hook]) = <<>> /\ Rest(Hook) = {}
    BY <1>2, <1>4, <2>1, OneLeft
  <2>3. RecomputeRoom(Hook)
    BY <1>2, <2>1, <2>2, ByName
  <2>4. UNCHANGED <<speaker, rp, room>>
    BY <2>3 DEF RecomputeRoom, linkVars, pubVars
  <2>5. CASE speaker # None /\ rp[speaker] = None
    <3>1. job'[Hook] = <<ForTrack("register", speaker)>> \o <<>>
      BY <1>2, <2>2, <2>3, <2>5 DEF RecomputeRoom, Continue, Regular, Types
    <3>2. ForTrack("register", speaker) \in Steps
      BY <2>5, StepFacts DEF TrackOps, Regular, Types
    <3>3. job'[Hook] = <<ForTrack("register", speaker)>>
      BY <3>1, <3>2, TwoSteps
    <3> QED
      BY <1>3, <2>4, <2>5, <3>3 DEF Retries, ForTrack
  <2>6. CASE ~(speaker # None /\ rp[speaker] = None)
    <3>1. Left2(Hook, {} \cup Rest(Hook))
      BY <1>2, <2>3, <2>6, RecomputeRegular
    <3>2. Left(Hook)' = {}
      BY <2>2, <3>1 DEF Left2
    <3> QED
      BY <1>3, <2>4, <2>6, <3>2 DEF Retries
  <2> QED
    BY <2>5, <2>6
<1>5. CASE speaker # None /\ rp[speaker] = None /\ job[Hook] = <<ForTrack("register", speaker)>>
  <2>1. PICK k \in Tracks : k = speaker
    BY <1>5 DEF Regular, Types
  <2> DEFINE x == ForTrack("register", k)
  <2>2. x \in Steps /\ x.op = "register" /\ x.track = k
    BY StepFacts DEF TrackOps
  <2>3. Head(job[Hook]) = x /\ Rest(Hook) = {} /\ Left(Hook) = {x}
    <3>1. job[Hook] = <<x>>
      BY <1>5, <2>1
    <3> HIDE DEF x
    <3> QED
      BY <1>2, <2>2, <3>1, OneLeft
  <2>4. AddRemotePublisher(Hook)
    BY <1>2, <2>2, <2>3, ByName
  <2>5. UNCHANGED <<speaker, rp, room>>
    BY <2>4 DEF AddRemotePublisher, linkVars
  <2>6. CASE (~room \/ entry # None) /\ Left2(Hook, Rest(Hook))
    <3>1. Left(Hook)' = {}
      BY <2>3, <2>6 DEF Left2
    <3>2. entry = None
      <4>1. \A u \in Threads : ~Holds(u)
        <5>1. \A u \in Threads : u # Hook => Left(u) = {}
          BY <1>2, IdleLeft
        <5> QED
          BY <2>2, <2>3, <5>1 DEF Holds, Tokens, TokenOps
      <4>2. \A m \in Tracks : ~Pending(m)
        <5>1. Todo \subseteq {x}
          BY <1>2, <2>3, IdleLeft DEF Todo
        <5> QED
          BY <2>2, <5>1, StepFacts DEF Pending, TrackOps
      <4> QED
        BY <1>5, <4>1, <4>2 DEF Held, Answered, Due, Keeps
    <3> QED
      BY <1>3, <2>5, <2>6, <3>1, <3>2 DEF Retries
  <2>7. ASSUME NEW p, p \in Pubs,
               Left2(Hook, {ForListener("ensure", p, l) : l \in Listed}
                           \cup {ForPub("rebuild", p), Store(k, p)} \cup Rest(Hook))
        PROVE  /\ \A y \in Left(Hook)' : /\ y.op \in FillOps \cup {"store", "recheck"}
                                         /\ y.op \in {"store", "recheck"} => y.track = k
               /\ \E y \in Left(Hook)' : y.op = "store"
    <3>1. /\ \A l \in Listed : ForListener("ensure", p, l).op = "ensure"
          /\ ForPub("rebuild", p).op = "rebuild"
          /\ Store(k, p).op = "store" /\ Store(k, p).track = k
      BY <2>7, StepFacts DEF PubOps, Listed
    <3>2. Left(Hook)' = {ForListener("ensure", p, l) : l \in Listed} \cup {ForPub("rebuild", p), Store(k, p)}
      BY <2>3, <2>7 DEF Left2
    <3> QED
      BY <3>1, <3>2 DEF FillOps
  <2>8. CASE ~((~room \/ entry # None) /\ Left2(Hook, Rest(Hook)))
    <3>1. FreshPub \in Pubs /\ Left2(Hook, {ForListener("ensure", FreshPub, l) : l \in Listed}
                       \cup {ForPub("rebuild", FreshPub), Store(k, FreshPub)} \cup Rest(Hook))
      BY <1>2, <2>2, <2>3, <2>4, <2>8, AddRegular
    <3> QED
      BY <1>3, <2>1, <2>5, <2>7, <3>1 DEF Retries
  <2> QED
    BY <2>6, <2>8
<1>6. CASE /\ \A x \in Left(Hook) : /\ x.op \in FillOps \cup {"store", "recheck"}
                                    /\ x.op \in {"store", "recheck"} => x.track = speaker
           /\ room /\ speaker # None =>
                rp[speaker] # None \/ \E x \in Left(Hook) : x.op = "store"
  <2>1. Left(Hook) = {Head(job[Hook])} \cup Rest(Hook) /\ Rest(Hook) \subseteq Steps
    BY <1>1, <1>2, RestFacts DEF Regular, Ordered
  <2>2. \A x \in Rest(Hook) : /\ x.op \in FillOps \cup {"store", "recheck"}
                              /\ x.op \in {"store", "recheck"} => x.track = speaker
    BY <1>6, <2>1
  <2>3. Head(job[Hook]).op \in {"ensure", "insert", "rebuild", "store", "recheck"}
    BY <1>6, <2>1 DEF FillOps
  <2>4. ASSUME UNCHANGED <<speaker, rp, room>>, Head(job[Hook]).op # "store",
               NEW M, Left2(Hook, M \cup Rest(Hook)), \A x \in M : x.op \in FillOps
        PROVE  /\ \A x \in Left(Hook)' : /\ x.op \in FillOps \cup {"store", "recheck"}
                                         /\ x.op \in {"store", "recheck"} => x.track = speaker'
               /\ room' /\ speaker' # None =>
                    rp'[speaker'] # None \/ \E x \in Left(Hook)' : x.op = "store"
    <3>1. Left(Hook)' = M \cup Rest(Hook)
      BY <2>4 DEF Left2
    <3>2. \A x \in M : x.op \notin {"store", "recheck"}
      BY <2>4 DEF FillOps
    <3> QED
      BY <1>6, <2>1, <2>2, <2>4, <3>1, <3>2
  <2>5. CASE Head(job[Hook]).op = "ensure"
    <3>1. EnsureRemoteDownTrack(Hook)
      BY <1>2, <2>5, ByName
    <3>2. UNCHANGED <<speaker, rp, room>>
      BY <3>1 DEF EnsureRemoteDownTrack, linkVars, pubVars
    <3> DEFINE p == Head(job[Hook]).pub
               l == Head(job[Hook]).listener
               M == IF (p \notin closed /\ RemoteShouldForward(l)) /\ owner[l] = None
                    THEN {ForListener("insert", p, l)} ELSE {}
    <3>3. p \in Pubs /\ l \in Listeners /\ Left2(Hook, M \cup Rest(Hook))
      BY <1>2, <3>1, EnsureRegular
    <3>4. \A x \in M : x.op \in FillOps
      BY <3>3, StepFacts DEF FillOps
    <3> HIDE DEF M
    <3> QED
      BY <1>3, <2>4, <2>5, <3>2, <3>3, <3>4 DEF Retries
  <2>6. CASE Head(job[Hook]).op \in {"insert", "rebuild"}
    <3>1. InsertDownTrack(Hook) \/ RebuildRemoteFanout(Hook)
      BY <1>2, <2>6, ByName
    <3>2. UNCHANGED <<speaker, rp, room>> /\ Left2(Hook, Rest(Hook))
      BY <1>2, <3>1, InsertRegular, RebuildRegular DEF InsertDownTrack, RebuildRemoteFanout, linkVars, pubVars
    <3> DEFINE M == {}
    <3>3. Left2(Hook, M \cup Rest(Hook)) /\ \A x \in M : x.op \in FillOps
      BY <3>2
    <3> HIDE DEF M
    <3> QED
      BY <1>3, <2>4, <2>6, <3>2, <3>3 DEF Retries
  <2>7. CASE Head(job[Hook]).op = "store"
    <3>1. StorePublisher(Hook)
      BY <1>2, <2>7, ByName
    <3>2. PICK k \in Tracks, p \in Pubs :
            /\ k = Head(job[Hook]).track
            /\ rp' = [rp EXCEPT ![k] = p] /\ Left2(Hook, {ForTrack("recheck", k)} \cup Rest(Hook))
      BY <1>2, <3>1, StoreRegular
    <3>3. speaker' = speaker /\ k = speaker
      BY <1>6, <2>1, <2>7, <3>1, <3>2 DEF StorePublisher
    <3>4. rp'[k] # None
      BY <3>2, NameAssumption DEF Regular, Types, Pubs
    <3>5. ForTrack("recheck", k).op = "recheck" /\ ForTrack("recheck", k).track = k
      BY StepFacts DEF TrackOps
    <3>6. Left(Hook)' = {ForTrack("recheck", k)} \cup Rest(Hook)
      BY <3>2 DEF Left2
    <3> QED
      BY <1>3, <2>2, <3>3, <3>4, <3>5, <3>6 DEF Retries
  <2>8. CASE Head(job[Hook]).op = "recheck"
    <3>1. Recheck(Hook)
      BY <1>2, <2>8, ByName
    <3>2. UNCHANGED <<speaker, rp, room>> /\ Head(job[Hook]).track = speaker
      BY <1>6, <2>1, <2>8, <3>1 DEF Recheck, linkVars, pubVars
    <3> DEFINE M == {}
    <3>3. Left2(Hook, M \cup Rest(Hook)) /\ \A x \in M : x.op \in FillOps
      BY <1>2, <3>1, <3>2, RecheckRegular
    <3> HIDE DEF M
    <3> QED
      BY <1>3, <2>4, <2>8, <3>2, <3>3 DEF Retries
  <2> QED
    BY <2>3, <2>5, <2>6, <2>7, <2>8
<1>7. \/ job[Hook] = <<Recompute>>
      \/ speaker # None /\ rp[speaker] = None /\ job[Hook] = <<ForTrack("register", speaker)>>
      \/ /\ \A x \in Left(Hook) : /\ x.op \in FillOps \cup {"store", "recheck"}
                                  /\ x.op \in {"store", "recheck"} => x.track = speaker
         /\ room /\ speaker # None =>
              rp[speaker] # None \/ \E x \in Left(Hook) : x.op = "store"
  BY <1>1 DEF Healing, Retries
<1> QED
  BY <1>4, <1>5, <1>6, <1>7

LEMMA OtherHealing ==
  ASSUME Regular, Other
  PROVE  Healing'
<1>1. CASE Demand
  <2>1. recomputed' = (Active = {}) /\ job' = [job EXCEPT ![Hook] = <<Recompute>>]
    BY <1>1 DEF Demand, Start
  <2>2. Active = {} => \A u \in Threads : job[u] = <<>>
    BY DEF Active
  <2>3. job'[Hook] = <<Recompute>> /\ \A u \in Threads \ {Hook} : job'[u] = job[u]
    BY <2>1, ThreadFacts DEF Regular, Types
  <2> QED
    BY <2>1, <2>2, <2>3 DEF Healing, OnlyHook, Retries, Recompute, Step
<1>2. ASSUME NEW t \in Threads \ {Hook}, NEW a, Start(t, a) PROVE ~recomputed'
  BY <1>2 DEF Start
<1>3. CASE Other /\ ~Demand
  <2>1. \E t \in Threads \ {Hook} : \E a : Start(t, a)
    <3>1. CASE \E s \in Sessions : Establish(s) \/ Breaks(s)
      BY <3>1, ThreadFacts DEF Establish, Breaks
    <3>2. CASE \E k \in Tracks : OnTrack(k) \/ LoopReturns(k)
      BY <3>2, ThreadFacts DEF OnTrack, LoopReturns
    <3>3. CASE \E l \in Listeners : Join(l) \/ Connected(l)
      BY <3>3, ThreadFacts DEF Join, Connected
    <3>4. CASE \E l \in Listeners : Leave(l) \/ \E want \in BOOLEAN : SetSubscription(l, want)
      BY <3>4, ThreadFacts DEF Leave, SetSubscription
    <3> QED
      BY <1>3, <3>1, <3>2, <3>3, <3>4 DEF Other
  <2> QED
    BY <1>2, <2>1 DEF Healing
<1> QED
  BY <1>1, <1>3

LEMMA StepHealing ==
  ASSUME Regular, Held, Healing, [Next]_vars
  PROVE  Healing'
<1>1. CASE EnsureRoom
  BY <1>1 DEF EnsureRoom, Healing
<1>2. CASE UNCHANGED vars
  <2>1. UNCHANGED <<job, speaker, rp, room, recomputed>>
    BY <1>2 DEF vars, linkVars, pubVars
  <2>2. Left(Hook)' = Left(Hook)
    BY <2>1 DEF Left, Members
  <2> QED
    BY <2>1, <2>2 DEF Healing, OnlyHook, Retries, Recompute, Step, ForTrack
<1>3. CASE Other
  BY <1>3, OtherHealing
<1>4. CASE \E t \in Threads : Advance(t)
  BY <1>4, AdvanceHealing
<1> QED
  BY <1>1, <1>2, <1>3, <1>4 DEF Next, Other

-----------------------------------------------------------------------------
(* Operations one after the other                                          *)

\* What is pending, before and after a step: M takes the place of A.
Shift(A, M, R) == Todo = A \cup R /\ Todo' = M \cup R

LEMMA SoloAdvance ==
  ASSUME Regular, Lone, NEW t \in Threads, job[t] # <<>>, NEW M, Left2(t, M \cup Rest(t))
  PROVE  Shift({Head(job[t])}, M, Rest(t))
<1>1. Left(t) = {Head(job[t])} \cup Rest(t)
  BY RestFacts DEF Regular, Ordered
<1>2. \A u \in Threads : u # t => Left(u) = {}
  BY IdleLeft DEF Lone, Active
<1>3. Left(t)' = M \cup Rest(t) /\ \A u \in Threads : u # t => Left(u)' = {}
  BY <1>2 DEF Left2
<1>4. Todo = Left(t)
  BY <1>2 DEF Todo
<1>5. Todo' = Left(t)'
  BY <1>3 DEF Todo
<1> QED
  BY <1>1, <1>3, <1>4, <1>5 DEF Shift

LEMMA SoloLess ==
  ASSUME Regular, Lone, NEW t \in Threads, job[t] # <<>>, Left2(t, Rest(t))
  PROVE  Shift({Head(job[t])}, {}, Rest(t))
<1> DEFINE M == {}
<1>1. M \cup Rest(t) = Rest(t)
  OBVIOUS
<1>2. Left2(t, M \cup Rest(t))
  BY <1>1
<1> HIDE DEF M
<1>3. Shift({Head(job[t])}, M, Rest(t))
  BY <1>2, SoloAdvance
<1> QED
  BY <1>3 DEF M

LEMMA SoloBegin ==
  ASSUME Active = {}, NEW t \in Threads, NEW N, Begins(t, N)
  PROVE  Shift({}, N, {})
<1>1. \A u \in Threads : Left(u) = {}
  BY IdleLeft DEF Active
<1>2. Left(t)' = N /\ \A u \in Threads : u # t => Left(u)' = {}
  BY <1>1 DEF Begins, Left2
<1>3. Todo = {} /\ Todo' = N
  BY <1>1, <1>2 DEF Todo
<1> QED
  BY <1>3 DEF Shift

LEMMA InForceKept ==
  ASSUME Regular, InForce, NEW A, NEW M, NEW R, Shift(A, M, R),
         \A x \in A : x.op \notin {"close", "edgeClosed"},
         \A x \in M : x.op \notin {"edgeClosed", "arrive"},
         sess' = sess, reg' = reg, speaker' = speaker, track' = track
  PROVE  InForce'
<1>1. /\ \A s \in Sessions : /\ ForSession("close", s) \in Todo => ForSession("close", s) \in Todo'
                             /\ ForSession("edgeClosed", s) \in Todo <=> ForSession("edgeClosed", s) \in Todo'
      /\ \A k \in Tracks : ForTrack("arrive", k) \in Todo' => ForTrack("arrive", k) \in Todo
  BY StepFacts DEF Shift, TrackOps
<1>2. speaker # None => Origin[speaker] \in Sessions
  BY OriginAssumption DEF Regular, Types
<1> QED
  BY <1>1, <1>2 DEF InForce

LEMMA CurrentKept ==
  ASSUME Current, NEW A, NEW M, NEW R, Shift(A, M, R),
         \A x \in M : About(x), speaker' = speaker, entry' = entry
  PROVE  Current'
BY DEF Current, Shift, About

LEMMA RegisteredKept ==
  ASSUME Regular, Registered, NEW A, NEW M, NEW R, Shift(A, M, R),
         \A x \in A : x.op \notin {"recompute", "register", "store"},
         part' = part, room' = room, speaker' = speaker, rp' = rp
  PROVE  Registered'
<1>1. Recompute \in Todo => Recompute \in Todo'
  BY StepFacts DEF Shift
<1>2. (\E x \in Todo : x.op \in {"register", "store"}) => \E x \in Todo' : x.op \in {"register", "store"}
  BY DEF Shift
<1>3. Listed' = Listed
  BY DEF Listed
<1> QED
  BY <1>1, <1>2, <1>3 DEF Registered, Recompute, Step

LEMMA TrackedKept ==
  ASSUME Regular, Tracked, NEW A, NEW M, NEW R, Shift(A, M, R),
         \A x \in A : x.op \notin {"ensure", "insert"},
         part' = part, owner' = owner, entry' = entry, closed' = closed, unsub' = unsub
  PROVE  Tracked'
<1>1. entry # None => \A l \in Listeners :
        /\ ForListener("ensure", entry, l) \in Todo => ForListener("ensure", entry, l) \in Todo'
        /\ ForListener("insert", entry, l) \in Todo => ForListener("insert", entry, l) \in Todo'
  BY StepFacts DEF Shift, Regular, Types
<1> QED
  BY <1>1 DEF Tracked, ForListener

LEMMA FilledKept ==
  ASSUME Regular, Filled, NEW A, NEW M, NEW R, Shift(A, M, R),
         \A x \in A : x.op # "rebuild",
         part' = part, owner' = owner, entry' = entry, closed' = closed, unsub' = unsub, fan' = fan
  PROVE  Filled'
<1>1. entry # None => (ForPub("rebuild", entry) \in Todo => ForPub("rebuild", entry) \in Todo')
  <2>1. entry # None => ForPub("rebuild", entry).op = "rebuild"
    <3>1. entry # None => entry \in Pubs
      BY DEF Regular, Types
    <3> QED
      BY <3>1, StepFacts DEF PubOps
  <2> QED
    BY <2>1 DEF Shift
<1>2. Audience(entry)' = Audience(entry)
  BY DEF Audience, RemoteShouldForward, Listed
<1> QED
  BY <1>1, <1>2 DEF Filled, ForPub

\* A step of the sessions or of the track, at the end of which a recomputation
\* is pending or nothing of the registration has changed.
LEMMA PlainKept ==
  ASSUME Regular, Tracked, Filled, NEW A, NEW M, NEW R, Shift(A, M, R),
         \A x \in A : x.op \notin FillOps,
         part' = part, owner' = owner, entry' = entry, closed' = closed, unsub' = unsub, fan' = fan
  PROVE  Tracked' /\ Filled'
<1>1. \A x \in A : x.op \notin {"ensure", "insert"} /\ x.op # "rebuild"
  BY DEF FillOps
<1> QED
  BY <1>1, TrackedKept, FilledKept

\* Where the last step is near, nothing is behind it.
LEMMA LastAlone ==
  ASSUME Regular, NEW t \in Threads, job[t] # <<>>, Head(job[t]).op \in LastOps
  PROVE  Rest(t) = {}
BY RestFacts DEF Regular, Ordered

LEMMA CloseSessionSequential ==
  ASSUME Regular, Lone, Sequential, NEW t \in Threads, CloseSession(t)
  PROVE  Sequential'
<1>1. PICK s \in Sessions : s = Head(job[t]).session /\ Head(job[t]) = ForSession("close", s)
  BY CloseSessionRegular
<1> DEFINE h == ForSession("close", s)
           e == ForSession("edgeClosed", s)
           M == IF sess[s] = "shut" THEN {} ELSE {e}
<1>2. /\ job[t] # <<>> /\ Head(job[t]).op = "close" /\ sess' = [sess EXCEPT ![s] = "shut"]
      /\ UNCHANGED <<reg, track, speaker, rp, pubVars, partVars>>
  BY <1>1 DEF CloseSession, At
<1>3. Rest(t) = {}
  BY <1>2, LastAlone DEF LastOps
<1>4. Left2(t, M \cup Rest(t))
  BY <1>1, CloseSessionRegular
<1>5. Shift({h}, M, {})
  <2> HIDE DEF M, h
  <2> QED
    BY <1>1, <1>2, <1>3, <1>4, SoloAdvance DEF h
<1>6. h.op = "close" /\ e.op = "edgeClosed" /\ h.session = s /\ e.session = s
  BY StepFacts
<1>7. /\ \A z \in Sessions : /\ ForSession("close", z) \in Todo => z = s
                             /\ ForSession("edgeClosed", z) \notin Todo
                             /\ ForSession("edgeClosed", z) \in Todo' => z = s
      /\ sess[s] # "shut" => e \in Todo'
      /\ \A k \in Tracks : ForTrack("arrive", k) \notin Todo'
  <2> HIDE DEF h, e
  <2>1. Todo = {h} /\ Todo' = M
    BY <1>5 DEF Shift
  <2>2. \A z \in Sessions : /\ ForSession("close", z).op = "close" /\ ForSession("close", z).session = z
                            /\ ForSession("edgeClosed", z).op = "edgeClosed" /\ ForSession("edgeClosed", z).session = z
    BY StepFacts
  <2>3. \A k \in Tracks : ForTrack("arrive", k).op = "arrive"
    BY StepFacts DEF TrackOps
  <2> QED
    BY <1>6, <2>1, <2>2, <2>3
<1>8. InForce'
  <2>1. /\ sess \in [Sessions -> {"new", "up", "shut"}] /\ (speaker # None => Origin[speaker] \in Sessions)
    BY OriginAssumption DEF Regular, Types
  <2> HIDE DEF h, M
  <2> QED
    BY <1>2, <1>7, <2>1 DEF Sequential, InForce
<1>9. Current' /\ Registered' /\ Tracked' /\ Filled'
  <2>1. /\ \A x \in M : About(x)
        /\ \A x \in {h} : x.op \notin {"recompute", "register", "store"} /\ x.op \notin FillOps
    BY <1>6 DEF About, FillOps
  <2>2. /\ UNCHANGED <<reg, speaker, rp, room, entry, closed, fan, part, owner, unsub>>
    BY <1>2 DEF pubVars, partVars
  <2> HIDE DEF h, M
  <2>3. Current'
    BY <1>5, <2>1, <2>2, CurrentKept DEF Sequential
  <2>4. Registered'
    BY <1>5, <2>1, <2>2, RegisteredKept DEF Sequential
  <2>5. Tracked' /\ Filled'
    BY <1>5, <2>1, <2>2, PlainKept DEF Sequential
  <2> QED
    BY <2>3, <2>4, <2>5
<1> QED
  BY <1>8, <1>9 DEF Sequential

LEMMA OnEdgeClosedSequential ==
  ASSUME Regular, Lone, Sequential, NEW t \in Threads, OnEdgeClosed(t)
  PROVE  Sequential'
<1>1. PICK s \in Sessions : s = Head(job[t]).session /\ Head(job[t]) = ForSession("edgeClosed", s)
  BY OnEdgeClosedRegular
<1> DEFINE h == ForSession("edgeClosed", s)
           ends == speaker # None /\ Origin[speaker] = s
           D == IF ends THEN {ForTrack("drop", speaker)} ELSE {}
           M == D \cup {Recompute}
<1>2. /\ job[t] # <<>> /\ Head(job[t]).op = "edgeClosed"
      /\ reg' = (IF reg = s THEN None ELSE reg) /\ speaker' = (IF ends THEN None ELSE speaker)
      /\ UNCHANGED <<sess, track, rp, pubVars, partVars>>
  BY <1>1 DEF OnEdgeClosed, At
<1>3. Rest(t) = {}
  BY <1>2, LastAlone DEF LastOps
<1>4. Left2(t, M \cup Rest(t))
  BY <1>1, OnEdgeClosedRegular
<1>5. Shift({h}, M, {})
  <2> HIDE DEF M, h
  <2> QED
    BY <1>1, <1>2, <1>3, <1>4, SoloAdvance DEF h
<1>6. h.op = "edgeClosed" /\ h.session = s /\ Recompute.op = "recompute"
  BY StepFacts
<1>7. \A x \in D : speaker \in Tracks /\ x.op = "drop" /\ x.track = speaker /\ speaker' = None
  <2>1. ends => speaker \in Tracks
    BY DEF Regular, Types
  <2> QED
    BY <1>2, <2>1, StepFacts DEF TrackOps
<1>8. /\ \A z \in Sessions : /\ ForSession("close", z) \notin Todo
                             /\ ForSession("edgeClosed", z) \in Todo => z = s
                             /\ ForSession("edgeClosed", z) \notin Todo'
      /\ h \in Todo
      /\ \A k \in Tracks : ForTrack("arrive", k) \notin Todo'
  <2> HIDE DEF h, D
  <2>1. Todo = {h} /\ Todo' = D \cup {Recompute}
    BY <1>5 DEF Shift
  <2>2. \A z \in Sessions : /\ ForSession("close", z).op = "close" /\ ForSession("close", z).session = z
                            /\ ForSession("edgeClosed", z).op = "edgeClosed" /\ ForSession("edgeClosed", z).session = z
    BY StepFacts
  <2>3. \A k \in Tracks : ForTrack("arrive", k).op = "arrive"
    BY StepFacts DEF TrackOps
  <2> QED
    BY <1>6, <1>7, <2>1, <2>2, <2>3
<1>9. InForce'
  <2>1. (speaker # None => Origin[speaker] \in Sessions) /\ None \notin Sessions
    BY OriginAssumption, NameAssumption DEF Regular, Types
  <2>2. sess[s] = "shut"
    BY <1>8 DEF Sequential, InForce
  <2> HIDE DEF h, M
  <2> QED
    BY <1>2, <1>8, <2>1, <2>2 DEF Sequential, InForce
<1>10. UNCHANGED <<rp, room, entry, closed, fan, part, owner, unsub>>
  BY <1>2 DEF pubVars, partVars
<1>11. Current'
  <2>1. Todo' = D \cup {Recompute}
    BY <1>5 DEF Shift
  <2>2. \A x \in D : x.op = "drop" /\ x.track # speaker'
    BY <1>7, NameAssumption
  <2> HIDE DEF D
  <2> QED
    BY <1>6, <2>1, <2>2 DEF Current, About, FillOps
<1>12. Registered'
  <2>1. Recompute \in Todo'
    BY <1>5 DEF Shift
  <2>2. Listed' = Listed
    BY <1>10 DEF Listed
  <2> QED
    BY <1>10, <2>1, <2>2 DEF Sequential, Registered, Recompute, Step
<1>13. Tracked' /\ Filled'
  <2>1. \A x \in {h} : x.op \notin FillOps
    BY <1>6 DEF FillOps
  <2> HIDE DEF h, M
  <2> QED
    BY <1>5, <1>10, <2>1, PlainKept DEF Sequential
<1> QED
  BY <1>9, <1>11, <1>12, <1>13 DEF Sequential

\* With nothing beside it no arrival is rejected, and the speaker's session is
\* the one in force.
LEMMA NotRejected ==
  ASSUME Regular, Lone, Sequential, NEW t \in Threads, OnRemoteTrack(t)
  PROVE  /\ Accepted(t[2]) /\ Rest(t) = {} /\ t[2] \in Tracks
         /\ Todo = {ForTrack("arrive", t[2])} /\ sess[Origin[t[2]]] = "up"
<1>1. PICK k \in Tracks : k = t[2] /\ Head(job[t]) = ForTrack("arrive", k)
  BY AcceptedRegular, RejectedRegular
<1> DEFINE h == ForTrack("arrive", k)
<1>2. job[t] # <<>> /\ Head(job[t]).op = "arrive" /\ h.op = "arrive"
  BY <1>1, StepFacts DEF OnRemoteTrack, At, TrackOps
<1>3. Rest(t) = {} /\ Left(t) = {h}
  BY <1>1, <1>2, LastAlone, RestFacts DEF LastOps, Regular, Ordered
<1>4. Todo = {h}
  <2>1. \A u \in Threads : u # t => Left(u) = {}
    BY <1>2, IdleLeft DEF Lone, Active
  <2> HIDE DEF h
  <2> QED
    BY <1>3, <2>1 DEF Todo
<1>5. \A z \in Sessions : ForSession("close", z) \notin Todo /\ ForSession("edgeClosed", z) \notin Todo
  <2> HIDE DEF h
  <2> QED
    BY <1>2, <1>4, StepFacts
<1>6. sess[Origin[k]] = "up" /\ Origin[k] \in Sessions
  BY <1>4, OriginAssumption DEF Sequential, InForce
<1>7. reg = Origin[k]
  BY <1>5, <1>6 DEF Sequential, InForce
<1>8. speaker # None => Origin[speaker] = Origin[k]
  <2>1. speaker # None => Origin[speaker] \in Sessions
    BY OriginAssumption DEF Regular, Types
  <2> QED
    BY <1>5, <1>7, <2>1 DEF Sequential, InForce
<1> QED
  BY <1>1, <1>3, <1>4, <1>6, <1>7, <1>8 DEF Accepted

LEMMA OnRemoteTrackSequential ==
  ASSUME Regular, Lone, Sequential, NEW t \in Threads, OnRemoteTrack(t)
  PROVE  Sequential'
<1>1. PICK k \in Tracks : k = t[2] /\ Accepted(t[2]) /\ Rest(t) = {} /\ Todo = {ForTrack("arrive", k)} /\ sess[Origin[k]] = "up"
  BY NotRejected
<1> DEFINE h == ForTrack("arrive", k)
           old == IF speaker = None THEN None ELSE rp[speaker]
           C == IF old # None THEN {ForPub("closePub", old)} ELSE {}
           B == {ForTrack("register", k), Recompute, ForTrack("read", k)}
           M == C \cup B
<1>2. /\ job[t] # <<>> /\ Head(job[t]) = h /\ speaker' = k /\ Left2(t, M)
  BY <1>1, AcceptedRegular DEF OnRemoteTrack, At
<1>3. UNCHANGED <<sess, reg, room, entry, closed, fan, part, owner, unsub, track>>
  BY <1>1 DEF OnRemoteTrack, pubVars, partVars
<1>4. Shift({h}, M, {})
  <2>1. M = M \cup Rest(t)
    BY <1>1
  <2>2. Left2(t, M \cup Rest(t))
    BY <1>2, <2>1
  <2> HIDE DEF M, h
  <2> QED
    BY <1>1, <1>2, <2>2, SoloAdvance
<1>5. /\ h.op = "arrive" /\ Recompute.op = "recompute"
      /\ ForTrack("register", k).op = "register" /\ ForTrack("register", k).track = k
      /\ ForTrack("read", k).op = "read"
  BY StepFacts DEF TrackOps
<1>6. \A x \in C : x.op = "closePub"
  <2>1. old # None => old \in Pubs
    BY DEF Regular, Types
  <2> QED
    BY <2>1, StepFacts DEF PubOps
<1>7. \A x \in M : x.op \in {"closePub", "register", "recompute", "read"} /\ (x.op = "register" => x.track = k)
  <2> HIDE DEF C
  <2> QED
    BY <1>5, <1>6
<1>8. Todo = {h} /\ Todo' = M
  <2> HIDE DEF M, h
  <2> QED
    BY <1>4 DEF Shift
<1>9. InForce'
  <2>1. /\ \A z \in Sessions : ForSession("close", z) \notin Todo /\ ForSession("edgeClosed", z) \notin Todo
        /\ \A z \in Sessions : ForSession("edgeClosed", z) \notin Todo'
        /\ \A m \in Tracks : ForTrack("arrive", m) \notin Todo'
    <3>1. /\ \A z \in Sessions : ForSession("close", z).op = "close" /\ ForSession("edgeClosed", z).op = "edgeClosed"
          /\ \A m \in Tracks : ForTrack("arrive", m).op = "arrive"
      BY StepFacts DEF TrackOps
    <3> HIDE DEF M, h
    <3> QED
      BY <1>5, <1>7, <1>8, <3>1
  <2> QED
    BY <1>1, <1>2, <1>3, <2>1 DEF Sequential, InForce
<1>10. Current'
  <2> HIDE DEF M
  <2> QED
    BY <1>2, <1>7, <1>8 DEF Current, About, FillOps
<1>11. Registered'
  <2>1. Recompute \in Todo' /\ Listed' = Listed
    BY <1>3, <1>8 DEF Listed
  <2> QED
    BY <1>3, <2>1 DEF Sequential, Registered, Recompute, Step
<1>12. Tracked' /\ Filled'
  <2>1. \A x \in {h} : x.op \notin FillOps
    BY <1>5 DEF FillOps
  <2> HIDE DEF h, M
  <2> QED
    BY <1>3, <1>4, <2>1, PlainKept DEF Sequential
<1> QED
  BY <1>9, <1>10, <1>11, <1>12 DEF Sequential

LEMMA ReadLoopSequential ==
  ASSUME Regular, Lone, Sequential, NEW t \in Threads, ReadLoop(t)
  PROVE  Sequential'
<1> DEFINE h == Head(job[t])
<1>1. /\ job[t] # <<>> /\ h.op = "read" /\ track' = [track EXCEPT ![t[2]] = "live"]
      /\ UNCHANGED <<sess, reg, speaker, rp, room, entry, closed, fan, part, owner, unsub>>
  BY DEF ReadLoop, At, pubVars, partVars
<1>2. Shift({h}, {}, Rest(t))
  BY <1>1, ReadLoopRegular, SoloLess
<1>3. Rest(t) = {}
  BY <1>1, LastAlone DEF LastOps
<1>4. Todo = {h} /\ Todo' = {}
  BY <1>2, <1>3 DEF Shift
<1> HIDE DEF h
<1>5. InForce'
  <2>1. \A z \in Sessions : ForSession("close", z) \notin Todo /\ ForSession("edgeClosed", z) \notin Todo
    BY <1>1, <1>4, StepFacts
  <2>2. \A m \in Tracks : track'[m] # "drained"
    BY <1>1 DEF Sequential, InForce, Regular, Types
  <2>3. speaker # None => Origin[speaker] \in Sessions
    BY OriginAssumption DEF Regular, Types
  <2> QED
    BY <1>1, <1>4, <2>1, <2>2, <2>3 DEF Sequential, InForce
<1>6. Current' /\ Registered' /\ Tracked' /\ Filled'
  <2> DEFINE A == {h}
             M == {}
  <2>1. /\ \A x \in M : About(x)
        /\ \A x \in A : x.op \notin {"recompute", "register", "store"} /\ x.op \notin FillOps
    BY <1>1 DEF FillOps
  <2>2. Shift(A, M, Rest(t))
    BY <1>2
  <2> HIDE DEF A, M
  <2>3. Current'
    BY <1>1, <2>1, <2>2, CurrentKept DEF Sequential
  <2>4. Registered'
    BY <1>1, <2>1, <2>2, RegisteredKept DEF Sequential
  <2>5. Tracked' /\ Filled'
    BY <1>1, <2>1, <2>2, PlainKept DEF Sequential
  <2> QED
    BY <2>3, <2>4, <2>5
<1> QED
  BY <1>5, <1>6 DEF Sequential

LEMMA EndedSequential ==
  ASSUME Regular, Lone, Sequential, NEW t \in Threads, OnRemoteSpeakerEnded(t)
  PROVE  Sequential'
<1>1. PICK k \in Tracks : k = t[2] /\ Left2(t, {ForTrack("drop", k), Recompute} \cup Rest(t))
  BY EndedRegular
<1> DEFINE h == Head(job[t])
           M == {ForTrack("drop", k), Recompute}
<1>2. /\ job[t] # <<>> /\ h.op = "ended" /\ speaker' = (IF speaker = k THEN None ELSE speaker)
      /\ UNCHANGED <<sess, reg, track, rp, room, entry, closed, fan, part, owner, unsub>>
  BY <1>1 DEF OnRemoteSpeakerEnded, At, pubVars, partVars
<1>3. Rest(t) = {}
  BY <1>2, LastAlone DEF LastOps
<1>4. Shift({h}, M, {})
  <2>1. Left2(t, M \cup Rest(t))
    BY <1>1
  <2> HIDE DEF M
  <2> QED
    BY <1>2, <1>3, <2>1, SoloAdvance
<1> HIDE DEF h
<1>5. Todo = {h} /\ Todo' = M
  <2> HIDE DEF M
  <2> QED
    BY <1>4 DEF Shift
<1>6. /\ Recompute.op = "recompute" /\ ForTrack("drop", k).op = "drop" /\ ForTrack("drop", k).track = k
  BY StepFacts DEF TrackOps
<1>7. InForce'
  <2>1. /\ \A z \in Sessions : ForSession("close", z) \notin Todo /\ ForSession("edgeClosed", z) \notin Todo
        /\ \A z \in Sessions : ForSession("edgeClosed", z) \notin Todo'
        /\ \A m \in Tracks : ForTrack("arrive", m) \notin Todo'
    <3>1. /\ \A z \in Sessions : ForSession("close", z).op = "close" /\ ForSession("edgeClosed", z).op = "edgeClosed"
          /\ \A m \in Tracks : ForTrack("arrive", m).op = "arrive"
      BY StepFacts DEF TrackOps
    <3> QED
      BY <1>2, <1>5, <1>6, <3>1
  <2>2. speaker # None => Origin[speaker] \in Sessions
    BY OriginAssumption DEF Regular, Types
  <2> QED
    BY <1>2, <2>1, <2>2 DEF Sequential, InForce
<1>8. Current'
  <2>1. k # speaker'
    BY <1>2, NameAssumption
  <2> QED
    BY <1>5, <1>6, <2>1 DEF Current, About, FillOps
<1>9. Registered'
  <2>1. Recompute \in Todo' /\ Listed' = Listed
    BY <1>2, <1>5 DEF Listed
  <2> QED
    BY <1>2, <2>1 DEF Sequential, Registered, Recompute, Step
<1>10. Tracked' /\ Filled'
  <2>1. \A x \in {h} : x.op \notin FillOps
    BY <1>2 DEF FillOps
  <2> HIDE DEF M
  <2> QED
    BY <1>2, <1>4, <2>1, PlainKept DEF Sequential
<1> QED
  BY <1>7, <1>8, <1>9, <1>10 DEF Sequential

\* The steps of the registration, which leave the sessions alone.
LEMMA LinkKept ==
  ASSUME Regular, Sequential, NEW t \in Threads, NEW op, Head(job[t]).op = op, NEW M,
         Shift({Head(job[t])}, M, Rest(t)), op \notin {"close", "edgeClosed"},
         \A x \in M : x.op \notin {"edgeClosed", "arrive"},
         sess' = sess, reg' = reg, speaker' = speaker, track' = track
  PROVE  InForce'
<1> DEFINE A == {Head(job[t])}
<1>1. Shift(A, M, Rest(t)) /\ \A x \in A : x.op \notin {"close", "edgeClosed"}
  OBVIOUS
<1> HIDE DEF A
<1> QED
  BY <1>1, InForceKept DEF Sequential

LEMMA HeadAbout ==
  ASSUME Sequential, NEW t \in Threads, NEW M, Shift({Head(job[t])}, M, Rest(t))
  PROVE  About(Head(job[t])) /\ \A x \in Rest(t) : About(x)
BY DEF Sequential, Current, Shift

LEMMA DropSequential ==
  ASSUME Regular, Lone, Sequential, NEW t \in Threads, DropPublisher(t)
  PROVE  Sequential'
<1>1. PICK k \in Tracks :
        /\ k = Head(job[t]).track /\ Head(job[t]) = ForTrack("drop", k)
        /\ Left2(t, (IF rp[k] # None THEN {ForPub("closePub", rp[k])} ELSE {}) \cup Rest(t))
  BY DropRegular
<1> DEFINE h == Head(job[t])
           A == {h}
           M == IF rp[k] # None THEN {ForPub("closePub", rp[k])} ELSE {}
<1>2. /\ job[t] # <<>> /\ h.op = "drop" /\ rp' = [rp EXCEPT ![k] = None]
      /\ UNCHANGED <<sess, reg, track, speaker, room, entry, closed, fan, part, owner, unsub>>
  BY <1>1 DEF DropPublisher, At, pubVars, partVars
<1>3. \A x \in M : x.op = "closePub"
  <2>1. rp[k] # None => rp[k] \in Pubs
    BY DEF Regular, Types
  <2> QED
    BY <2>1, StepFacts DEF PubOps
<1>4. Left2(t, M \cup Rest(t))
  BY <1>1
<1> HIDE DEF M
<1>5. Shift({h}, M, Rest(t))
  BY <1>2, <1>4, SoloAdvance
<1>6. InForce'
  BY <1>2, <1>3, <1>5, LinkKept
<1>7. Current'
  <2>1. \A x \in M : About(x)
    BY <1>3 DEF About, FillOps
  <2> QED
    BY <1>2, <1>5, <2>1, CurrentKept DEF Sequential
<1>8. Registered'
  <2>1. k # speaker
    BY <1>1, <1>2, <1>5, HeadAbout DEF About
  <2>2. speaker # None => rp'[speaker] = rp[speaker]
    BY <1>2, <2>1 DEF Regular, Types
  <2>3. /\ Recompute \in Todo => Recompute \in Todo'
        /\ (\E x \in Todo : x.op \in {"register", "store"}) => \E x \in Todo' : x.op \in {"register", "store"}
    BY <1>2, <1>5, StepFacts DEF Shift
  <2>4. Listed' = Listed
    BY <1>2 DEF Listed
  <2> QED
    BY <1>2, <2>2, <2>3, <2>4 DEF Sequential, Registered, Recompute, Step
<1>9. Tracked' /\ Filled'
  <2>1. Shift(A, M, Rest(t)) /\ \A x \in A : x.op \notin FillOps
    BY <1>2, <1>5 DEF FillOps
  <2> HIDE DEF A
  <2> QED
    BY <1>2, <2>1, PlainKept DEF Sequential
<1> QED
  BY <1>6, <1>7, <1>8, <1>9 DEF Sequential

\* A refused registration: someone's publisher is there, and it is the
\* speaker's.
LEMMA RefusedRegistered ==
  ASSUME Regular, Held, Lone, Sequential, NEW t \in Threads, job[t] # <<>>,
         Head(job[t]).op = "register", entry # None
  PROVE  speaker # None /\ rp[speaker] # None
<1>1. /\ Left(t) = {Head(job[t])} \cup Rest(t)
      /\ \A x \in Rest(t) : x.op \notin TokenOps \cup FirstOps
  BY NoTokenBehind, RestFacts DEF FillOps, Regular, Ordered
<1>2. \A u \in Threads : u # t => Left(u) = {}
  BY IdleLeft DEF Lone, Active
<1>3. Todo = Left(t)
  BY <1>2 DEF Todo
<1>4. \A u \in Threads : ~Holds(u)
  BY <1>1, <1>2 DEF Holds, Tokens, TokenOps
<1>5. PICK m \in Tracks : Keeps(m)
  BY <1>4 DEF Held, Answered
<1>6. ~Pending(m)
  BY <1>1, <1>3, StepFacts DEF Pending, TrackOps, FirstOps
<1>7. m = speaker
  BY <1>5, <1>6 DEF Held, Due
<1> QED
  BY <1>5, <1>7, NameAssumption DEF Keeps

LEMMA AddSequential ==
  ASSUME Regular, Held, Lone, Sequential, NEW t \in Threads, AddRemotePublisher(t)
  PROVE  Sequential'
<1>1. PICK k \in Tracks : k = Head(job[t]).track /\ Head(job[t]) = ForTrack("register", k)
  BY AddRegular
<1> DEFINE h == Head(job[t])
           A == {h}
<1>2. /\ job[t] # <<>> /\ h.op = "register"
      /\ UNCHANGED <<sess, reg, track, speaker, rp, room, part, owner, unsub>>
  BY DEF AddRemotePublisher, At, linkVars, partVars
<1>3. CASE (~room \/ entry # None) /\ UNCHANGED <<entry, closed, fan>> /\ Left2(t, Rest(t))
  <2> DEFINE M == {}
  <2>1. Shift({h}, M, Rest(t))
    BY <1>2, <1>3, SoloLess
  <2>2. \A x \in M : x.op \notin {"edgeClosed", "arrive"} /\ About(x)
    OBVIOUS
  <2> HIDE DEF M
  <2>3. InForce'
    BY <1>2, <2>1, <2>2, LinkKept
  <2>4. Current'
    BY <1>2, <1>3, <2>1, <2>2, CurrentKept DEF Sequential
  <2>5. Tracked' /\ Filled'
    <3>1. Shift(A, M, Rest(t)) /\ \A x \in A : x.op \notin FillOps
      BY <1>2, <2>1 DEF FillOps
    <3> HIDE DEF A
    <3> QED
      BY <1>2, <1>3, <3>1, PlainKept DEF Sequential
  <2>6. Registered'
    <3>1. Listed' = Listed
      BY <1>2 DEF Listed
    <3>2. Listed # {} => room /\ entry # None
      BY <1>3 DEF Sequential, Registered
    <3>3. Listed # {} => rp[speaker] # None
      BY <1>2, <3>2, RefusedRegistered
    <3> QED
      BY <1>2, <3>1, <3>2, <3>3 DEF Registered
  <2> QED
    BY <2>3, <2>4, <2>5, <2>6 DEF Sequential
<1>4. ASSUME NEW p \in Pubs, p = FreshPub, entry = None, ~InUse(p),
             entry' = p, closed' = {q \in closed : InUse(q)}, fan' = [fan EXCEPT ![p] = {}],
             Left2(t, {ForListener("ensure", p, l) : l \in Listed}
                      \cup {ForPub("rebuild", p), Store(k, p)} \cup Rest(t))
      PROVE  Sequential'
  <2> DEFINE E == {ForListener("ensure", p, l) : l \in Listed}
             M == E \cup {ForPub("rebuild", p), Store(k, p)}
  <2>1. /\ \A x \in E : x.op = "ensure" /\ x.pub = p
        /\ ForPub("rebuild", p).op = "rebuild" /\ ForPub("rebuild", p).pub = p
        /\ Store(k, p).op = "store" /\ Store(k, p).track = k
    BY StepFacts DEF PubOps, Listed
  <2>2. Left2(t, M \cup Rest(t))
    BY <1>4
  <2>3. /\ ForPub("rebuild", p) \in M /\ Store(k, p) \in M
        /\ \A l \in Listed : ForListener("ensure", p, l) \in M
        /\ \A x \in M : /\ x.op \in {"ensure", "rebuild", "store"}
                        /\ x.op \in {"ensure", "rebuild"} => x.pub = p
                        /\ x.op = "store" => x.track = k
    <3>1. \A l \in Listed : ForListener("ensure", p, l) \in E
      OBVIOUS
    <3> HIDE DEF E
    <3> QED
      BY <2>1, <3>1
  <2> HIDE DEF M, E
  <2>4. Shift({h}, M, Rest(t))
    BY <1>2, <2>2, SoloAdvance
  <2>5. M \subseteq Todo' /\ Todo' = M \cup Rest(t)
    BY <2>4 DEF Shift
  <2>6. InForce'
    <3>1. \A x \in M : x.op \notin {"edgeClosed", "arrive"}
      BY <2>3
    <3> QED
      BY <1>2, <2>4, <3>1, LinkKept
  <2>7. k = speaker /\ \A x \in Rest(t) : About(x)
    BY <1>1, <1>2, <2>4, HeadAbout DEF About
  <2>8. Current'
    <3>1. \A x \in Rest(t) : x.op \notin FillOps
      BY <1>2, RestFacts DEF Regular, Ordered, FillOps
    <3>2. \A x \in M : About(x)'
      BY <1>2, <1>4, <2>3, <2>7 DEF About, FillOps
    <3>3. \A x \in Rest(t) : About(x)'
      BY <1>2, <2>7, <3>1 DEF About
    <3> QED
      BY <2>5, <3>2, <3>3 DEF Current
  <2>9. Registered'
    <3>1. Listed' = Listed
      BY <1>2 DEF Listed
    <3>2. \E x \in Todo' : x.op \in {"register", "store"}
      BY <2>1, <2>3, <2>5
    <3> QED
      BY <1>2, <3>1, <3>2 DEF Sequential, Registered
  <2>10. Tracked'
    <3>1. \A l \in Listeners : part[l] = "connected" => ForListener("ensure", p, l) \in Todo'
      BY <2>3, <2>5 DEF Listed
    <3> QED
      BY <1>2, <1>4, <3>1 DEF Sequential, Tracked, ForListener
  <2>11. Filled'
    BY <1>4, <2>3, <2>5 DEF Filled, ForPub
  <2> QED
    BY <2>6, <2>8, <2>9, <2>10, <2>11 DEF Sequential
<1> QED
  BY <1>1, <1>3, <1>4, AddRegular

LEMMA StoreSequential ==
  ASSUME Regular, Held, Lone, Sequential, NEW t \in Threads, StorePublisher(t)
  PROVE  Sequential'
<1>1. PICK k \in Tracks, p \in Pubs :
        /\ k = Head(job[t]).track /\ p = Head(job[t]).pub /\ Head(job[t]) = Store(k, p)
        /\ rp' = [rp EXCEPT ![k] = p] /\ Left2(t, {ForTrack("recheck", k)} \cup Rest(t))
  BY StoreRegular
<1> DEFINE h == Head(job[t])
           A == {h}
           M == {ForTrack("recheck", k)}
<1>2. /\ job[t] # <<>> /\ h.op = "store"
      /\ UNCHANGED <<sess, reg, track, speaker, room, entry, closed, fan, part, owner, unsub>>
  BY DEF StorePublisher, At, pubVars, partVars
<1>3. Left2(t, M \cup Rest(t)) /\ \A x \in M : x.op = "recheck" /\ x.track = k
  BY <1>1, StepFacts DEF TrackOps
<1> HIDE DEF M
<1>4. Shift({h}, M, Rest(t))
  BY <1>2, <1>3, SoloAdvance
<1>5. k = speaker
  BY <1>1, <1>2, <1>4, HeadAbout DEF About
<1>6. InForce'
  BY <1>2, <1>3, <1>4, LinkKept
<1>7. Current'
  <2>1. \A x \in M : About(x)
    BY <1>3, <1>5 DEF About, FillOps
  <2> QED
    BY <1>2, <1>4, <2>1, CurrentKept DEF Sequential
<1>8. Registered'
  <2>1. rp'[speaker] # None
    BY <1>1, <1>5, NameAssumption DEF Regular, Types, Pubs
  <2>2. Listed' = Listed
    BY <1>2 DEF Listed
  <2> QED
    BY <1>2, <2>1, <2>2 DEF Sequential, Registered
<1>9. Tracked' /\ Filled'
  <2>1. Shift(A, M, Rest(t)) /\ \A x \in A : x.op \notin FillOps
    BY <1>2, <1>4 DEF FillOps
  <2> HIDE DEF A
  <2> QED
    BY <1>2, <2>1, PlainKept DEF Sequential
<1> QED
  BY <1>6, <1>7, <1>8, <1>9 DEF Sequential

LEMMA RecheckSequential ==
  ASSUME Regular, Lone, Sequential, NEW t \in Threads, Recheck(t)
  PROVE  Sequential'
<1>1. PICK k \in Tracks :
        /\ k = Head(job[t]).track
        /\ Left2(t, (IF speaker # k THEN {ForTrack("drop", k)} ELSE {}) \cup Rest(t))
  BY RecheckRegular
<1> DEFINE h == Head(job[t])
           A == {h}
           M == IF speaker # k THEN {ForTrack("drop", k)} ELSE {}
<1>2. /\ job[t] # <<>> /\ h.op = "recheck"
      /\ UNCHANGED <<sess, reg, track, speaker, rp, room, entry, closed, fan, part, owner, unsub>>
  BY DEF Recheck, At, linkVars, pubVars, partVars
<1>3. Left2(t, M \cup Rest(t)) /\ \A x \in M : x.op = "drop" /\ x.track = k /\ k # speaker
  BY <1>1, StepFacts DEF TrackOps
<1> HIDE DEF M
<1>4. Shift({h}, M, Rest(t))
  BY <1>2, <1>3, SoloAdvance
<1>5. InForce'
  BY <1>2, <1>3, <1>4, LinkKept
<1>6. Current'
  <2>1. \A x \in M : About(x)
    BY <1>3 DEF About, FillOps
  <2> QED
    BY <1>2, <1>4, <2>1, CurrentKept DEF Sequential
<1>7. Registered' /\ Tracked' /\ Filled'
  <2>1. /\ Shift(A, M, Rest(t))
        /\ \A x \in A : x.op \notin FillOps /\ x.op \notin {"recompute", "register", "store"}
    BY <1>2, <1>4 DEF FillOps
  <2> HIDE DEF A
  <2>2. Registered'
    BY <1>2, <2>1, RegisteredKept DEF Sequential
  <2> QED
    BY <1>2, <2>1, <2>2, PlainKept DEF Sequential
<1> QED
  BY <1>5, <1>6, <1>7 DEF Sequential

LEMMA ClosePublisherSequential ==
  ASSUME Regular, Held, Lone, Sequential, NEW t \in Threads, ClosePublisher(t)
  PROVE  Sequential'
<1>1. PICK p \in Pubs :
        /\ p = Head(job[t]).pub /\ closed' = closed \cup {p}
        /\ Left2(t, (IF p \in closed THEN {} ELSE {ForPub("unlist", p)}) \cup Rest(t))
  BY ClosePublisherRegular
<1> DEFINE h == Head(job[t])
           A == {h}
           M == IF p \in closed THEN {} ELSE {ForPub("unlist", p)}
<1>2. /\ job[t] # <<>> /\ h.op = "closePub"
      /\ UNCHANGED <<sess, reg, track, speaker, rp, room, entry, fan, part, owner, unsub>>
  BY DEF ClosePublisher, At, linkVars, partVars
<1>3. Left2(t, M \cup Rest(t)) /\ \A x \in M : x.op = "unlist"
  BY <1>1, StepFacts DEF PubOps
<1> HIDE DEF M
<1>4. Shift({h}, M, Rest(t))
  BY <1>2, <1>3, SoloAdvance
<1>5. InForce'
  BY <1>2, <1>3, <1>4, LinkKept
<1>6. Current'
  <2>1. \A x \in M : About(x)
    BY <1>3 DEF About, FillOps
  <2> QED
    BY <1>2, <1>4, <2>1, CurrentKept DEF Sequential
<1>7. Registered'
  <2>1. Shift(A, M, Rest(t)) /\ \A x \in A : x.op \notin {"recompute", "register", "store"}
    BY <1>2, <1>4
  <2> HIDE DEF A
  <2> QED
    BY <1>2, <2>1, RegisteredKept DEF Sequential
<1>8. entry' \in closed'
  BY <1>1, <1>2, Responsible DEF TokenOps
<1>9. Tracked' /\ Filled'
  BY <1>2, <1>8 DEF Sequential, Tracked, Filled
<1> QED
  BY <1>5, <1>6, <1>7, <1>9 DEF Sequential

LEMMA UnlistSequential ==
  ASSUME Regular, Held, Lone, Sequential, NEW t \in Threads, Unlist(t)
  PROVE  Sequential'
<1> DEFINE h == Head(job[t])
           A == {h}
           M == {}
<1>1. /\ job[t] # <<>> /\ h.op = "unlist"
      /\ UNCHANGED <<sess, reg, track, speaker, rp, room, closed, part, owner, unsub>>
  BY DEF Unlist, At, linkVars, partVars
<1>2. Left2(t, Rest(t)) /\ entry' = None
  BY UnlistRegular, UnlistHeld
<1>3. Shift({h}, M, Rest(t)) /\ \A x \in M : x.op \notin {"edgeClosed", "arrive"}
  BY <1>1, <1>2, SoloLess
<1> HIDE DEF M
<1>4. InForce'
  BY <1>1, <1>3, LinkKept
<1>5. Current'
  <2>1. \A x \in Rest(t) : x.op \notin FillOps
    BY <1>1, RestFacts DEF Regular, Ordered, FillOps
  <2>2. \A x \in Rest(t) : About(x)
    BY <1>3, HeadAbout
  <2>3. Todo' = Rest(t)
    BY <1>3 DEF Shift, M
  <2> QED
    BY <1>1, <2>1, <2>2, <2>3 DEF Current, About
<1>6. Registered'
  <2>1. Shift(A, M, Rest(t)) /\ \A x \in A : x.op \notin {"recompute", "register", "store"}
    BY <1>1, <1>3
  <2> HIDE DEF A
  <2> QED
    BY <1>1, <2>1, RegisteredKept DEF Sequential
<1>7. Tracked' /\ Filled'
  BY <1>1, <1>2 DEF Sequential, Tracked, Filled
<1> QED
  BY <1>4, <1>5, <1>6, <1>7 DEF Sequential

LEMMA RecomputeSequential ==
  ASSUME Regular, Lone, Sequential, NEW t \in Threads, RecomputeRoom(t)
  PROVE  Sequential'
<1> DEFINE h == Head(job[t])
           A == {h}
           M == IF speaker # None /\ rp[speaker] = None THEN {ForTrack("register", speaker)} ELSE {}
<1>1. /\ job[t] # <<>> /\ h.op = "recompute"
      /\ UNCHANGED <<sess, reg, track, speaker, rp, room, entry, closed, fan, part, owner, unsub>>
  BY DEF RecomputeRoom, At, linkVars, pubVars, partVars
<1>2. Left2(t, M \cup Rest(t))
  BY RecomputeRegular
<1>3. /\ \A x \in M : x.op = "register" /\ x.track = speaker
      /\ speaker # None => rp[speaker] # None \/ \E x \in M : x.op = "register"
  <2>1. speaker # None => ForTrack("register", speaker).op = "register" /\ ForTrack("register", speaker).track = speaker
    <3>1. speaker # None => speaker \in Tracks
      BY DEF Regular, Types
    <3> QED
      BY <3>1, StepFacts DEF TrackOps
  <2> QED
    BY <2>1
<1> HIDE DEF M
<1>4. Shift({h}, M, Rest(t))
  BY <1>1, <1>2, SoloAdvance
<1>5. InForce'
  BY <1>1, <1>3, <1>4, LinkKept
<1>6. Current'
  <2>1. \A x \in M : About(x)
    BY <1>3 DEF About, FillOps
  <2> QED
    BY <1>1, <1>4, <2>1, CurrentKept DEF Sequential
<1>7. Registered'
  <2>1. Listed' = Listed /\ M \subseteq Todo'
    BY <1>1, <1>4 DEF Listed, Shift
  <2> QED
    BY <1>1, <1>3, <2>1 DEF Sequential, Registered
<1>8. Tracked' /\ Filled'
  <2>1. Shift(A, M, Rest(t)) /\ \A x \in A : x.op \notin FillOps
    BY <1>1, <1>4 DEF FillOps
  <2> HIDE DEF A
  <2> QED
    BY <1>1, <2>1, PlainKept DEF Sequential
<1> QED
  BY <1>5, <1>6, <1>7, <1>8 DEF Sequential

\* The steps that fill the publisher: none of them touches the sessions or the
\* registration.
LEMMA FillKept ==
  ASSUME Regular, Sequential, NEW t \in Threads, Head(job[t]).op \in FillOps, NEW M,
         Shift({Head(job[t])}, M, Rest(t)), \A x \in M : x.op = "insert" /\ x.pub = entry,
         sess' = sess, reg' = reg, speaker' = speaker, track' = track, rp' = rp,
         room' = room, entry' = entry, part' = part
  PROVE  InForce' /\ Current' /\ Registered'
<1> DEFINE A == {Head(job[t])}
<1>1. /\ Shift(A, M, Rest(t))
      /\ \A x \in A : /\ x.op \notin {"close", "edgeClosed"}
                      /\ x.op \notin {"recompute", "register", "store"}
      /\ \A x \in M : x.op \notin {"edgeClosed", "arrive"}
  BY DEF FillOps
<1>2. \A x \in M : About(x)
  BY DEF About, FillOps
<1> HIDE DEF A
<1>3. InForce'
  BY <1>1, InForceKept DEF Sequential
<1>4. Current'
  BY <1>1, <1>2, CurrentKept DEF Sequential
<1>5. Registered'
  BY <1>1, RegisteredKept DEF Sequential
<1> QED
  BY <1>3, <1>4, <1>5

LEMMA EnsureSequential ==
  ASSUME Regular, Lone, Sequential, NEW t \in Threads, EnsureRemoteDownTrack(t)
  PROVE  Sequential'
<1>1. PICK p \in Pubs, l \in Listeners :
        /\ p = Head(job[t]).pub /\ l = Head(job[t]).listener
        /\ Head(job[t]) = ForListener("ensure", p, l)
        /\ owner' = (IF (p \notin closed /\ RemoteShouldForward(l)) /\ owner[l] # None
                     THEN [owner EXCEPT ![l] = p] ELSE owner)
        /\ Left2(t, (IF (p \notin closed /\ RemoteShouldForward(l)) /\ owner[l] = None
                     THEN {ForListener("insert", p, l)} ELSE {}) \cup Rest(t))
  BY EnsureRegular
<1> DEFINE h == Head(job[t])
           x0 == ForListener("insert", p, l)
           wanted == p \notin closed /\ RemoteShouldForward(l)
           M == IF wanted /\ owner[l] = None THEN {x0} ELSE {}
<1>2. /\ job[t] # <<>> /\ h.op = "ensure"
      /\ UNCHANGED <<sess, reg, track, speaker, rp, room, entry, closed, fan, part, unsub>>
  BY DEF EnsureRemoteDownTrack, At, linkVars, pubVars
<1>3. Left2(t, M \cup Rest(t)) /\ \A x \in M : x.op = "insert" /\ x.pub = p
  BY <1>1, StepFacts
<1>4. wanted /\ owner[l] = None => x0 \in M
  OBVIOUS
<1> HIDE DEF M
<1>5. Shift({h}, M, Rest(t))
  BY <1>2, <1>3, SoloAdvance
<1>6. p = entry
  BY <1>1, <1>2, <1>5, HeadAbout DEF About, FillOps
<1>7. InForce' /\ Current' /\ Registered'
  BY <1>2, <1>3, <1>5, <1>6, FillKept DEF FillOps
<1>8. ForPub("rebuild", p) \in Rest(t) /\ M \cup Rest(t) = Todo' /\ Todo = {h} \cup Rest(t)
  <2>1. ForPub("rebuild", p) \in Rest(t)
    BY <1>1, <1>2, RestFacts DEF Regular, Ordered
  <2> QED
    BY <1>5, <2>1 DEF Shift
<1>9. Filled'
  BY <1>2, <1>6, <1>8 DEF Filled, ForPub
<1>10. Tracked'
  <2>1. \A m \in Listeners : m # l => owner'[m] = owner[m]
    BY <1>1 DEF Regular, Types
  <2>2. part[l] = "out" => owner' = owner
    BY <1>1 DEF RemoteShouldForward, Listed
  <2>3. part[l] = "connected" /\ l \notin unsub /\ p \notin closed => owner'[l] = p \/ x0 \in Todo'
    BY <1>1, <1>4, <1>8 DEF RemoteShouldForward, Listed, Regular, Types
  <2>4. \A m \in Listeners : m # l =>
          /\ ForListener("ensure", p, m) \in Todo => ForListener("ensure", p, m) \in Todo'
          /\ ForListener("insert", p, m) \in Todo => ForListener("insert", p, m) \in Todo'
    <3>1. \A m \in Listeners : /\ ForListener("ensure", p, m).op = "ensure" /\ ForListener("ensure", p, m).listener = m
                               /\ ForListener("insert", p, m).op = "insert"
      BY StepFacts
    <3> HIDE DEF h
    <3>2. h.op = "ensure" /\ h.listener = l
      BY <1>1, <1>2 DEF h
    <3> QED
      BY <1>8, <3>1, <3>2
  <2>5. \A m \in Listeners : part[m] = "out" => owner'[m] = None
    BY <2>1, <2>2 DEF Sequential, Tracked
  <2>6. entry # None /\ entry \notin closed =>
          \A m \in Listeners : part[m] = "connected" /\ m \notin unsub =>
            \/ owner'[m] = entry
            \/ ForListener("ensure", entry, m) \in Todo'
            \/ ForListener("insert", entry, m) \in Todo'
    BY <1>6, <2>1, <2>3, <2>4 DEF Sequential, Tracked
  <2> QED
    BY <1>2, <2>5, <2>6 DEF Tracked, ForListener
<1> QED
  BY <1>7, <1>9, <1>10 DEF Sequential

LEMMA InsertSequential ==
  ASSUME Regular, Lone, Sequential, NEW t \in Threads, InsertDownTrack(t)
  PROVE  Sequential'
<1>1. PICK p \in Pubs, l \in Listeners :
        /\ p = Head(job[t]).pub /\ l = Head(job[t]).listener
        /\ Head(job[t]) = ForListener("insert", p, l)
        /\ owner' = (IF l \in Listed THEN [owner EXCEPT ![l] = p] ELSE owner)
        /\ Left2(t, Rest(t))
  BY InsertRegular
<1> DEFINE h == Head(job[t])
           M == {}
<1>2. /\ job[t] # <<>> /\ h.op = "insert"
      /\ UNCHANGED <<sess, reg, track, speaker, rp, room, entry, closed, fan, part, unsub>>
  BY DEF InsertDownTrack, At, linkVars, pubVars
<1>3. Shift({h}, M, Rest(t)) /\ \A x \in M : x.op = "insert" /\ x.pub = entry
  BY <1>1, <1>2, SoloLess
<1>4. Todo' = Rest(t) /\ Todo = {h} \cup Rest(t)
  BY <1>3 DEF Shift
<1> HIDE DEF M
<1>5. p = entry
  BY <1>1, <1>2, <1>3, HeadAbout DEF About, FillOps
<1>6. InForce' /\ Current' /\ Registered'
  BY <1>2, <1>3, FillKept DEF FillOps
<1>7. ForPub("rebuild", p) \in Rest(t)
  BY <1>1, <1>2, RestFacts DEF Regular, Ordered
<1>8. Filled'
  BY <1>2, <1>4, <1>5, <1>7 DEF Filled, ForPub
<1>9. Tracked'
  <2>1. \A m \in Listeners : m # l => owner'[m] = owner[m]
    BY <1>1 DEF Regular, Types
  <2>2. part[l] = "out" => owner' = owner
    BY <1>1 DEF Listed
  <2>3. part[l] = "connected" => owner'[l] = p
    BY <1>1 DEF Listed, Regular, Types
  <2>4. \A m \in Listeners : m # l =>
          /\ ForListener("ensure", p, m) \in Todo => ForListener("ensure", p, m) \in Todo'
          /\ ForListener("insert", p, m) \in Todo => ForListener("insert", p, m) \in Todo'
    <3>1. \A m \in Listeners : /\ ForListener("ensure", p, m).op = "ensure" /\ ForListener("insert", p, m).listener = m
                               /\ ForListener("insert", p, m).op = "insert"
      BY StepFacts
    <3> HIDE DEF h
    <3>2. h.op = "insert" /\ h.listener = l
      BY <1>1, <1>2 DEF h
    <3> QED
      BY <1>4, <3>1, <3>2
  <2>5. \A m \in Listeners : part[m] = "out" => owner'[m] = None
    BY <2>1, <2>2 DEF Sequential, Tracked
  <2>6. entry # None /\ entry \notin closed =>
          \A m \in Listeners : part[m] = "connected" /\ m \notin unsub =>
            \/ owner'[m] = entry
            \/ ForListener("ensure", entry, m) \in Todo'
            \/ ForListener("insert", entry, m) \in Todo'
    BY <1>5, <2>1, <2>3, <2>4 DEF Sequential, Tracked
  <2> QED
    BY <1>2, <2>5, <2>6 DEF Tracked, ForListener
<1> QED
  BY <1>6, <1>8, <1>9 DEF Sequential

LEMMA RebuildSequential ==
  ASSUME Regular, Lone, Sequential, NEW t \in Threads, RebuildRemoteFanout(t)
  PROVE  Sequential'
<1>1. PICK p \in Pubs :
        /\ p = Head(job[t]).pub
        /\ fan' = (IF p \in closed THEN fan ELSE [fan EXCEPT ![p] = Audience(p)])
        /\ Left2(t, Rest(t))
  BY RebuildRegular
<1> DEFINE h == Head(job[t])
           A == {h}
           M == {}
<1>2. /\ job[t] # <<>> /\ h.op = "rebuild"
      /\ UNCHANGED <<sess, reg, track, speaker, rp, room, entry, closed, part, owner, unsub>>
  BY DEF RebuildRemoteFanout, At, linkVars, partVars
<1>3. Shift({h}, M, Rest(t)) /\ \A x \in M : x.op = "insert" /\ x.pub = entry
  BY <1>1, <1>2, SoloLess
<1> HIDE DEF M
<1>4. p = entry
  BY <1>1, <1>2, <1>3, HeadAbout DEF About, FillOps
<1>5. InForce' /\ Current' /\ Registered'
  BY <1>2, <1>3, FillKept DEF FillOps
<1>6. Audience(p)' = Audience(p)
  BY <1>2 DEF Audience, RemoteShouldForward, Listed
<1>7. Filled'
  <2>1. p \notin closed => fan'[p] = Audience(p)
    BY <1>1 DEF Regular, Types
  <2> QED
    BY <1>2, <1>4, <1>6, <2>1 DEF Filled, Audience, RemoteShouldForward, Listed
<1>8. Tracked'
  <2>1. Shift(A, M, Rest(t)) /\ \A x \in A : x.op \notin {"ensure", "insert"}
    BY <1>2, <1>3
  <2> HIDE DEF A
  <2> QED
    BY <1>2, <2>1, TrackedKept DEF Sequential
<1> QED
  BY <1>5, <1>7, <1>8 DEF Sequential

LEMMA AdvanceAlone ==
  ASSUME Regular, Held, Alone, NEW t \in Threads, Advance(t)
  PROVE  Alone'
<1>1. /\ job[t] # <<>> /\ overlapped' = overlapped /\ \A u \in Threads : u # t => job'[u] = job[u]
  BY AdvanceFrame
<1> SUFFICES ASSUME ~overlapped' PROVE Lone' /\ Sequential'
  BY DEF Alone
<1>2. Lone /\ Sequential
  BY <1>1 DEF Alone
<1>3. Lone'
  <2>1. \A u \in Threads : u # t => job'[u] = <<>>
    BY <1>1, <1>2 DEF Lone, Active
  <2> QED
    BY <2>1 DEF Lone, Active
<1>4. Sequential'
  BY <1>2, CloseSessionSequential, OnEdgeClosedSequential, OnRemoteTrackSequential, ReadLoopSequential,
     EndedSequential, DropSequential, AddSequential, StoreSequential, RecheckSequential,
     ClosePublisherSequential, UnlistSequential, RecomputeSequential, EnsureSequential,
     InsertSequential, RebuildSequential DEF Advance
<1> QED
  BY <1>3, <1>4

-----------------------------------------------------------------------------
(* An operation that begins when no other is under way                     *)

\* It has N to do, and there was nothing.
LEMMA Opening ==
  ASSUME NEW N, Shift({}, N, {})
  PROVE  Todo = {} /\ Todo' = N
BY DEF Shift

LEMMA BegunKept ==
  ASSUME Regular, Sequential, NEW N, Shift({}, N, {})
  PROVE  /\ (\A x \in N : x.op \notin {"edgeClosed", "arrive"}) /\ UNCHANGED <<sess, reg, speaker, track>> => InForce'
         /\ (\A x \in N : About(x)) /\ UNCHANGED <<speaker, entry>> => Current'
         /\ UNCHANGED <<part, room, speaker, rp>> => Registered'
         /\ UNCHANGED <<part, owner, entry, closed, unsub, fan>> => Tracked' /\ Filled'
<1> DEFINE A == {}
<1>1. Shift(A, N, A) /\ \A x : x \notin A
  OBVIOUS
<1> HIDE DEF A
<1>2. (\A x \in N : x.op \notin {"edgeClosed", "arrive"}) /\ UNCHANGED <<sess, reg, speaker, track>> => InForce'
  BY <1>1, InForceKept DEF Sequential
<1>3. (\A x \in N : About(x)) /\ UNCHANGED <<speaker, entry>> => Current'
  BY <1>1, CurrentKept DEF Sequential
<1>4. UNCHANGED <<part, room, speaker, rp>> => Registered'
  BY <1>1, RegisteredKept DEF Sequential
<1>5. UNCHANGED <<part, owner, entry, closed, unsub, fan>> => Tracked' /\ Filled'
  BY <1>1, PlainKept DEF Sequential
<1> QED
  BY <1>2, <1>3, <1>4, <1>5

LEMMA EstablishSequential ==
  ASSUME Regular, Active = {}, Sequential, NEW s \in Sessions, Establish(s)
  PROVE  Sequential'
<1> DEFINE C == IF reg # None THEN {ForSession("close", reg)} ELSE {}
           N == {Recompute} \cup C
<1>1. Begins(<<"edge", s>>, N) /\ <<"edge", s>> \in Threads
  BY EstablishRegular, ThreadFacts DEF Begins
<1>2. /\ sess' = [sess EXCEPT ![s] = "up"] /\ reg' = s
      /\ UNCHANGED <<track, speaker, rp, room, entry, closed, fan, part, owner, unsub>>
  BY DEF Establish, pubVars, partVars
<1>3. Recompute.op = "recompute" /\ \A x \in C : x.op = "close"
  BY StepFacts DEF Regular, Types
<1>4. reg # None => ForSession("close", reg) \in N
  OBVIOUS
<1>5. \A x \in N : About(x) /\ x.op \in {"recompute", "close"}
  <2> HIDE DEF C
  <2> QED
    BY <1>3 DEF About, FillOps
<1> HIDE DEF N
<1>6. Shift({}, N, {}) /\ Todo = {} /\ Todo' = N
  <2>1. Shift({}, N, {})
    BY <1>1, SoloBegin
  <2> QED
    BY <2>1, Opening
<1>7. InForce'
  <2>1. \A z \in Sessions : sess[z] = "up" => reg = z
    BY <1>6 DEF Sequential, InForce
  <2>2. speaker # None => Origin[speaker] \in Sessions /\ sess[Origin[speaker]] = "up"
    BY <1>6, OriginAssumption DEF Sequential, InForce, Regular, Types
  <2>3. /\ \A z \in Sessions : ForSession("edgeClosed", z) \notin Todo'
        /\ \A m \in Tracks : ForTrack("arrive", m) \notin Todo'
    <3>1. /\ \A z \in Sessions : ForSession("edgeClosed", z).op = "edgeClosed"
          /\ \A m \in Tracks : ForTrack("arrive", m).op = "arrive"
      BY StepFacts DEF TrackOps
    <3> QED
      BY <1>5, <1>6, <3>1
  <2>4. sess'[s] = "up" /\ \A z \in Sessions : z # s => sess'[z] = sess[z]
    BY <1>2 DEF Regular, Types
  <2>5. \A z \in Sessions : sess'[z] = "up" => z = s \/ ForSession("close", z) \in Todo'
    BY <1>4, <1>6, <2>1, <2>4, NameAssumption
  <2>6. \A m \in Tracks : track[m] # "drained"
    BY DEF Sequential, InForce
  <2> QED
    BY <1>2, <2>2, <2>3, <2>4, <2>5, <2>6 DEF InForce, ForSession
<1>8. Current' /\ Registered' /\ Tracked' /\ Filled'
  BY <1>2, <1>5, <1>6, BegunKept
<1> QED
  BY <1>7, <1>8 DEF Sequential

LEMMA BreaksSequential ==
  ASSUME Regular, Active = {}, Sequential, NEW s \in Sessions, Breaks(s)
  PROVE  Sequential'
<1> DEFINE N == {ForSession("close", s)}
<1>1. Begins(<<"edge", s>>, N) /\ <<"edge", s>> \in Threads
  BY BreaksRegular, ThreadFacts DEF Begins
<1>2. UNCHANGED <<sess, reg, track, speaker, rp, room, entry, closed, fan, part, owner, unsub>>
  BY DEF Breaks, linkVars, pubVars, partVars
<1>3. \A x \in N : About(x) /\ x.op \notin {"edgeClosed", "arrive"}
  BY StepFacts DEF About, FillOps
<1> HIDE DEF N
<1>4. Shift({}, N, {})
  BY <1>1, SoloBegin
<1> QED
  BY <1>2, <1>3, <1>4, BegunKept DEF Sequential

LEMMA OnTrackSequential ==
  ASSUME Regular, Active = {}, Sequential, NEW k \in Tracks, OnTrack(k)
  PROVE  Sequential'
<1> DEFINE N == {ForTrack("arrive", k)}
<1>1. Begins(<<"track", k>>, N) /\ <<"track", k>> \in Threads
  BY OnTrackRegular, ThreadFacts DEF Begins
<1>2. /\ track' = [track EXCEPT ![k] = "called"] /\ sess[Origin[k]] = "up"
      /\ UNCHANGED <<sess, reg, speaker, rp, room, entry, closed, fan, part, owner, unsub>>
  BY DEF OnTrack, pubVars, partVars
<1>3. \A x \in N : About(x) /\ x.op = "arrive" /\ x.track = k
  BY StepFacts DEF About, FillOps, TrackOps
<1> HIDE DEF N
<1>4. Shift({}, N, {}) /\ Todo = {} /\ Todo' = N
  <2>1. Shift({}, N, {})
    BY <1>1, SoloBegin
  <2> QED
    BY <2>1, Opening
<1>5. InForce'
  <2>1. /\ \A z \in Sessions : ForSession("edgeClosed", z) \notin Todo'
        /\ \A m \in Tracks : ForTrack("arrive", m) \in Todo' => m = k
    <3>1. /\ \A z \in Sessions : ForSession("edgeClosed", z).op = "edgeClosed"
          /\ \A m \in Tracks : ForTrack("arrive", m).op = "arrive" /\ ForTrack("arrive", m).track = m
      BY StepFacts DEF TrackOps
    <3> QED
      BY <1>3, <1>4, <3>1
  <2>2. \A m \in Tracks : track'[m] # "drained"
    BY <1>2 DEF Sequential, InForce, Regular, Types
  <2> QED
    BY <1>2, <1>4, <2>1, <2>2 DEF Sequential, InForce
<1>6. Current' /\ Registered' /\ Tracked' /\ Filled'
  BY <1>2, <1>3, <1>4, BegunKept
<1> QED
  BY <1>5, <1>6 DEF Sequential

LEMMA LoopReturnsSequential ==
  ASSUME Regular, Active = {}, Sequential, NEW k \in Tracks, LoopReturns(k)
  PROVE  Sequential'
<1> DEFINE N == {ForTrack("ended", k)}
<1>1. Begins(<<"track", k>>, N) /\ <<"track", k>> \in Threads
  BY LoopReturnsRegular, ThreadFacts DEF Begins
<1>2. /\ track' = [track EXCEPT ![k] = "over"]
      /\ UNCHANGED <<sess, reg, speaker, rp, room, entry, closed, fan, part, owner, unsub>>
  BY DEF LoopReturns, pubVars, partVars
<1>3. \A x \in N : About(x) /\ x.op = "ended"
  BY StepFacts DEF About, FillOps, TrackOps
<1> HIDE DEF N
<1>4. Shift({}, N, {}) /\ Todo = {} /\ Todo' = N
  <2>1. Shift({}, N, {})
    BY <1>1, SoloBegin
  <2> QED
    BY <2>1, Opening
<1>5. InForce'
  <2>1. /\ \A z \in Sessions : ForSession("edgeClosed", z) \notin Todo'
        /\ \A m \in Tracks : ForTrack("arrive", m) \notin Todo'
    <3>1. /\ \A z \in Sessions : ForSession("edgeClosed", z).op = "edgeClosed"
          /\ \A m \in Tracks : ForTrack("arrive", m).op = "arrive"
      BY StepFacts DEF TrackOps
    <3> QED
      BY <1>3, <1>4, <3>1
  <2>2. \A m \in Tracks : track'[m] # "drained"
    BY <1>2 DEF Sequential, InForce, Regular, Types
  <2> QED
    BY <1>2, <1>4, <2>1, <2>2 DEF Sequential, InForce
<1>6. Current' /\ Registered' /\ Tracked' /\ Filled'
  BY <1>2, <1>3, <1>4, BegunKept
<1> QED
  BY <1>5, <1>6 DEF Sequential

LEMMA DemandSequential ==
  ASSUME Regular, Active = {}, Sequential, Demand
  PROVE  Sequential'
<1> DEFINE N == {Recompute}
<1>1. Begins(Hook, N) /\ Hook \in Threads
  BY DemandRegular, ThreadFacts DEF Begins
<1>2. UNCHANGED <<sess, reg, track, speaker, rp, room, entry, closed, fan, part, owner, unsub>>
  BY DEF Demand, linkVars, pubVars, partVars
<1>3. \A x \in N : About(x) /\ x.op \notin {"edgeClosed", "arrive"}
  BY StepFacts DEF About, FillOps
<1> HIDE DEF N
<1>4. Shift({}, N, {})
  BY <1>1, SoloBegin
<1> QED
  BY <1>2, <1>3, <1>4, BegunKept DEF Sequential

LEMMA JoinSequential ==
  ASSUME Regular, Active = {}, Sequential, NEW l \in Listeners, Join(l)
  PROVE  Sequential'
<1> DEFINE N == {Recompute}
<1>1. Begins(<<"join", l>>, N) /\ <<"join", l>> \in Threads
  BY JoinRegular, ThreadFacts DEF Begins
<1>2. /\ room /\ part[l] = "out" /\ part' = [part EXCEPT ![l] = "in"]
      /\ UNCHANGED <<sess, reg, track, speaker, rp, room, entry, closed, fan, owner, unsub>>
  BY DEF Join, linkVars, pubVars
<1>3. Recompute \in N /\ \A x \in N : About(x) /\ x.op \notin {"edgeClosed", "arrive"}
  BY StepFacts DEF About, FillOps
<1> HIDE DEF N
<1>4. Shift({}, N, {}) /\ Todo = {} /\ Todo' = N
  <2>1. Shift({}, N, {})
    BY <1>1, SoloBegin
  <2> QED
    BY <2>1, Opening
<1>5. InForce' /\ Current'
  BY <1>2, <1>3, <1>4, BegunKept
<1>6. Registered'
  BY <1>2, <1>3, <1>4 DEF Registered, Recompute, Step
<1>7. part'[l] = "in" /\ \A m \in Listeners : m # l => part'[m] = part[m]
  BY <1>2 DEF Regular, Types
<1>8. Tracked'
  BY <1>2, <1>4, <1>7 DEF Sequential, Tracked
<1>9. Filled'
  <2>1. owner[l] = None
    BY <1>2 DEF Sequential, Tracked
  <2>2. entry # None => Audience(entry)' = Audience(entry)
    BY <1>2, <1>7, <2>1 DEF Audience, RemoteShouldForward, Listed
  <2>3. entry # None /\ entry \notin closed => fan[entry] = Audience(entry)
    BY <1>4 DEF Sequential, Filled
  <2> QED
    BY <1>2, <2>2, <2>3 DEF Filled
<1> QED
  BY <1>5, <1>6, <1>8, <1>9 DEF Sequential

\* The steps for the publisher that is there are about it.
LEMMA FillAbout ==
  ASSUME Regular, NEW l \in Listeners
  PROVE  /\ \A x \in FillFor(l) \cup FillOne : About(x) /\ x.op \in FillOps
         /\ entry # None => /\ ForListener("ensure", entry, l) \in FillFor(l)
                            /\ ForPub("rebuild", entry) \in FillFor(l)
                            /\ ForPub("rebuild", entry) \in FillOne
<1>1. entry # None => entry \in Pubs
  BY DEF Regular, Types
<1>2. \A x \in FillFor(l) \cup FillOne : x.op \in {"ensure", "rebuild"} /\ x.pub = entry
  BY <1>1, StepFacts DEF FillFor, FillOne, PubOps
<1> QED
  BY <1>2 DEF FillFor, FillOne, About, FillOps

LEMMA ConnectedSequential ==
  ASSUME Regular, Active = {}, Sequential, NEW l \in Listeners, Connected(l)
  PROVE  Sequential'
<1> DEFINE N == FillFor(l)
<1>1. Begins(<<"connect", l>>, N) /\ <<"connect", l>> \in Threads
  BY ConnectedRegular, ThreadFacts DEF Begins
<1>2. /\ part[l] = "in" /\ part' = [part EXCEPT ![l] = "connected"]
      /\ UNCHANGED <<sess, reg, track, speaker, rp, room, entry, closed, fan, owner, unsub>>
  BY DEF Connected, linkVars, pubVars
<1>3. /\ \A x \in N : About(x) /\ x.op \notin {"edgeClosed", "arrive"}
      /\ entry # None => ForListener("ensure", entry, l) \in N /\ ForPub("rebuild", entry) \in N
  BY FillAbout DEF FillOps
<1> HIDE DEF N
<1>4. Shift({}, N, {}) /\ Todo = {} /\ Todo' = N
  <2>1. Shift({}, N, {})
    BY <1>1, SoloBegin
  <2> QED
    BY <2>1, Opening
<1>5. InForce' /\ Current'
  BY <1>2, <1>3, <1>4, BegunKept
<1>6. part'[l] = "connected" /\ \A m \in Listeners : m # l => part'[m] = part[m]
  BY <1>2 DEF Regular, Types
<1>7. Registered'
  <2>1. Listed' = Listed
    BY <1>2, <1>6 DEF Listed
  <2>2. speaker # None /\ Listed # {} => rp[speaker] # None
    BY <1>4 DEF Sequential, Registered
  <2> QED
    BY <1>2, <2>1, <2>2 DEF Sequential, Registered
<1>8. Tracked'
  <2>1. \A m \in Listeners : part'[m] = "out" => owner[m] = None
    BY <1>6 DEF Sequential, Tracked
  <2>2. entry # None /\ entry \notin closed =>
          \A m \in Listeners : part'[m] = "connected" /\ m \notin unsub =>
            owner[m] = entry \/ ForListener("ensure", entry, m) \in Todo'
    BY <1>3, <1>4, <1>6 DEF Sequential, Tracked
  <2> QED
    BY <1>2, <2>1, <2>2 DEF Tracked, ForListener
<1>9. Filled'
  BY <1>2, <1>3, <1>4 DEF Filled, ForPub
<1> QED
  BY <1>5, <1>7, <1>8, <1>9 DEF Sequential

LEMMA LeaveSequential ==
  ASSUME Regular, Active = {}, Sequential, NEW l \in Listeners, Leave(l)
  PROVE  Sequential'
<1> DEFINE N == FillOne \cup {Recompute}
<1>1. Begins(<<"join", l>>, N) /\ <<"join", l>> \in Threads
  BY LeaveRegular, ThreadFacts DEF Begins
<1>2. /\ part' = [part EXCEPT ![l] = "gone"] /\ owner' = [owner EXCEPT ![l] = None]
      /\ UNCHANGED <<sess, reg, track, speaker, rp, room, entry, closed, fan, unsub>>
  BY DEF Leave, linkVars, pubVars
<1>3. /\ \A x \in N : About(x) /\ x.op \notin {"edgeClosed", "arrive"}
      /\ Recompute \in N
      /\ entry # None => ForPub("rebuild", entry) \in N
  <2>1. About(Recompute) /\ Recompute.op \notin {"edgeClosed", "arrive"}
    BY StepFacts DEF About, FillOps
  <2>2. /\ \A x \in FillOne : About(x) /\ x.op \notin {"edgeClosed", "arrive"}
        /\ entry # None => ForPub("rebuild", entry) \in FillOne
    BY FillAbout DEF FillOps
  <2> QED
    BY <2>1, <2>2
<1> HIDE DEF N
<1>4. Shift({}, N, {}) /\ Todo = {} /\ Todo' = N
  <2>1. Shift({}, N, {})
    BY <1>1, SoloBegin
  <2> QED
    BY <2>1, Opening
<1>5. InForce' /\ Current'
  BY <1>2, <1>3, <1>4, BegunKept
<1>6. /\ part'[l] = "gone" /\ owner'[l] = None
      /\ \A m \in Listeners : m # l => part'[m] = part[m] /\ owner'[m] = owner[m]
  BY <1>2 DEF Regular, Types
<1>7. Registered'
  <2>1. Listed' \subseteq Listed
    BY <1>6 DEF Listed
  <2> QED
    BY <1>2, <1>3, <1>4, <2>1 DEF Sequential, Registered, Recompute, Step
<1>8. Tracked'
  <2>1. \A m \in Listeners : part'[m] = "out" => owner'[m] = None
    BY <1>6 DEF Sequential, Tracked
  <2>2. entry # None /\ entry \notin closed =>
          \A m \in Listeners : part'[m] = "connected" /\ m \notin unsub => owner'[m] = entry
    BY <1>4, <1>6 DEF Sequential, Tracked
  <2> QED
    BY <1>2, <2>1, <2>2 DEF Tracked
<1>9. Filled'
  BY <1>2, <1>3, <1>4 DEF Filled, ForPub
<1> QED
  BY <1>5, <1>7, <1>8, <1>9 DEF Sequential

LEMMA SubscriptionSequential ==
  ASSUME Regular, Active = {}, Sequential, NEW l \in Listeners, NEW want \in BOOLEAN,
         SetSubscription(l, want)
  PROVE  Sequential'
<1> DEFINE F == IF want THEN FillFor(l) ELSE FillOne
           N == F \cup {Recompute}
<1>1. Begins(<<"loop", l>>, N) /\ <<"loop", l>> \in Threads
  BY SubscriptionRegular, ThreadFacts DEF Begins
<1>2. /\ unsub' = (IF want THEN unsub \ {l} ELSE unsub \cup {l})
      /\ UNCHANGED <<sess, reg, track, speaker, rp, room, entry, closed, fan, part, owner>>
  BY DEF SetSubscription, linkVars, pubVars
<1>3. /\ \A x \in N : About(x) /\ x.op \notin {"edgeClosed", "arrive"}
      /\ entry # None => ForPub("rebuild", entry) \in N
      /\ entry # None /\ want => ForListener("ensure", entry, l) \in N
  <2>1. About(Recompute) /\ Recompute.op \notin {"edgeClosed", "arrive"}
    BY StepFacts DEF About, FillOps
  <2>2. /\ \A x \in F : About(x) /\ x.op \notin {"edgeClosed", "arrive"}
        /\ entry # None => ForPub("rebuild", entry) \in F
        /\ entry # None /\ want => ForListener("ensure", entry, l) \in F
    BY FillAbout DEF FillOps
  <2> HIDE DEF F
  <2> QED
    BY <2>1, <2>2
<1> HIDE DEF N
<1>4. Shift({}, N, {}) /\ Todo = {} /\ Todo' = N
  <2>1. Shift({}, N, {})
    BY <1>1, SoloBegin
  <2> QED
    BY <2>1, Opening
<1>5. InForce' /\ Current' /\ Registered'
  BY <1>2, <1>3, <1>4, BegunKept
<1>6. Tracked'
  <2>1. entry # None /\ entry \notin closed =>
          \A m \in Listeners : part[m] = "connected" /\ m \notin unsub' =>
            owner[m] = entry \/ ForListener("ensure", entry, m) \in Todo'
    BY <1>2, <1>3, <1>4 DEF Sequential, Tracked
  <2> QED
    BY <1>2, <2>1 DEF Sequential, Tracked, ForListener
<1>7. Filled'
  BY <1>2, <1>3, <1>4 DEF Filled, ForPub
<1> QED
  BY <1>5, <1>6, <1>7 DEF Sequential

LEMMA OtherAlone ==
  ASSUME Regular, Alone, Other
  PROVE  Alone'
<1>0. PICK t \in Threads : \E a : Start(t, a)
  BY OtherBegins
<1>1. PICK a : Start(t, a)
  BY <1>0
<1> SUFFICES ASSUME ~overlapped' PROVE Lone' /\ Sequential'
  BY DEF Alone
<1>2. ~overlapped /\ Active = {} /\ \A u \in Threads : u # t => job'[u] = job[u]
  BY <1>1 DEF Start, Regular, Types
<1>3. Lone'
  <2>1. \A u \in Threads : u # t => job'[u] = <<>>
    BY <1>2 DEF Active
  <2> QED
    BY <2>1 DEF Lone, Active
<1>4. Sequential
  BY <1>2 DEF Alone
<1>5. Sequential'
  BY <1>2, <1>4, EstablishSequential, BreaksSequential, OnTrackSequential, LoopReturnsSequential,
     DemandSequential, JoinSequential, ConnectedSequential, LeaveSequential,
     SubscriptionSequential DEF Other
<1> QED
  BY <1>3, <1>5

LEMMA StepAlone ==
  ASSUME Regular, Held, Alone, [Next]_vars
  PROVE  Alone'
<1>1. CASE EnsureRoom
  <2>1. /\ room' /\ UNCHANGED <<sess, reg, track, speaker, rp, entry, closed, fan, part, owner, unsub, job, overlapped>>
    BY <1>1 DEF EnsureRoom, linkVars, partVars
  <2>2. Todo' = Todo
    BY <1>1, EnsureRoomRegular DEF Todo
  <2> QED
    BY <2>1, <2>2 DEF Alone, Lone, Active, Sequential, InForce, Current, About, Registered, Tracked, Filled,
       Audience, RemoteShouldForward, Listed
<1>2. CASE UNCHANGED vars
  <2>1. UNCHANGED <<sess, reg, track, speaker, rp, room, entry, closed, fan, part, owner, unsub, job, overlapped>>
    BY <1>2 DEF vars, linkVars, pubVars, partVars
  <2>2. Todo' = Todo
    BY <2>1 DEF Todo, Left, Members
  <2> QED
    BY <2>1, <2>2 DEF Alone, Lone, Active, Sequential, InForce, Current, About, Registered, Tracked, Filled,
       Audience, RemoteShouldForward, Listed
<1>3. CASE Other
  BY <1>3, OtherAlone
<1>4. CASE \E t \in Threads : Advance(t)
  BY <1>4, AdvanceAlone
<1> QED
  BY <1>1, <1>2, <1>3, <1>4 DEF Next, Other

-----------------------------------------------------------------------------
(* The theorems                                                            *)

LEMMA InvInit ==
  ASSUME Init
  PROVE  IInv
<1>1. job = [t \in Threads |-> <<>>] /\ \A t \in Threads : job[t] = <<>> /\ job[t] \in Seq(Steps)
  BY EmptySeq DEF Init
<1>2. \A t \in Threads : Left(t) = {}
  BY <1>1, IdleLeft
<1>3. Todo = {}
  BY <1>2 DEF Todo
<1>4. Types
  BY <1>1 DEF Init, Types
<1>5. Regular
  BY <1>1, <1>2, <1>4, TidyShort DEF Regular, Ordered, Placed
<1>6. \A k \in Tracks : ~Keeps(k)
  BY DEF Init, Keeps
<1>7. Held
  BY <1>2, <1>6 DEF Init, Held, Meant, Single, Answered, Due, Holds, Tokens
<1>8. Healing
  BY DEF Init, Healing
<1>9. Lone
  BY <1>1 DEF Lone, Active
<1>10. InForce /\ Current
  BY <1>3, NameAssumption DEF Init, InForce, Current
<1>11. Registered /\ Tracked /\ Filled
  BY DEF Init, Registered, Tracked, Filled, Listed
<1> QED
  BY <1>5, <1>7, <1>8, <1>9, <1>10, <1>11 DEF IInv, Alone, Sequential

\* The inductive invariant: the order of what each goroutine has left to do, one
\* holder for the publisher that the room lists, the stages of a recomputation
\* by itself, and, as long as nothing overlapped, what is pending or done.
THEOREM Invariant == Spec => []IInv
<1>1. Init => IInv
  BY InvInit
<1>2. IInv /\ [Next]_vars => IInv'
  BY StepHeld, StepHealing, StepAlone DEF IInv
<1> QED
  BY <1>1, <1>2, PTL DEF Spec

\* However the goroutines interleave: with nothing under way the publisher that
\* the room lists (AddRemotePublisher) is open and the one of the speaker in
\* force, and no replaced or ended speaker has kept one (registerRemotePub looks
\* at the speaker again after it stored the publisher).
THEOREM StaleNever == Spec => []NoStaleRegistration
<1>1. IInv => NoStaleRegistration
  <2> SUFFICES ASSUME IInv, Quiet PROVE NoStaleRegistration
    BY DEF NoStaleRegistration
  <2>1. \A t \in Threads : Left(t) = {}
    BY IdleLeft DEF Quiet, Active
  <2>2. (\A t \in Threads : ~Holds(t)) /\ \A k \in Tracks : ~Pending(k)
    BY <2>1 DEF Holds, Tokens, Pending, Todo
  <2>3. \A k \in Tracks : Keeps(k) => k = speaker /\ rp[k] = entry /\ entry \notin closed
    BY <2>2 DEF IInv, Held, Due, Meant
  <2>4. entry # None => \E k \in Tracks : Keeps(k)
    BY <2>2 DEF IInv, Held, Answered
  <2> QED
    BY <2>3, <2>4, NameAssumption DEF NoStaleRegistration, Keeps
<1> QED
  BY <1>1, Invariant, PTL

\* "recompute will try the local registration again": whatever was refused or
\* lost before, one recomputation with nothing beside it registers the speaker
\* in force.
THEOREM HealedByRecompute == Spec => []RecomputeHeals
<1>1. IInv => RecomputeHeals
  <2> SUFFICES ASSUME IInv, Quiet, recomputed, room, speaker # None
               PROVE  entry # None /\ rp[speaker] = entry
    BY DEF RecomputeHeals
  <2>1. job[Hook] = <<>> /\ Left(Hook) = {}
    BY ThreadFacts, IdleLeft DEF Quiet, Active
  <2>2. Recompute \in Steps /\ ForTrack("register", speaker) \in Steps /\ speaker \in Tracks
    BY StepFacts DEF IInv, Regular, Types, TrackOps
  <2>3. job[Hook] # <<Recompute>> /\ job[Hook] # <<ForTrack("register", speaker)>>
    BY <2>1
  <2>4. Keeps(speaker)
    BY <2>1, <2>3 DEF IInv, Healing, Retries, Keeps
  <2> QED
    BY <2>2, <2>4 DEF IInv, Held, Meant, Keeps
<1> QED
  BY <1>1, Invariant, PTL

\* Operations that come one after the other, in any number: no arrival is taken
\* for a loop (classifyRemoteTrack), and the speaker in force is heard by exactly
\* the connected listeners that have not unsubscribed (rebuildRemoteFanout).
THEOREM HeardExactly == Spec => []HeardAlone
<1>1. IInv => HeardAlone
  <2> SUFFICES ASSUME IInv, Quiet, ~overlapped PROVE HeardAlone
    BY DEF HeardAlone
  <2>1. Todo = {}
    BY IdleLeft DEF Quiet, Active, Todo
  <2>2. Sequential
    BY DEF IInv, Alone
  <2>3. \A k \in Tracks : track[k] # "drained"
    BY <2>2 DEF Sequential, InForce
  <2>4. ASSUME speaker # None, NEW l \in Listeners, part[l] = "connected"
        PROVE  rp[speaker] # None /\ (l \in WriteRTP(rp[speaker]) <=> l \notin unsub)
    <3>1. l \in Listed
      BY <2>4 DEF Listed
    <3>2. rp[speaker] # None
      BY <2>1, <2>2, <2>4, <3>1 DEF Sequential, Registered
    <3>3. rp[speaker] = entry /\ entry \notin closed /\ entry # None
      <4>1. speaker \in Tracks
        BY <2>4 DEF IInv, Regular, Types
      <4> QED
        BY <3>2, <4>1 DEF IInv, Held, Meant, Keeps
    <3>4. fan[entry] = Audience(entry)
      BY <2>1, <2>2, <3>3 DEF Sequential, Filled
    <3>5. l \notin unsub => owner[l] = entry
      BY <2>1, <2>2, <2>4, <3>3 DEF Sequential, Tracked
    <3> QED
      BY <3>1, <3>2, <3>3, <3>4, <3>5 DEF WriteRTP, Audience, RemoteShouldForward
  <2> QED
    BY <2>3, <2>4 DEF HeardAlone
<1> QED
  BY <1>1, Invariant, PTL
=============================================================================
