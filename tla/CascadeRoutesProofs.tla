------------------------- MODULE CascadeRoutesProofs -------------------------
(* Demand and tracks along a line of nodes.  First the algebra of demand,  *)
(* for every set of users: what a node asks of its neighbours is exactly   *)
(* what somebody behind it wants.  Then the way of the tracks, for a line  *)
(* of any length: until a session that tracks came from is superseded,     *)
(* they only ever travel away from their speaker's home.  Last, that no    *)
(* change is lost on an edge, whichever of its ends finds out first that   *)
(* the connection broke, and that therefore demand and tracks agree end to *)
(* end once everything has arrived.                                        *)
EXTENDS CascadeRoutes, SequenceTheorems, WellFoundedInduction, TLAPS

-----------------------------------------------------------------------------
(* Demand                                                                  *)

\* union of wantset.go, in its four cases: a user is wanted by the union if and
\* only if one of the two wants it, however the sets are represented.
THEOREM UnionExact ==
  ASSUME NEW a, NEW b, NEW u
  PROVE  Wants(Union(a, b), u) <=> Wants(a, u) \/ Wants(b, u)
<1>1. CASE a.all /\ b.all
  BY <1>1 DEF Union, Wants, WantAllExcept
<1>2. CASE a.all /\ ~b.all
  BY <1>2 DEF Union, Wants, WantAllExcept
<1>3. CASE ~a.all /\ b.all
  BY <1>3 DEF Union, Wants, WantAllExcept
<1>4. CASE ~a.all /\ ~b.all
  BY <1>4 DEF Union, Wants, WantOnly
<1> QED
  BY <1>1, <1>2, <1>3, <1>4

\* The union of two demands over the users of a room is again one.
THEOREM UnionClosed ==
  ASSUME NEW uids, NEW a \in WantSet(uids), NEW b \in WantSet(uids)
  PROVE  Union(a, b) \in WantSet(uids)
<1>1. a.all \in BOOLEAN /\ a.except \subseteq uids /\ a.include \subseteq uids
  BY DEF WantSet
<1>2. b.all \in BOOLEAN /\ b.except \subseteq uids /\ b.include \subseteq uids
  BY DEF WantSet
<1>3. ASSUME NEW S, S \subseteq uids
      PROVE  WantAllExcept(S) \in WantSet(uids) /\ WantOnly(S) \in WantSet(uids)
  BY <1>3 DEF WantAllExcept, WantOnly, WantSet
<1>4. /\ a.except \cap b.except \subseteq uids /\ a.include \cup b.include \subseteq uids
      /\ a.except \ b.include \subseteq uids /\ b.except \ a.include \subseteq uids
  BY <1>1, <1>2
<1> QED
  BY <1>3, <1>4 DEF Union

\* toWire and wantFromWire: the neighbour wants what the sender wants.
THEOREM WireExact ==
  ASSUME NEW w, NEW u
  PROVE  Wants(FromWire(ToWire(w)), u) <=> Wants(w, u)
<1>1. CASE w.all
  BY <1>1 DEF FromWire, ToWire, Wants, WantAllExcept
<1>2. CASE ~w.all
  BY <1>2 DEF FromWire, ToWire, Wants, WantOnly
<1> QED
  BY <1>1, <1>2

\* recompute does not send a want that equal() finds unchanged: nothing is
\* lost by that.
THEOREM EqualIsEnough ==
  ASSUME NEW a, NEW b, Equal(a, b), NEW u
  PROVE  Wants(a, u) <=> Wants(b, u)
BY DEF Equal, Wants

\* localDemand: no listener's wish is left out, and of the users that somebody
\* has unsubscribed only those are asked for that somebody still wants.
THEOREM DemandCovers ==
  ASSUME NEW listeners, NEW u, \E l \in listeners : l.uid # u /\ u \notin l.unsub
  PROVE  Wants(LocalDemand(listeners), u)
BY DEF LocalDemand, Wants, WantAllExcept, WantNone

THEOREM DemandSpares ==
  ASSUME NEW listeners, NEW l \in listeners, NEW u \in l.unsub,
         Wants(LocalDemand(listeners), u)
  PROVE  \E k \in listeners : k.uid # u /\ u \notin k.unsub
BY DEF LocalDemand, Wants, WantAllExcept, WantNone

-----------------------------------------------------------------------------
(* The way of the tracks                                                   *)

\* The hop leads away from the home of the speaker.
Away(e, k) == IF e[1] < e[2] THEN Home[k] <= e[1] ELSE e[1] <= Home[k]
Outward(e) == {k \in Speakers : Away(e, k)}

\* Only at its home is a speaker local, elsewhere its track comes from a
\* neighbour.
Placed ==
  /\ local \in [Nodes -> SUBSET Speakers]
  /\ \A n \in Nodes : \A k \in local[n] : Home[k] = n
  /\ remote \in [Nodes -> [Speakers -> Int]]
  /\ \A n \in Nodes, k \in Speakers :
       remote[n][k] # 0 => \E m \in Neighbours(n) : remote[n][k] \in {m, -m}

IsSeq(s) == \E S : s \in Seq(S)

Channels ==
  /\ \A f \in {link, out, chan, recv} : DOMAIN f = Ends
  /\ \A e \in Ends : IsSeq(chan[e])
  /\ faults \in Nat

\* What a node has comes from the side of the speaker's home.
FromHome ==
  \A n \in Nodes, k \in Speakers : remote[n][k] # 0 =>
    <<remote[n][k], n>> \in Ends /\ Away(<<remote[n][k], n>>, k)

\* What an edge carries, has on offer and has delivered is outward bound.
Bound(e, s) ==
  IsSeq(s) /\ \A i \in 1..Len(s) : s[i].t = "offer" => s[i].body \subseteq Outward(e)

OutwardOnly ==
  /\ \A e \in Ends : out[e] \subseteq Outward(e)
  /\ \A e \in Ends : Bound(e, chan[e])
  /\ \A e \in Ends : recv[e] \subseteq Outward(e)

Straight == FromHome /\ OutwardOnly /\ ~dropped

IInv == Placed /\ Channels /\ (~overlapped => Straight)

LEMMA EndFacts ==
  /\ \A e \in Ends : /\ e[1] \in Nodes /\ e[2] \in Nodes /\ e = <<e[1], e[2]>>
                     /\ e[1] - e[2] \in {-1, 1} /\ Back(e) \in Ends /\ Back(e) # e
                     /\ Back(e)[1] = e[2] /\ Back(e)[2] = e[1]
  /\ \A k \in Speakers : Home[k] \in Nodes
  /\ Nodes \subseteq Int
BY PlaceAssumption DEF Ends, Back, Nodes, Speakers, Range

\* A track that goes on leads further away, and a node has one way home.
LEMMA OneWay ==
  ASSUME NEW n \in Nodes, NEW m \in Nodes, <<n, m>> \in Ends, NEW k \in Speakers
  PROVE  /\ Home[k] = n => Away(<<n, m>>, k) /\ ~Away(<<m, n>>, k)
         /\ \A p \in Int : <<p, n>> \in Ends /\ Away(<<p, n>>, k) =>
              /\ p # m => Away(<<n, m>>, k) /\ ~Away(<<m, n>>, k)
<1>1. n \in Int /\ m \in Int /\ Home[k] \in Int /\ n - m \in {-1, 1}
  BY EndFacts DEF Ends
<1>2. Home[k] = n => Away(<<n, m>>, k) /\ ~Away(<<m, n>>, k)
  BY <1>1 DEF Away
<1>3. ASSUME NEW p \in Int, <<p, n>> \in Ends, Away(<<p, n>>, k), p # m
      PROVE  Away(<<n, m>>, k) /\ ~Away(<<m, n>>, k)
  <2>1. p - n \in {-1, 1}
    BY <1>3 DEF Ends
  <2> QED
    BY <1>1, <1>3, <2>1 DEF Away
<1> QED
  BY <1>2, <1>3

\* recompute puts nothing on an edge that does not belong there.
LEMMA DesiredIsOutward ==
  ASSUME Placed', FromHome', NEW e \in Ends, NEW pw, NEW sn
  PROVE  Desired(e[1], e[2], local', remote', right', pw, sn) \subseteq Outward(e)
<1> SUFFICES ASSUME NEW k \in Speakers, k \in local'[e[1]] \/ remote'[e[1]][k] \notin {0, e[2]}
             PROVE  Away(e, k)
  BY DEF Desired, Outward
<1>1. e[1] \in Nodes /\ e[2] \in Nodes /\ e = <<e[1], e[2]>> /\ <<e[1], e[2]>> \in Ends
  BY EndFacts
<1>2. CASE k \in local'[e[1]]
  <2>1. Home[k] = e[1]
    BY <1>1, <1>2 DEF Placed
  <2>2. Away(<<e[1], e[2]>>, k)
    BY <1>1, <2>1, OneWay
  <2> QED
    BY <1>1, <2>2
<1>3. CASE remote'[e[1]][k] \notin {0, e[2]}
  <2> DEFINE p == remote'[e[1]][k]
  <2>1. p \in Int /\ <<p, e[1]>> \in Ends /\ Away(<<p, e[1]>>, k)
    BY <1>1, <1>3 DEF Placed, FromHome, Away
  <2>2. p # e[2]
    BY <1>3
  <2> HIDE DEF p
  <2>3. Away(<<e[1], e[2]>>, k)
    BY <1>1, <2>1, <2>2, OneWay
  <2> QED
    BY <1>1, <2>3
<1> QED
  BY <1>2, <1>3

\* What it leaves of the out-tracks: at most the desired ones.
LEMMA RecomputeOut ==
  ASSUME NEW ns, NEW pw, NEW sn, NEW reset, RecomputeAt(ns, pw, sn, reset)
  PROVE  /\ DOMAIN out' = Ends
         /\ \A e \in Ends :
              /\ e[1] \in ns => out'[e] \subseteq Desired(e[1], e[2], local', remote', right', pw, sn)
              /\ e[1] \notin ns => out'[e] \subseteq IF e \in reset THEN {} ELSE out[e]
         /\ \/ /\ faults' = faults
               /\ \A e \in Ends :
                    out'[e] = IF e[1] \in ns THEN Desired(e[1], e[2], local', remote', right', pw, sn)
                              ELSE IF e \in reset THEN {} ELSE out[e]
            \/ faults' = faults + 1
<1> DEFINE desired == OutTracks(ns, pw, sn, reset)
<1>1. /\ DOMAIN desired = Ends
      /\ \A e \in Ends : desired[e] = IF e[1] \in ns THEN Desired(e[1], e[2], local', remote', right', pw, sn)
                                      ELSE IF e \in reset THEN {} ELSE out[e]
  BY DEF OutTracks
<1> HIDE DEF desired
<1>2. \/ faults' = faults /\ out' = desired
      \/ faults' = faults + 1 /\ \E bad : out' = Without(desired, bad)
  BY DEF RecomputeAt, RecomputeTracks, Fault, desired
<1>3. \A bad : /\ DOMAIN Without(desired, bad) = Ends
               /\ \A e \in Ends : Without(desired, bad)[e] \subseteq desired[e]
  BY DEF Without
<1>4. DOMAIN out' = Ends /\ \A e \in Ends : out'[e] \subseteq desired[e]
  BY <1>1, <1>2, <1>3
<1> QED
  BY <1>1, <1>2, <1>4

LEMMA FrameSent ==
  ASSUME NEW e, NEW s, Bound(e, s), NEW x, x.t = "offer" => x.body \subseteq Outward(e)
  PROVE  Bound(e, Append(s, x))
<1>1. PICK S : s \in Seq(S)
  BY DEF Bound, IsSeq
<1> DEFINE T == S \cup {x}
           r == Append(s, x)
<1>2. s \in Seq(T) /\ x \in T
  BY <1>1
<1> HIDE DEF T
<1>3. /\ r \in Seq(T) /\ Len(r) = Len(s) + 1 /\ Len(s) \in Nat
      /\ r[Len(s) + 1] = x /\ \A i \in 1..Len(s) : r[i] = s[i]
  BY <1>2, AppendProperties, LenProperties
<1> HIDE DEF r
<1>4. \A i \in 1..Len(r) : i = Len(s) + 1 \/ i \in 1..Len(s)
  BY <1>3
<1>5. IsSeq(r)
  BY <1>3 DEF IsSeq
<1>6. \A i \in 1..Len(r) : r[i].t = "offer" => r[i].body \subseteq Outward(e)
  BY <1>3, <1>4 DEF Bound
<1> QED
  BY <1>5, <1>6 DEF Bound, r

LEMMA FrameTaken ==
  ASSUME NEW e, NEW s, Bound(e, s), s # <<>>
  PROVE  /\ Bound(e, Tail(s))
         /\ Head(s).t = "offer" => Head(s).body \subseteq Outward(e)
<1>1. PICK S : s \in Seq(S)
  BY DEF Bound, IsSeq
<1> DEFINE r == Tail(s)
<1>2. /\ r \in Seq(S) /\ Len(r) = Len(s) - 1 /\ Len(s) \in Nat \ {0} /\ Head(s) = s[1]
      /\ \A i \in 1..Len(r) : r[i] = s[i + 1]
  BY <1>1, HeadTailProperties, EmptySeq, LenProperties
<1> HIDE DEF r
<1>3. 1 \in 1..Len(s) /\ \A i \in 1..Len(r) : i + 1 \in 1..Len(s)
  BY <1>2
<1> QED
  BY <1>2, <1>3 DEF Bound, IsSeq, r

LEMMA Appended ==
  ASSUME NEW s, IsSeq(s), NEW x
  PROVE  IsSeq(Append(s, x))
<1>1. PICK S : s \in Seq(S)
  BY DEF IsSeq
<1>2. s \in Seq(S \cup {x}) /\ x \in S \cup {x}
  BY <1>1
<1>3. Append(s, x) \in Seq(S \cup {x})
  BY <1>2, AppendProperties
<1> QED
  BY <1>3 DEF IsSeq

LEMMA Shortened ==
  ASSUME NEW s, IsSeq(s), s # <<>>
  PROVE  IsSeq(Tail(s))
<1>1. PICK S : s \in Seq(S)
  BY DEF IsSeq
<1>2. Tail(s) \in Seq(S)
  BY <1>1, HeadTailProperties
<1> QED
  BY <1>2 DEF IsSeq

\* A frame that arrives, and what it does to the tracks received.
LEMMA Arrived ==
  ASSUME IInv, NEW e \in Ends, Placed', FromHome => FromHome', Back(e) \in Ends, Back(e) # e,
         UNCHANGED <<link, dropped, overlapped>>, faults' \in Nat, chan[e] # <<>>,
         \/ chan' = [chan EXCEPT ![e] = Tail(@)]
         \/ chan' = [chan EXCEPT ![e] = Tail(@), ![Back(e)] = Append(@, [t |-> "answer", body |-> {}])],
         DOMAIN out' = Ends, Straight => \A x \in Ends : out'[x] \subseteq Outward(x),
         DOMAIN recv' = Ends,
         \A x \in Ends : recv'[x] \subseteq recv[x]
                         \/ (x = e /\ Head(chan[e]).t = "offer" /\ recv'[x] = Head(chan[e]).body)
  PROVE  IInv'
<1> DEFINE answer == [t |-> "answer", body |-> {}]
<1>1. DOMAIN chan = Ends /\ DOMAIN link = Ends /\ \A x \in Ends : IsSeq(chan[x])
  BY DEF IInv, Channels
<1>2. answer.t # "offer"
  OBVIOUS
<1> HIDE DEF answer
<1>3. \A x \in Ends : \/ x = e /\ chan'[x] = Tail(chan[x])
                      \/ x # e /\ chan'[x] = chan[x]
                      \/ x # e /\ chan'[x] = Append(chan[x], answer)
  BY <1>1 DEF answer
<1>4. ASSUME NEW x \in Ends PROVE IsSeq(chan'[x])
  <2>1. IsSeq(Tail(chan[e]))
    BY <1>1, Shortened
  <2>2. IsSeq(Append(chan[x], answer))
    BY <1>1, Appended
  <2> QED
    BY <1>1, <1>3, <2>1, <2>2
<1>5. Channels'
  BY <1>1, <1>4 DEF Channels, IsSeq
<1>6. ASSUME Straight PROVE Straight'
  <2>1. FromHome' /\ ~dropped' /\ \A x \in Ends : Bound(x, chan[x]) /\ recv[x] \subseteq Outward(x)
    BY <1>6 DEF Straight, OutwardOnly
  <2>2. Bound(e, Tail(chan[e])) /\ (Head(chan[e]).t = "offer" => Head(chan[e]).body \subseteq Outward(e))
    BY <2>1, FrameTaken
  <2>3. \A x \in Ends : Bound(x, Append(chan[x], answer))
    BY <1>2, <2>1, FrameSent
  <2>4. \A x \in Ends : Bound(x, chan'[x])
    BY <1>3, <2>1, <2>2, <2>3
  <2>5. \A x \in Ends : recv'[x] \subseteq Outward(x)
    BY <2>1, <2>2
  <2>6. OutwardOnly'
    BY <1>6, <2>4, <2>5 DEF OutwardOnly, Bound, Outward
  <2> QED
    BY <2>1, <2>6 DEF Straight
<1> QED
  BY <1>5, <1>6 DEF IInv

\* A recomputation, with or without a change of sessions or tracks before it.
LEMMA RecomputeKeeps ==
  ASSUME IInv, NEW ns, NEW pw, NEW sn, NEW reset, RecomputeAt(ns, pw, sn, reset), Placed',
         DOMAIN link' = Ends, chan' = chan, DOMAIN recv' = Ends,
         \A e \in Ends : recv'[e] \subseteq recv[e],
         dropped' = dropped, ~overlapped' => ~overlapped /\ FromHome'
  PROVE  IInv'
<1>1. Channels'
  <2>1. DOMAIN out' = Ends /\ faults' \in Nat
    BY RecomputeOut DEF IInv, Channels
  <2> QED
    BY <2>1 DEF IInv, Channels, IsSeq
<1>2. ASSUME ~overlapped' PROVE Straight'
  <2>1. Straight /\ FromHome'
    BY <1>2 DEF IInv
  <2>2. ASSUME NEW e \in Ends PROVE out'[e] \subseteq Outward(e)
    <3>1. Desired(e[1], e[2], local', remote', right', pw, sn) \subseteq Outward(e)
      BY <2>1, DesiredIsOutward
    <3>2. e[1] \in ns => out'[e] \subseteq Desired(e[1], e[2], local', remote', right', pw, sn)
      BY RecomputeOut
    <3>3. e[1] \notin ns => out'[e] \subseteq out[e]
      BY RecomputeOut
    <3>4. out[e] \subseteq Outward(e)
      BY <2>1 DEF Straight, OutwardOnly
    <3> QED
      BY <3>1, <3>2, <3>3, <3>4
  <2>3. \A e \in Ends : recv'[e] \subseteq Outward(e) /\ Bound(e, chan'[e])
    BY <2>1 DEF Straight, OutwardOnly
  <2>4. OutwardOnly'
    BY <2>2, <2>3 DEF OutwardOnly, Bound, Outward
  <2> QED
    BY <2>1, <2>4 DEF Straight
<1> QED
  BY <1>1, <1>2 DEF IInv

\* The events of rooms, rights and demand.
LEMMA ChangeSteps ==
  ASSUME IInv,
         \/ \E k \in Speakers : OnPublishChanged(k)
         \/ \E l \in Listeners : OnPresenceChanged(l) \/ \E k \in Speakers : OnSubscriptionChanged(l, k)
         \/ \E n \in Nodes : OnRightChanged(n)
  PROVE  IInv'
<1>1. /\ UNCHANGED <<remote, link, chan, recv, dropped, overlapped>>
      /\ \E n : RecomputeAt({n}, peerWant, seen, {})
  BY DEF OnPublishChanged, OnPresenceChanged, OnSubscriptionChanged, OnRightChanged, Recompute, ghosts, mediaVars
<1>2. \/ local' = local
      \/ \E k \in Speakers : local' = [local EXCEPT ![Home[k]] = IF k \in @ THEN @ \ {k} ELSE @ \cup {k}]
  BY DEF OnPublishChanged, OnPresenceChanged, OnSubscriptionChanged, OnRightChanged
<1>3. Placed'
  <2>1. CASE local' = local
    BY <1>1, <2>1 DEF IInv, Placed, Neighbours
  <2>2. ASSUME NEW k \in Speakers, local' = [local EXCEPT ![Home[k]] = IF k \in @ THEN @ \ {k} ELSE @ \cup {k}]
        PROVE  Placed'
    <3>1. local \in [Nodes -> SUBSET Speakers] /\ Home[k] \in Nodes
      BY EndFacts DEF IInv, Placed
    <3>2. local' \in [Nodes -> SUBSET Speakers]
      BY <2>2, <3>1
    <3>3. \A n \in Nodes : local'[n] \subseteq local[n] \/ (n = Home[k] /\ local'[n] \subseteq local[n] \cup {k})
      BY <2>2, <3>1
    <3>4. \A n \in Nodes : \A j \in local'[n] : Home[j] = n
      BY <3>3 DEF IInv, Placed
    <3>5. Placed
      BY DEF IInv
    <3> QED
      BY <1>1, <3>2, <3>4, <3>5 DEF Placed, Neighbours
  <2> QED
    BY <1>2, <2>1, <2>2
<1>4. ~overlapped' => ~overlapped /\ FromHome'
  BY <1>1 DEF IInv, Straight, FromHome, Away
<1>5. DOMAIN link' = Ends /\ DOMAIN recv' = Ends
  BY <1>1 DEF IInv, Channels
<1> QED
  BY <1>1, <1>3, <1>4, <1>5, RecomputeKeeps

\* What becomes of the tracks from one place.
LEMMA FromElseFacts ==
  ASSUME Placed, NEW n \in Nodes, NEW a, NEW b \in Int, remote' = FromElse(n, a, b), local' = local,
         b = 0 \/ \E m \in Neighbours(n) : b \in {m, -m}
  PROVE  /\ Placed'
         /\ \A x \in Nodes, k \in Speakers :
              remote'[x][k] = IF x = n /\ remote[x][k] = a THEN b ELSE remote[x][k]
<1>1. \A x \in Nodes, k \in Speakers :
        remote'[x][k] = IF x = n /\ remote[x][k] = a THEN b ELSE remote[x][k]
  BY DEF FromElse, Placed
<1>2. remote' \in [Nodes -> [Speakers -> Int]]
  BY DEF FromElse, Placed
<1>3. ASSUME NEW x \in Nodes, NEW k \in Speakers, remote'[x][k] # 0
      PROVE  \E m \in Neighbours(x) : remote'[x][k] \in {m, -m}
  <2>1. CASE x = n /\ remote[x][k] = a
    BY <1>1, <1>3, <2>1
  <2>2. CASE ~(x = n /\ remote[x][k] = a)
    BY <1>1, <1>3, <2>2 DEF Placed
  <2> QED
    BY <2>1, <2>2
<1>4. Placed'
  BY <1>2, <1>3 DEF Placed, Neighbours
<1> QED
  BY <1>1, <1>4

\* Connections that break, sessions that end and begin.
LEMMA LinkSteps ==
  ASSUME IInv, NEW e \in Ends, Cut(e) \/ Relink(e)
  PROVE  IInv'
<1>1. /\ e[1] \in Nodes /\ e[2] \in Int /\ e[2] \in Neighbours(e[1]) /\ 0 \in Int /\ -e[2] \in Int
      /\ Placed /\ Channels
  BY EndFacts DEF IInv, Neighbours
<1>2. CASE Cut(e) \/ Dial(e)
  <2>1. /\ UNCHANGED <<local, remote, out, recv, faults, dropped, overlapped>> /\ DOMAIN link' = Ends
        /\ DOMAIN chan' = Ends /\ \A x \in Ends : chan'[x] \in {<<>>, chan[x]}
    BY <1>1, <1>2 DEF Cut, Dial, nodeVars, trackVars, mediaVars, ghosts, Channels
  <2>2. \A x : Bound(x, <<>>) /\ IsSeq(<<>>)
    BY EmptySeq DEF Bound, IsSeq
  <2>3. Channels'
    BY <1>1, <2>1, <2>2 DEF Channels, IsSeq
  <2>4. ~overlapped' => Straight'
    <3> SUFFICES ASSUME ~overlapped PROVE Straight'
      BY <2>1
    <3>1. FromHome /\ OutwardOnly /\ ~dropped
      BY DEF IInv, Straight
    <3>2. \A x \in Ends : Bound(x, chan'[x])
      BY <2>1, <2>2, <3>1 DEF OutwardOnly
    <3>3. OutwardOnly'
      BY <2>1, <3>1, <3>2 DEF OutwardOnly, Bound, Outward
    <3> QED
      BY <2>1, <3>1, <3>3 DEF Straight, FromHome, Away
  <2> QED
    BY <1>1, <2>1, <2>3, <2>4 DEF IInv, Placed, Neighbours
<1>3. CASE OnEdgeClosed(e) \/ CloseSuperseded(e)
  <2>1. /\ UNCHANGED <<local, chan, dropped, overlapped>> /\ DOMAIN link' = Ends
        /\ DOMAIN recv' = Ends /\ \A x \in Ends : recv'[x] \subseteq recv[x]
        /\ \E a : remote' = FromElse(e[1], a, 0)
        /\ \E ns, pw, sn, reset : RecomputeAt(ns, pw, sn, reset)
    BY <1>1, <1>3 DEF OnEdgeClosed, CloseSuperseded, Renew, Recompute, nodeVars, mediaVars, ghosts, Channels
  <2>2. Placed' /\ \A x \in Nodes, k \in Speakers : remote'[x][k] \in {0, remote[x][k]}
    BY <1>1, <2>1, FromElseFacts
  <2>3. ~overlapped' => ~overlapped /\ FromHome'
    BY <2>1, <2>2 DEF IInv, Straight, FromHome, Away
  <2> QED
    BY <2>1, <2>2, <2>3, RecomputeKeeps
<1>4. CASE EdgeEstablished(e)
  <2>1. /\ UNCHANGED <<local, chan, dropped>> /\ DOMAIN link' = Ends
        /\ DOMAIN recv' = Ends /\ \A x \in Ends : recv'[x] \subseteq recv[x]
        /\ remote' = FromElse(e[1], e[2], -e[2])
        /\ ~overlapped' => ~overlapped /\ remote' = remote
        /\ \E ns, pw, sn, reset : RecomputeAt(ns, pw, sn, reset)
    BY <1>1, <1>4 DEF EdgeEstablished, Renew, nodeVars, Channels
  <2>2. Placed'
    BY <1>1, <2>1, FromElseFacts
  <2>3. ~overlapped' => ~overlapped /\ FromHome'
    BY <2>1 DEF IInv, Straight, FromHome, Away
  <2> QED
    BY <2>1, <2>2, <2>3, RecomputeKeeps
<1> QED
  BY <1>2, <1>3, <1>4 DEF Relink

\* Frames that are sent, and negotiations that fail.
LEMMA SendSteps ==
  ASSUME IInv, NEW e \in Ends,
         DoNegotiateSend(e) \/ NegotiationFails(e) \/ \E i \in 1..Len(unsent[e]) : SendWant(e, i)
  PROVE  IInv'
<1>1. UNCHANGED <<local, remote, link, out, recv, dropped, overlapped>> /\ faults' \in {faults, faults + 1}
  BY DEF DoNegotiateSend, NegotiationFails, SendWant, Fault, nodeVars, trackVars, mediaVars, ghosts
<1>2. \/ chan' = chan
      \/ \E x : chan' = [chan EXCEPT ![e] = Append(@, x)]
                /\ (~overlapped => (x.t = "offer" => x.body \subseteq Outward(e)))
  <2>1. CASE DoNegotiateSend(e)
    <3> DEFINE x == [t |-> "offer", body |-> out[e]]
    <3>1. chan' = chan \/ chan' = [chan EXCEPT ![e] = Append(@, x)]
      BY <2>1 DEF DoNegotiateSend, Send
    <3>2. ~overlapped => x.body \subseteq Outward(e)
      BY DEF IInv, Straight, OutwardOnly
    <3> QED
      BY <3>1, <3>2
  <2>2. CASE NegotiationFails(e)
    BY <2>2 DEF NegotiationFails
  <2>3. ASSUME NEW i \in 1..Len(unsent[e]), SendWant(e, i) PROVE <1>2!1 \/ <1>2!2
    <3> DEFINE x == [t |-> "want", body |-> unsent[e][i]]
    <3>1. chan' = chan \/ chan' = [chan EXCEPT ![e] = Append(@, x)]
      BY <2>3 DEF SendWant, Send
    <3>2. x.t # "offer"
      OBVIOUS
    <3> QED
      BY <3>1, <3>2
  <2> QED
    BY <2>1, <2>2, <2>3
<1>3. DOMAIN chan = Ends /\ \A x \in Ends : IsSeq(chan[x])
  BY DEF IInv, Channels
<1>4. Channels'
  <2>1. ASSUME NEW x \in Ends PROVE IsSeq(chan'[x])
    <3>1. \A y : IsSeq(Append(chan[e], y))
      BY <1>3, Appended
    <3> QED
      BY <1>2, <1>3, <3>1
  <2>2. faults' \in Nat
    BY <1>1 DEF IInv, Channels
  <2> QED
    BY <1>1, <1>2, <2>1, <2>2 DEF IInv, Channels, IsSeq
<1>5. ASSUME ~overlapped PROVE Straight'
  <2>1. FromHome /\ OutwardOnly /\ ~dropped
    BY <1>5 DEF IInv, Straight
  <2>2. \A x \in Ends : Bound(x, chan[x])
    BY <2>1 DEF OutwardOnly
  <2>3. ASSUME NEW x, chan' = [chan EXCEPT ![e] = Append(@, x)], x.t = "offer" => x.body \subseteq Outward(e)
        PROVE  \A y \in Ends : Bound(y, chan'[y])
    <3>1. Bound(e, Append(chan[e], x))
      BY <2>2, <2>3, FrameSent
    <3> QED
      BY <1>3, <2>2, <2>3, <3>1
  <2>4. \A x \in Ends : Bound(x, chan'[x])
    BY <1>2, <1>5, <2>2, <2>3
  <2>5. OutwardOnly'
    BY <1>1, <2>1, <2>4 DEF OutwardOnly, Bound, Outward
  <2> QED
    BY <1>1, <2>1, <2>5 DEF Straight, FromHome, Away
<1> QED
  BY <1>1, <1>4, <1>5 DEF IInv, Placed, Neighbours

\* Frames that arrive.
LEMMA FrameSteps ==
  ASSUME IInv, NEW e \in Ends,
         OnPeerWant(e) \/ HandleRemoteOffer(e) \/ RemoteOfferFails(e) \/ HandleAnswer(e) \/ AnswerRefused(e)
  PROVE  IInv'
<1>1. UNCHANGED <<local, remote, link, dropped, overlapped>> /\ chan[e] # <<>>
  BY DEF OnPeerWant, HandleRemoteOffer, RemoteOfferFails, HandleAnswer, AnswerRefused, Answered, Arrives,
         nodeVars, endVars, ghosts
<1>2. Placed' /\ (FromHome => FromHome')
  BY <1>1 DEF IInv, Placed, Neighbours, FromHome, Away
<1>3. /\ DOMAIN chan = Ends /\ DOMAIN recv = Ends /\ \A x \in Ends : IsSeq(chan[x])
      /\ Back(e) \in Ends /\ Back(e) # e
  BY EndFacts DEF IInv, Channels
<1>4. \/ chan' = [chan EXCEPT ![e] = Tail(@)]
      \/ chan' = [chan EXCEPT ![e] = Tail(@), ![Back(e)] = Append(@, [t |-> "answer", body |-> {}])]
  BY DEF OnPeerWant, HandleRemoteOffer, RemoteOfferFails, HandleAnswer, AnswerRefused, Answered
<1>5. /\ DOMAIN recv' = Ends
      /\ \A x \in Ends : recv'[x] \subseteq recv[x] \/ (x = e /\ Head(chan[e]).t = "offer" /\ recv'[x] = Head(chan[e]).body)
  <2>1. CASE OnPeerWant(e) \/ HandleAnswer(e)
    BY <1>3, <2>1 DEF OnPeerWant, HandleAnswer, mediaVars
  <2>2. CASE HandleRemoteOffer(e) \/ RemoteOfferFails(e)
    BY <1>3, <2>2 DEF HandleRemoteOffer, RemoteOfferFails, Arrives, Body, mediaVars
  <2>3. CASE AnswerRefused(e)
    BY <1>3, <2>3 DEF AnswerRefused
  <2> QED
    BY <2>1, <2>2, <2>3
<1>6. CASE OnPeerWant(e)
  <2>1. \E ns, pw, sn, reset : RecomputeAt(ns, pw, sn, reset)
    BY <1>6 DEF OnPeerWant
  <2>2. DOMAIN out' = Ends /\ faults' \in Nat
    BY <2>1, RecomputeOut DEF IInv, Channels
  <2>3. ASSUME Straight PROVE \A x \in Ends : out'[x] \subseteq Outward(x)
    <3> SUFFICES ASSUME NEW x \in Ends PROVE out'[x] \subseteq Outward(x)
      OBVIOUS
    <3>1. PICK ns, pw, sn, reset : RecomputeAt(ns, pw, sn, reset)
      BY <2>1
    <3>2. Desired(x[1], x[2], local', remote', right', pw, sn) \subseteq Outward(x)
      BY <1>2, <2>3, DesiredIsOutward DEF Straight
    <3>3. \/ out'[x] \subseteq Desired(x[1], x[2], local', remote', right', pw, sn)
          \/ out'[x] \subseteq out[x]
      BY <3>1, RecomputeOut
    <3>4. out[x] \subseteq Outward(x)
      BY <2>3 DEF Straight, OutwardOnly
    <3> QED
      BY <3>2, <3>3, <3>4
  <2> QED
    BY <1>1, <1>2, <1>3, <1>4, <1>5, <2>2, <2>3, Arrived
<1>7. CASE ~OnPeerWant(e)
  <2>1. out' = out /\ faults' \in Nat
    BY <1>7 DEF HandleRemoteOffer, RemoteOfferFails, HandleAnswer, AnswerRefused, Answered, Fault,
                endVars, trackVars, IInv, Channels
  <2>2. DOMAIN out' = Ends /\ (Straight => \A x \in Ends : out'[x] \subseteq Outward(x))
    BY <2>1 DEF IInv, Channels, Straight, OutwardOnly
  <2> QED
    BY <1>1, <1>2, <1>3, <1>4, <1>5, <2>1, <2>2, Arrived
<1> QED
  BY <1>6, <1>7

\* A track that arrives comes from the side of its home, as the one the node
\* may have does: it is neither local nor another edge's, as long as no session
\* that tracks come from has been superseded.
LEMMA TrackSteps ==
  ASSUME IInv, NEW e \in Ends, NEW k \in Speakers, OnRemoteTrack(e, k) \/ OnRemoteSpeakerEnded(e, k)
  PROVE  IInv'
<1> DEFINE m == e[2]
<1>1. /\ m \in Nodes /\ e[1] \in Nodes /\ e = <<e[1], m>> /\ Back(e) = <<m, e[1]>> /\ Back(e) \in Ends
      /\ e[1] \in Int /\ e[1] \in Neighbours(m) /\ Placed /\ Channels
  BY EndFacts DEF IInv, Back, Neighbours
<1>2. ASSUME Straight, k \in recv[e] PROVE Away(e, k) /\ k \notin local[m] /\ remote[m][k] \in {0, e[1]}
  <2>1. Away(<<e[1], m>>, k)
    BY <1>1, <1>2 DEF Straight, OutwardOnly, Outward
  <2>2. Home[k] # m
    BY <1>1, <2>1, OneWay
  <2>3. remote[m][k] # 0 => remote[m][k] = e[1]
    <3> DEFINE p == remote[m][k]
    <3> SUFFICES ASSUME p # 0, p # e[1] PROVE FALSE
      OBVIOUS
    <3>1. p \in Int /\ <<p, m>> \in Ends /\ Away(<<p, m>>, k)
      BY <1>1, <1>2 DEF Placed, Straight, FromHome
    <3> HIDE DEF p, m
    <3> QED
      BY <1>1, <2>1, <3>1, OneWay
  <2> QED
    BY <1>1, <2>1, <2>2, <2>3 DEF Placed
<1>3. CASE OnRemoteTrack(e, k) /\ (k \in local[m] \/ remote[m][k] # 0)
  <2>1. /\ UNCHANGED <<local, remote, link, out, chan, recv, faults, overlapped>>
        /\ k \in recv[e] /\ remote[m][k] # e[1]
    BY <1>3 DEF OnRemoteTrack, nodeVars, trackVars
  <2>2. ~Straight
    BY <1>2, <1>3, <2>1
  <2> QED
    BY <2>1, <2>2 DEF IInv, Placed, Channels, Neighbours, IsSeq
<1>4. CASE ~(OnRemoteTrack(e, k) /\ (k \in local[m] \/ remote[m][k] # 0))
  <2>1. /\ UNCHANGED <<local, link, chan, dropped, overlapped>> /\ Recompute(m)
        /\ DOMAIN recv' = Ends /\ \A x \in Ends : recv'[x] \subseteq recv[x]
        /\ \/ remote' = [remote EXCEPT ![m][k] = 0]
           \/ remote' = [remote EXCEPT ![m][k] = e[1]] /\ k \in recv[e]
    BY <1>1, <1>4 DEF OnRemoteTrack, OnRemoteSpeakerEnded, nodeVars, ghosts, Channels
  <2> HIDE DEF m
  <2>2. remote' \in [Nodes -> [Speakers -> Int]]
    BY <1>1, <2>1 DEF Placed
  <2>3. \A n \in Nodes, j \in Speakers :
          remote'[n][j] \in {0, remote[n][j]} \/ (n = m /\ j = k /\ remote'[n][j] = e[1] /\ k \in recv[e])
    BY <1>1, <2>1 DEF Placed
  <2>4. ASSUME NEW n \in Nodes, NEW j \in Speakers, remote'[n][j] # 0
        PROVE  \E x \in Neighbours(n) : remote'[n][j] \in {x, -x}
    <3>1. CASE remote'[n][j] = remote[n][j]
      BY <1>1, <2>4, <3>1 DEF Placed
    <3>2. CASE n = m /\ remote'[n][j] = e[1]
      BY <1>1, <3>2
    <3> QED
      BY <2>3, <2>4, <3>1, <3>2
  <2>5. Placed'
    BY <1>1, <2>1, <2>2, <2>4 DEF Placed, Neighbours
  <2>6. ASSUME ~overlapped' PROVE ~overlapped /\ FromHome'
    <3>1. ~overlapped /\ Straight
      BY <2>1, <2>6 DEF IInv
    <3>2. ASSUME NEW n \in Nodes, NEW j \in Speakers, remote'[n][j] # 0
          PROVE  <<remote'[n][j], n>> \in Ends /\ Away(<<remote'[n][j], n>>, j)
      <4>1. CASE remote'[n][j] = remote[n][j]
        BY <3>1, <3>2, <4>1 DEF Straight, FromHome
      <4>2. CASE n = m /\ j = k /\ remote'[n][j] = e[1] /\ k \in recv[e]
        BY <1>1, <1>2, <3>1, <4>2 DEF m
      <4> QED
        BY <2>3, <3>2, <4>1, <4>2
    <3>3. FromHome'
      BY <3>2 DEF FromHome, Away
    <3> QED
      BY <3>1, <3>3
  <2>7. DOMAIN link' = Ends /\ RecomputeAt({m}, peerWant, seen, {})
    BY <1>1, <2>1 DEF Channels, Recompute
  <2> QED
    BY <2>1, <2>5, <2>6, <2>7, RecomputeKeeps
<1> QED
  BY <1>3, <1>4

\* The inductive invariant: as long as no session that tracks come from has
\* been superseded, whatever is offered, on the way or received on an edge leads
\* away from the speaker's home, and so does what a node has.
THEOREM Invariant == Spec => []IInv
<1>1. Init => IInv
  <2> SUFFICES ASSUME Init PROVE IInv
    OBVIOUS
  <2>1. \A x : Bound(x, <<>>) /\ IsSeq(<<>>)
    BY EmptySeq DEF Bound, IsSeq
  <2>2. OutwardOnly
    BY <2>1 DEF Init, OutwardOnly
  <2>3. Channels
    BY <2>1 DEF Init, Channels
  <2>4. local = [n \in Nodes |-> {}] /\ remote = [n \in Nodes |-> [k \in Speakers |-> 0]]
    BY DEF Init
  <2>5. Placed /\ FromHome
    BY <2>4 DEF Placed, FromHome
  <2> QED
    BY <2>2, <2>3, <2>5 DEF IInv, Init, Straight
<1>2. ASSUME IInv, [Next]_vars PROVE IInv'
  <2>1. CASE UNCHANGED vars
    BY <1>2, <2>1 DEF vars, nodeVars, endVars, trackVars, mediaVars, ghosts, IInv, Placed, Neighbours, Channels,
                      IsSeq, Straight, FromHome, Away, OutwardOnly, Bound, Outward
  <2>2. ASSUME NEW e \in Ends,
               Media(e) \/ Relink(e) \/ Fails(e) \/ Cut(e) \/ \E i \in 2..Len(unsent[e]) : SendWant(e, i)
        PROVE  IInv'
    <3>1. (\E i \in 2..Len(unsent[e]) : SendWant(e, i)) \/ SendWant(e, 1) =>
            \E i \in 1..Len(unsent[e]) : SendWant(e, i)
      BY DEF SendWant
    <3> QED
      BY <1>2, <2>2, <3>1, LinkSteps, SendSteps, FrameSteps, TrackSteps DEF Media, Fails
  <2>3. Parents \subseteq Ends
    BY ParentAssumption
  <2> QED
    BY <1>2, <2>1, <2>2, <2>3, ChangeSteps DEF Next
<1> QED
  BY <1>1, <1>2, PTL DEF Spec

-----------------------------------------------------------------------------
(* Demand and tracks agree                                                 *)

\* Somebody at e[1], or beyond another edge of it, wants k, as far as e[1] knows.
AskedAt(e, k) ==
  \/ Wants(Demand(e[1], present, unsub), k)
  \/ \E o \in Neighbours(e[1]) \ {e[2]} : seen[<<e[1], o>>] /\ Wants(peerWant[<<e[1], o>>], k)

\* What recompute keeps true at every end: the out-tracks are the desired ones,
\* those that failed apart, and the want decided on last is what the node wants.
Current(e) ==
  /\ out[e] \subseteq Desired(e[1], e[2], local, remote, right, peerWant, seen)
  /\ faults = 0 => out[e] = Desired(e[1], e[2], local, remote, right, peerWant, seen)
  /\ Up(link[e]) => \A k : Wants(myWant[e], k) <=> AskedAt(e, k)

\* Frames of one kind in a channel: none, exactly this one, this one last.
NoFrame(s, t) == \A i \in 1..Len(s) : s[i].t # t
OneFrame(s, x) == \E i \in 1..Len(s) : s[i] = x /\ \A j \in 1..Len(s) : s[j].t = x.t => j = i
LastFrame(s, x) == \E i \in 1..Len(s) : s[i] = x /\ \A j \in (i + 1)..Len(s) : s[j].t # x.t

WantFrame(w) == [t |-> "want", body |-> w]
OfferFrame(tracks) == [t |-> "offer", body |-> tracks]
AnswerFrame == [t |-> "answer", body |-> {}]

\* The want decided on last is the last to be sent or the last on the way, ...
Telling(e) ==
  \/ unsent[e] # <<>> /\ unsent[e][Len(unsent[e])] = ToWire(myWant[e])
  \/ unsent[e] = <<>> /\ LastFrame(chan[e], WantFrame(ToWire(myWant[e])))

\* ... or what the neighbour knows.
Told(e) ==
  \/ Telling(e)
  \/ /\ unsent[e] = <<>> /\ NoFrame(chan[e], "want") /\ seen[Back(e)]
     /\ \A k : Wants(peerWant[Back(e)], k) <=> Wants(myWant[e], k)

\* One offer at a time, and the neighbour has received the out-tracks unless
\* an offer is to be made, is on the way or is to be followed by another.
Offered(e) ==
  \/ /\ neg[e] = "idle" /\ e \notin pending /\ recv[e] = out[e]
     /\ NoFrame(chan[e], "offer") /\ NoFrame(chan[Back(e)], "answer")
  \/ /\ neg[e] = "making"
     /\ NoFrame(chan[e], "offer") /\ NoFrame(chan[Back(e)], "answer")
  \/ /\ neg[e] = "waiting" /\ NoFrame(chan[Back(e)], "answer")
     /\ \E b : OneFrame(chan[e], OfferFrame(b)) /\ (e \notin pending => b = out[e])
  \/ /\ neg[e] = "waiting" /\ NoFrame(chan[e], "offer")
     /\ OneFrame(chan[Back(e)], AnswerFrame) /\ (e \notin pending => recv[e] = out[e])

\* No session at this end, or one that has heard nothing yet.
Fresh(e) == ~seen[e] /\ neg[e] = "idle" /\ e \notin pending /\ recv[Back(e)] = {}

\* The two sessions of an edge: without a connection, with one that this end has
\* not registered, with one that only this end has, with one that both have.
Joined(e) ==
  /\ link[e] \in {"off", "dead"} <=> link[Back(e)] \in {"off", "dead"}
  /\ link[e] # "on" => chan[e] = <<>>
  /\ link[e] \in {"off", "new"} => Fresh(e)
  /\ link[e] = "on" /\ link[Back(e)] # "on" =>
       /\ Fresh(e) /\ NoFrame(chan[e], "offer") /\ NoFrame(chan[e], "answer")
       /\ ~overtaken => Telling(e)
  /\ link[e] = "on" /\ link[Back(e)] = "on" => (~overtaken => Told(e)) /\ (faults = 0 => Offered(e))

Domains ==
  /\ present \subseteq Listeners /\ DOMAIN unsub = Listeners
  /\ \A f \in {peerWant, seen, neg, unsent} : DOMAIN f = Ends

RouteInv == Domains /\ \A e \in Ends : Current(e) /\ IsSeq(unsent[e]) /\ Joined(e)

-----------------------------------------------------------------------------
(* What a node wants                                                       *)

\* The union over the nodes that Init starts from.
LEMMA UnionAllExact ==
  ASSUME NEW ws, NEW u
  PROVE  Wants(UnionAll(ws), u) <=> \E w \in ws : Wants(w, u)
<1>1. CASE \E w \in ws : w.all
  <2> DEFINE X == {v \in UNION {w.except : w \in ws} : \A w \in ws : ~Wants(w, v)}
  <2>1. Wants(UnionAll(ws), u) <=> u \notin X
    BY <1>1 DEF UnionAll, Wants, WantAllExcept
  <2>2. PICK w \in ws : w.all
    BY <1>1
  <2>3. u \notin w.except => Wants(w, u)
    BY <2>2 DEF Wants
  <2>4. u \in w.except => u \in UNION {v.except : v \in ws}
    BY <2>2
  <2> QED
    BY <2>1, <2>2, <2>3, <2>4
<1>2. CASE ~ \E w \in ws : w.all
  <2>1. Wants(UnionAll(ws), u) <=> u \in UNION {w.include : w \in ws}
    BY <1>2 DEF UnionAll, Wants, WantOnly
  <2>2. \A w \in ws : Wants(w, u) <=> u \in w.include
    BY <1>2 DEF Wants
  <2> QED
    BY <2>1, <2>2
<1> QED
  BY <1>1, <1>2

\* recompute's loop over the other sessions, of which a line leaves one at most.
Gather(w, pw, n, S) == FoldSet(LAMBDA o, v : Union(v, pw[<<n, o>>]), w, S)

LEMMA FoldNone ==
  ASSUME NEW w, NEW pw, NEW n
  PROVE  Gather(w, pw, n, {}) = w
<1> DEFINE F(iter, s) == IF s = {} THEN w
                         ELSE LET x == CHOOSE x \in s : TRUE IN Union(iter[s \ {x}], pw[<<n, x>>])
           it == CHOOSE iter : iter = [s \in SUBSET {} |-> F(iter, s)]
<1>1. Gather(w, pw, n, {}) = it[{}]
  BY DEF Gather, FoldSet, MapThenFoldSet
<1>2. \E iter : iter = [s \in SUBSET {} |-> F(iter, s)]
  <2> DEFINE g == [s \in SUBSET {} |-> w]
  <2>1. g = [s \in SUBSET {} |-> F(g, s)]
    OBVIOUS
  <2> QED
    BY <2>1
<1>3. it = [s \in SUBSET {} |-> F(it, s)]
  BY <1>2
<1> QED
  BY <1>1, <1>3

LEMMA FoldOne ==
  ASSUME NEW w, NEW pw, NEW n, NEW p
  PROVE  Gather(w, pw, n, {p}) = Union(w, pw[<<n, p>>])
<1> DEFINE F(iter, s) == IF s = {} THEN w
                         ELSE LET x == CHOOSE x \in s : TRUE IN Union(iter[s \ {x}], pw[<<n, x>>])
           it == CHOOSE iter : iter = [s \in SUBSET {p} |-> F(iter, s)]
<1>1. Gather(w, pw, n, {p}) = it[{p}]
  BY DEF Gather, FoldSet, MapThenFoldSet
<1>2. (CHOOSE x \in {p} : TRUE) = p /\ {p} \ {p} = {}
  OBVIOUS
<1>3. \E iter : iter = [s \in SUBSET {p} |-> F(iter, s)]
  <2> DEFINE g == [s \in SUBSET {p} |-> IF s = {} THEN w ELSE Union(w, pw[<<n, p>>])]
  <2>1. \A s \in SUBSET {p} : s = {} \/ s = {p}
    OBVIOUS
  <2>2. \A s \in SUBSET {p} : g[s] = F(g, s)
    BY <1>2, <2>1
  <2>3. g = [s \in SUBSET {p} |-> F(g, s)]
    BY <2>2
  <2> QED
    BY <2>3
<1>4. it = [s \in SUBSET {p} |-> F(it, s)]
  BY <1>3
<1> HIDE DEF it
<1>5. it[{p}] = F(it, {p}) /\ it[{}] = F(it, {})
  BY <1>4
<1> QED
  BY <1>1, <1>2, <1>5

LEMMA OneOther ==
  ASSUME NEW e \in Ends, NEW o \in Neighbours(e[1]) \ {e[2]}
  PROVE  /\ \A p \in Neighbours(e[1]) \ {e[2]} : p = o
         /\ o \in Nodes /\ <<e[1], o>> \in Ends
         /\ o = e[1] + (e[1] - e[2])
<1>1. /\ e[1] \in Int /\ e[2] \in Int /\ e[1] - e[2] \in {-1, 1}
  BY EndFacts
<1>2. \A p \in Neighbours(e[1]) \ {e[2]} : p \in Int /\ e[1] - p \in {-1, 1} /\ p # e[2]
  BY EndFacts DEF Neighbours, Ends
<1>3. \A p \in Neighbours(e[1]) \ {e[2]} : p = e[1] + (e[1] - e[2])
  BY <1>1, <1>2
<1> QED
  BY <1>3 DEF Neighbours

LEMMA NodeWantExact ==
  ASSUME NEW e \in Ends, NEW p, NEW u, NEW pw, NEW sn, NEW k
  PROVE  Wants(NodeWant(e[1], e[2], p, u, pw, sn), k) <=>
           \/ Wants(Demand(e[1], p, u), k)
           \/ \E o \in Neighbours(e[1]) \ {e[2]} : sn[<<e[1], o>>] /\ Wants(pw[<<e[1], o>>], k)
<1> DEFINE n == e[1]
           d == Demand(n, p, u)
           others == {o \in Neighbours(n) \ {e[2]} : sn[<<n, o>>]}
<1>1. NodeWant(n, e[2], p, u, pw, sn) = Gather(d, pw, n, others)
  BY DEF NodeWant, Gather
<1>2. CASE others = {}
  <2>1. NodeWant(n, e[2], p, u, pw, sn) = d
    BY <1>1, <1>2, FoldNone
  <2> QED
    BY <1>2, <2>1
<1>3. CASE others # {}
  <2>1. PICK o : o \in others
    BY <1>3
  <2>2. others = {o}
    BY <2>1, OneOther
  <2> HIDE DEF d, others
  <2>3. NodeWant(n, e[2], p, u, pw, sn) = Union(d, pw[<<n, o>>])
    BY <1>1, <2>2, FoldOne
  <2>4. Wants(NodeWant(n, e[2], p, u, pw, sn), k) <=> Wants(d, k) \/ Wants(pw[<<n, o>>], k)
    BY <2>3, UnionExact
  <2> QED
    BY <2>1, <2>2, <2>4 DEF d, others
<1> QED
  BY <1>2, <1>3

\* Nothing changes in the demand of nodes whose listeners stay as they are.
LEMMA DemandElsewhere ==
  ASSUME NEW n, NEW p, NEW q, NEW u, NEW v,
         \A l : Seat[l] = n => (l \in p <=> l \in q) /\ (l \in p => u[l] = v[l])
  PROVE  Demand(n, p, u) = Demand(n, q, v)
<1>1. {[uid |-> l, unsub |-> u[l]] : l \in {x \in p : Seat[x] = n}}
        = {[uid |-> l, unsub |-> v[l]] : l \in {x \in q : Seat[x] = n}}
  OBVIOUS
<1> QED
  BY <1>1 DEF Demand

-----------------------------------------------------------------------------
(* Frames in a channel                                                     *)

LEMMA FrameAdded ==
  ASSUME NEW s, IsSeq(s), NEW y
  PROVE  /\ IsSeq(Append(s, y))
         /\ \A t : NoFrame(Append(s, y), t) <=> NoFrame(s, t) /\ y.t # t
         /\ NoFrame(s, y.t) => OneFrame(Append(s, y), y)
         /\ \A x : x.t # y.t /\ OneFrame(s, x) => OneFrame(Append(s, y), x)
         /\ LastFrame(Append(s, y), y)
         /\ \A x : x.t # y.t /\ LastFrame(s, x) => LastFrame(Append(s, y), x)
<1> DEFINE r == Append(s, y)
           n == Len(s)
<1>1. PICK S : s \in Seq(S)
  BY DEF IsSeq
<1>2. s \in Seq(S \cup {y})
  BY <1>1
<1>3. /\ r \in Seq(S \cup {y}) /\ n \in Nat /\ Len(r) = n + 1
      /\ r[n + 1] = y /\ \A i \in 1..n : r[i] = s[i]
  BY <1>2, AppendProperties, LenProperties
<1> HIDE DEF r, n
<1>4. /\ \A i \in 1..(n + 1) : i = n + 1 \/ i \in 1..n
      /\ \A i \in 1..n : i \in 1..(n + 1) /\ i # n + 1
      /\ n + 1 \in 1..(n + 1)
  BY <1>3
<1>5. IsSeq(r)
  BY <1>3 DEF IsSeq
<1>6. \A t : NoFrame(r, t) <=> NoFrame(s, t) /\ y.t # t
  BY <1>3, <1>4 DEF NoFrame, n
<1>7. ASSUME NoFrame(s, y.t) PROVE OneFrame(r, y)
  <2>1. \A j \in 1..(n + 1) : r[j].t = y.t => j = n + 1
    BY <1>3, <1>4, <1>7 DEF NoFrame, n
  <2> QED
    BY <1>3, <1>4, <2>1 DEF OneFrame
<1>8. ASSUME NEW x, x.t # y.t, OneFrame(s, x) PROVE OneFrame(r, x)
  <2>1. PICK i \in 1..n : s[i] = x /\ \A j \in 1..n : s[j].t = x.t => j = i
    BY <1>8 DEF OneFrame, n
  <2>2. \A j \in 1..(n + 1) : r[j].t = x.t => j = i
    BY <1>3, <1>4, <1>8, <2>1
  <2> QED
    BY <1>3, <1>4, <2>1, <2>2 DEF OneFrame
<1>9. LastFrame(r, y)
  <2>1. ((n + 1) + 1)..(n + 1) = {}
    BY <1>3
  <2> QED
    BY <1>3, <1>4, <2>1 DEF LastFrame
<1>10. ASSUME NEW x, x.t # y.t, LastFrame(s, x) PROVE LastFrame(r, x)
  <2>1. PICK i \in 1..n : s[i] = x /\ \A j \in (i + 1)..n : s[j].t # x.t
    BY <1>10 DEF LastFrame, n
  <2>2. \A j \in (i + 1)..(n + 1) : j = n + 1 \/ (j \in (i + 1)..n /\ j \in 1..n)
    BY <1>3, <2>1
  <2>3. \A j \in (i + 1)..(n + 1) : r[j].t # x.t
    BY <1>3, <1>10, <2>1, <2>2
  <2> QED
    BY <1>3, <1>4, <2>1, <2>3 DEF LastFrame
<1> QED
  BY <1>5, <1>6, <1>7, <1>8, <1>9, <1>10 DEF r

LEMMA FrameRemoved ==
  ASSUME NEW s, IsSeq(s), s # <<>>
  PROVE  /\ IsSeq(Tail(s))
         /\ \A t : NoFrame(s, t) => NoFrame(Tail(s), t) /\ Head(s).t # t
         /\ \A x : OneFrame(s, x) => \/ Head(s) = x /\ NoFrame(Tail(s), x.t)
                                     \/ Head(s).t # x.t /\ OneFrame(Tail(s), x)
         /\ \A x : LastFrame(s, x) => \/ Head(s) = x /\ NoFrame(Tail(s), x.t)
                                      \/ LastFrame(Tail(s), x)
<1> DEFINE r == Tail(s)
           h == Head(s)
           n == Len(r)
<1>1. PICK S : s \in Seq(S)
  BY DEF IsSeq
<1>2. /\ r \in Seq(S) /\ n \in Nat /\ Len(s) = n + 1 /\ h = s[1]
      /\ \A i \in 1..n : r[i] = s[i + 1]
  BY <1>1, HeadTailProperties, EmptySeq, LenProperties
<1> HIDE DEF r, n, h
<1>3. 1 \in 1..(n + 1) /\ \A i \in 1..n : i + 1 \in 1..(n + 1) /\ i + 1 # 1
  BY <1>2
<1>4. IsSeq(r)
  BY <1>2 DEF IsSeq
<1>5. ASSUME NEW t, NoFrame(s, t) PROVE NoFrame(r, t) /\ h.t # t
  BY <1>2, <1>3, <1>5 DEF NoFrame, n
<1>6. ASSUME NEW x, OneFrame(s, x)
      PROVE  (h = x /\ NoFrame(r, x.t)) \/ (h.t # x.t /\ OneFrame(r, x))
  <2>1. PICK i \in 1..(n + 1) : s[i] = x /\ \A j \in 1..(n + 1) : s[j].t = x.t => j = i
    BY <1>2, <1>6 DEF OneFrame
  <2>2. CASE i = 1
    <3>1. \A j \in 1..n : r[j].t # x.t
      BY <1>2, <1>3, <2>1, <2>2
    <3> QED
      BY <1>2, <2>1, <2>2, <3>1 DEF NoFrame, n
  <2>3. CASE i # 1
    <3>1. i - 1 \in 1..n /\ (i - 1) + 1 = i
      BY <1>2, <2>1, <2>3
    <3>2. r[i - 1] = x
      BY <1>2, <2>1, <3>1
    <3>3. \A j \in 1..n : r[j].t = x.t => j = i - 1
      <4> SUFFICES ASSUME NEW j \in 1..n, r[j].t = x.t PROVE j = i - 1
        OBVIOUS
      <4>1. j + 1 = i
        BY <1>2, <1>3, <2>1
      <4> QED
        BY <2>1, <4>1
    <3>4. OneFrame(r, x)
      BY <3>1, <3>2, <3>3 DEF OneFrame, n
    <3> QED
      BY <1>2, <1>3, <2>1, <2>3, <3>4
  <2> QED
    BY <2>2, <2>3
<1>7. ASSUME NEW x, LastFrame(s, x)
      PROVE  (h = x /\ NoFrame(r, x.t)) \/ LastFrame(r, x)
  <2>1. PICK i \in 1..(n + 1) : s[i] = x /\ \A j \in (i + 1)..(n + 1) : s[j].t # x.t
    BY <1>2, <1>7 DEF LastFrame
  <2>2. CASE i = 1
    <3>1. \A j \in 1..n : j + 1 \in (i + 1)..(n + 1)
      BY <1>2, <2>2
    <3>2. \A j \in 1..n : r[j].t # x.t
      BY <1>2, <2>1, <3>1
    <3> QED
      BY <1>2, <2>1, <2>2, <3>2 DEF NoFrame, n
  <2>3. CASE i # 1
    <3>1. i - 1 \in 1..n /\ (i - 1) + 1 = i
      BY <1>2, <2>1, <2>3
    <3>2. r[i - 1] = x
      BY <1>2, <2>1, <3>1
    <3>3. \A j \in ((i - 1) + 1)..n : j \in 1..n /\ j + 1 \in (i + 1)..(n + 1)
      BY <1>2, <3>1
    <3>4. \A j \in ((i - 1) + 1)..n : r[j].t # x.t
      BY <1>2, <2>1, <3>3
    <3> QED
      BY <3>1, <3>2, <3>4 DEF LastFrame, n
  <2> QED
    BY <2>2, <2>3
<1> QED
  BY <1>4, <1>5, <1>6, <1>7 DEF r, h

-----------------------------------------------------------------------------
(* recompute                                                               *)

\* After it every end is up to date, if what the ends of other nodes depend on
\* has stayed as it was.
LEMMA RecomputeCurrent ==
  ASSUME IInv, RouteInv, NEW ns, NEW pw, NEW sn, NEW reset, RecomputeAt(ns, pw, sn, reset),
         \A n \in Nodes \ ns :
           /\ local'[n] = local[n] /\ remote'[n] = remote[n] /\ (n \in right' <=> n \in right)
           /\ Demand(n, present', unsub') = Demand(n, present, unsub),
         \A e \in Ends : e[1] \notin ns => pw[e] = peerWant[e] /\ (sn[e] <=> seen[e]) /\ e \notin reset,
         \A e \in Ends : Up(link'[e]) => Up(link[e]) \/ e \in reset
  PROVE  \A e \in Ends : Current(e)'
<1> SUFFICES ASSUME NEW e \in Ends PROVE Current(e)'
  OBVIOUS
<1> DEFINE want == NodeWant(e[1], e[2], present', unsub', pw, sn)
           told == e[1] \in ns /\ Up(link'[e]) /\ (e \in reset \/ ~sent[e] \/ ~Equal(want, myWant[e]))
           desired == Desired(e[1], e[2], local', remote', right', pw, sn)
<1>1. /\ peerWant' = pw /\ seen' = sn
      /\ myWant'[e] = IF told THEN want ELSE IF e \in reset THEN WantNone ELSE myWant[e]
  BY DEF RecomputeAt, RecomputeWants
<1>2. /\ e[1] \in Nodes /\ Current(e) /\ faults \in Nat
      /\ \A o \in Neighbours(e[1]) : <<e[1], o>> \in Ends /\ <<e[1], o>>[1] = e[1]
  BY EndFacts DEF RouteInv, Neighbours, IInv, Channels
<1>3. \A k : AskedAt(e, k)' <=>
               \/ Wants(Demand(e[1], present', unsub'), k)
               \/ \E o \in Neighbours(e[1]) \ {e[2]} : sn[<<e[1], o>>] /\ Wants(pw[<<e[1], o>>], k)
  BY <1>1 DEF AskedAt, Neighbours
<1> HIDE DEF want
<1>4. /\ e[1] \in ns => out'[e] \subseteq desired
      /\ e[1] \notin ns => out'[e] \subseteq out[e]
      /\ faults' = 0 => faults = 0 /\ out'[e] = IF e[1] \in ns THEN desired
                                                ELSE IF e \in reset THEN {} ELSE out[e]
  <2>1. /\ e[1] \in ns => out'[e] \subseteq desired
        /\ e[1] \notin ns => out'[e] \subseteq IF e \in reset THEN {} ELSE out[e]
        /\ \/ /\ faults' = faults
              /\ out'[e] = IF e[1] \in ns THEN desired ELSE IF e \in reset THEN {} ELSE out[e]
           \/ faults' = faults + 1
    BY RecomputeOut
  <2> HIDE DEF desired
  <2>2. e[1] \notin ns => out'[e] \subseteq out[e]
    BY <2>1
  <2>3. faults' = 0 => faults' # faults + 1
    BY <1>2
  <2> QED
    BY <2>1, <2>2, <2>3
<1>5. desired = Desired(e[1], e[2], local, remote, right, peerWant, seen)'
  BY <1>1 DEF Desired, Wants
<1>6. CASE e[1] \in ns
  <2>1. \A k : Wants(want, k) <=> AskedAt(e, k)'
    BY <1>3, NodeWantExact DEF want
  <2>2. ASSUME Up(link'[e]) PROVE \A k : Wants(myWant'[e], k) <=> Wants(want, k)
    <3>1. CASE told
      BY <1>1, <3>1
    <3>2. CASE ~told
      <4>1. Equal(want, myWant[e]) /\ myWant'[e] = myWant[e]
        BY <1>1, <1>6, <2>2, <3>2
      <4> QED
        BY <4>1, EqualIsEnough
    <3> QED
      BY <3>1, <3>2
  <2>3. Up(link[e])' => \A k : Wants(myWant[e], k)' <=> AskedAt(e, k)'
    BY <2>1, <2>2 DEF Wants, Up
  <2> HIDE DEF desired
  <2> QED
    BY <1>4, <1>5, <1>6, <2>3 DEF Current
<1>7. CASE e[1] \notin ns
  <2>1. /\ pw[e] = peerWant[e] /\ (sn[e] <=> seen[e]) /\ e \notin reset /\ myWant'[e] = myWant[e]
        /\ local'[e[1]] = local[e[1]] /\ remote'[e[1]] = remote[e[1]] /\ (e[1] \in right' <=> e[1] \in right)
        /\ Demand(e[1], present', unsub') = Demand(e[1], present, unsub)
    BY <1>1, <1>2, <1>7
  <2>2. e = <<e[1], e[2]>>
    BY EndFacts
  <2>3. desired = Desired(e[1], e[2], local, remote, right, peerWant, seen)
    <3>1. pw[<<e[1], e[2]>>] = peerWant[<<e[1], e[2]>>] /\ (sn[<<e[1], e[2]>>] <=> seen[<<e[1], e[2]>>])
      BY <2>1, <2>2
    <3> QED
      BY <2>1, <3>1 DEF Desired
  <2>4. \A o \in Neighbours(e[1]) : pw[<<e[1], o>>] = peerWant[<<e[1], o>>] /\ (sn[<<e[1], o>>] <=> seen[<<e[1], o>>])
    BY <1>2, <1>7
  <2>5. \A k : AskedAt(e, k)' <=> AskedAt(e, k)
    BY <1>3, <2>1, <2>4 DEF AskedAt
  <2>6. \A k : Wants(myWant[e], k)' <=> Wants(myWant[e], k)
    BY <2>1 DEF Wants
  <2>7. Up(link[e])' => Up(link[e])
    BY <2>1 DEF Up
  <2> HIDE DEF desired
  <2> QED
    BY <1>2, <1>4, <1>5, <1>7, <2>1, <2>3, <2>5, <2>6, <2>7 DEF Current
<1> QED
  BY <1>6, <1>7

\* A want that was decided on is the last one to be sent.
LEMMA RecomputeTold ==
  ASSUME RouteInv, NEW ns, NEW pw, NEW sn, NEW reset, RecomputeAt(ns, pw, sn, reset), NEW e \in Ends
  PROVE  /\ IsSeq(unsent'[e])
         /\ \/ unsent'[e] # <<>> /\ unsent'[e][Len(unsent'[e])] = ToWire(myWant'[e])
            \/ e \notin reset /\ unsent'[e] = unsent[e] /\ myWant'[e] = myWant[e]
            \/ e \in reset /\ ~(e[1] \in ns /\ Up(link'[e]))
<1> DEFINE want == NodeWant(e[1], e[2], present', unsub', pw, sn)
           told == e[1] \in ns /\ Up(link'[e]) /\ (e \in reset \/ ~sent[e] \/ ~Equal(want, myWant[e]))
           was == IF e \in reset THEN <<>> ELSE unsent[e]
           x == ToWire(want)
<1>1. /\ myWant'[e] = IF told THEN want ELSE IF e \in reset THEN WantNone ELSE myWant[e]
      /\ unsent'[e] = was \o (IF told THEN <<x>> ELSE <<>>)
  BY DEF RecomputeAt, RecomputeWants
<1>2. PICK S : was \in Seq(S)
  BY EmptySeq DEF RouteInv, IsSeq
<1> HIDE DEF want, was
<1>3. CASE told
  <2>1. unsent'[e] = was \o <<x>> /\ myWant'[e] = want
    BY <1>1, <1>3
  <2> HIDE DEF x
  <2>2. was \in Seq(S \cup {x}) /\ <<x>> \in Seq(S \cup {x}) /\ Len(<<x>>) = 1 /\ <<x>>[1] = x
    BY <1>2
  <2>3. /\ unsent'[e] \in Seq(S \cup {x}) /\ Len(was) \in Nat /\ Len(unsent'[e]) = Len(was) + 1
        /\ unsent'[e][Len(was) + 1] = x
    BY <2>1, <2>2, ConcatProperties, LenProperties
  <2>4. unsent'[e] # <<>>
    BY <2>3
  <2> QED
    BY <2>1, <2>3, <2>4 DEF IsSeq, x
<1>4. CASE ~told
  <2>1. unsent'[e] = was \o <<>> /\ (e \notin reset => myWant'[e] = myWant[e])
    BY <1>1, <1>4
  <2>2. unsent'[e] = was
    BY <1>2, <2>1
  <2> QED
    BY <1>2, <1>4, <2>1, <2>2 DEF IsSeq, was
<1> QED
  BY <1>3, <1>4

\* A change of the out-tracks starts a negotiation or is kept for the next.
LEMMA RecomputeOffers ==
  ASSUME NEW ns, NEW pw, NEW sn, NEW reset, RecomputeAt(ns, pw, sn, reset), NEW e \in Ends
  PROVE  /\ e \in reset => neg'[e] = "making" \/ (neg'[e] = "idle" /\ e \notin pending')
         /\ e \in reset /\ out'[e] = {} => neg'[e] = "idle"
         /\ e \notin reset =>
              \/ out'[e] = out[e] /\ neg'[e] = neg[e] /\ (e \in pending' <=> e \in pending)
              \/ out'[e] # out[e] /\ neg[e] = "idle" /\ neg'[e] = "making"
              \/ out'[e] # out[e] /\ neg[e] # "idle" /\ neg'[e] = neg[e] /\ e \in pending'
<1> DEFINE was == IF e \in reset THEN {} ELSE out[e]
           begins == out'[e] # was /\ (e \in reset \/ neg[e] = "idle")
<1>1. /\ neg'[e] = IF begins THEN "making" ELSE IF e \in reset THEN "idle" ELSE neg[e]
      /\ e \in pending' <=> (e \in pending /\ e \notin reset) \/ (out'[e] # was /\ ~begins)
  BY DEF RecomputeAt, RecomputeTracks
<1> QED
  BY <1>1

\* Where no want has come there is nothing to negotiate.
LEMMA RecomputeFresh ==
  ASSUME RouteInv, NEW ns, NEW pw, NEW sn, NEW reset, RecomputeAt(ns, pw, sn, reset), NEW e \in Ends, ~sn[e],
         e \in reset \/ (neg[e] = "idle" /\ e \notin pending /\ ~seen[e])
  PROVE  ~seen'[e] /\ neg'[e] = "idle" /\ e \notin pending' /\ out'[e] = {}
<1>1. /\ e = <<e[1], e[2]>> /\ seen' = sn /\ Current(e)
  BY EndFacts DEF RecomputeAt, RecomputeWants, RouteInv
<1>2. Desired(e[1], e[2], local', remote', right', pw, sn) = {}
  BY <1>1 DEF Desired
<1>3. ~seen[e] => out[e] = {}
  <2>1. ~seen[e] => Desired(e[1], e[2], local, remote, right, peerWant, seen) = {}
    BY <1>1 DEF Desired
  <2> QED
    BY <1>1, <2>1 DEF Current
<1>4. /\ e[1] \in ns => out'[e] \subseteq {}
      /\ e[1] \notin ns => out'[e] \subseteq IF e \in reset THEN {} ELSE out[e]
  BY <1>2, RecomputeOut
<1>5. out'[e] = {}
  BY <1>3, <1>4
<1>6. CASE e \in reset
  BY <1>1, <1>5, <1>6, RecomputeOffers
<1>7. CASE e \notin reset
  BY <1>1, <1>3, <1>5, <1>7, RecomputeOffers
<1> QED
  BY <1>6, <1>7

LEMMA RecomputeDomains ==
  ASSUME NEW ns, NEW pw, NEW sn, NEW reset, RecomputeAt(ns, pw, sn, reset),
         DOMAIN pw = Ends, DOMAIN sn = Ends, present' \subseteq Listeners, DOMAIN unsub' = Listeners
  PROVE  Domains'
BY DEF RecomputeAt, RecomputeWants, RecomputeTracks, Domains

-----------------------------------------------------------------------------
(* The steps                                                               *)

\* A channel that is left alone, or sent or takes frames of other kinds.
KeepsWants(s, r) ==
  /\ NoFrame(s, "want") => NoFrame(r, "want")
  /\ \A w : LastFrame(s, WantFrame(w)) => LastFrame(r, WantFrame(w))
KeepsOffers(s, r) ==
  /\ NoFrame(s, "offer") => NoFrame(r, "offer")
  /\ \A b : OneFrame(s, OfferFrame(b)) => OneFrame(r, OfferFrame(b))
KeepsAnswers(s, r) ==
  /\ NoFrame(s, "answer") => NoFrame(r, "answer")
  /\ OneFrame(s, AnswerFrame) => OneFrame(r, AnswerFrame)

LEMMA FrameKinds ==
  /\ \A w : WantFrame(w).t = "want" /\ WantFrame(w).body = w
  /\ \A b : OfferFrame(b).t = "offer" /\ OfferFrame(b).body = b
  /\ AnswerFrame.t = "answer"
BY DEF WantFrame, OfferFrame, AnswerFrame

LEMMA Alone == \A s : KeepsWants(s, s) /\ KeepsOffers(s, s) /\ KeepsAnswers(s, s)
BY DEF KeepsWants, KeepsOffers, KeepsAnswers

LEMMA Sending ==
  ASSUME NEW s, IsSeq(s), NEW y
  PROVE  /\ y.t # "want" => KeepsWants(s, Append(s, y))
         /\ y.t # "offer" => KeepsOffers(s, Append(s, y))
         /\ y.t # "answer" => KeepsAnswers(s, Append(s, y))
<1>1. /\ \A t : NoFrame(Append(s, y), t) <=> NoFrame(s, t) /\ y.t # t
      /\ \A x : x.t # y.t /\ OneFrame(s, x) => OneFrame(Append(s, y), x)
      /\ \A x : x.t # y.t /\ LastFrame(s, x) => LastFrame(Append(s, y), x)
  BY FrameAdded
<1> QED
  BY <1>1, FrameKinds DEF KeepsWants, KeepsOffers, KeepsAnswers

LEMMA Taking ==
  ASSUME NEW s, IsSeq(s), s # <<>>
  PROVE  /\ Head(s).t # "want" => KeepsWants(s, Tail(s))
         /\ Head(s).t # "offer" => KeepsOffers(s, Tail(s))
         /\ Head(s).t # "answer" => KeepsAnswers(s, Tail(s))
<1>1. /\ \A t : NoFrame(s, t) => NoFrame(Tail(s), t)
      /\ \A x : OneFrame(s, x) => Head(s) = x \/ OneFrame(Tail(s), x)
      /\ \A x : LastFrame(s, x) => Head(s) = x \/ LastFrame(Tail(s), x)
  BY FrameRemoved
<1> QED
  BY <1>1, FrameKinds DEF KeepsWants, KeepsOffers, KeepsAnswers

\* An end whose own part of the exchange is left alone, or recomputed.
LEMMA TellingKept ==
  ASSUME NEW e \in Ends, Telling(e),
         \/ unsent'[e] # <<>> /\ unsent'[e][Len(unsent'[e])] = ToWire(myWant'[e])
         \/ unsent'[e] = unsent[e] /\ myWant'[e] = myWant[e] /\ KeepsWants(chan[e], chan'[e])
  PROVE  Telling(e)'
<1>1. CASE unsent'[e] # <<>> /\ unsent'[e][Len(unsent'[e])] = ToWire(myWant'[e])
  BY <1>1 DEF Telling, ToWire
<1>2. CASE unsent'[e] = unsent[e] /\ myWant'[e] = myWant[e] /\ KeepsWants(chan[e], chan'[e])
  <2> DEFINE w == ToWire(myWant[e])
  <2>1. w = ToWire(myWant'[e])
    BY <1>2
  <2>2. \/ unsent'[e] # <<>> /\ unsent'[e][Len(unsent'[e])] = w
        \/ unsent'[e] = <<>> /\ LastFrame(chan'[e], WantFrame(w))
    BY <1>2 DEF Telling, KeepsWants
  <2> QED
    BY <2>1, <2>2 DEF Telling, WantFrame, ToWire, LastFrame
<1> QED
  BY <1>1, <1>2

LEMMA ToldKept ==
  ASSUME NEW e \in Ends, Told(e),
         \/ unsent'[e] # <<>> /\ unsent'[e][Len(unsent'[e])] = ToWire(myWant'[e])
         \/ /\ unsent'[e] = unsent[e] /\ myWant'[e] = myWant[e] /\ KeepsWants(chan[e], chan'[e])
            /\ peerWant'[Back(e)] = peerWant[Back(e)] /\ (seen'[Back(e)] <=> seen[Back(e)])
  PROVE  Told(e)'
<1>1. CASE unsent'[e] # <<>> /\ unsent'[e][Len(unsent'[e])] = ToWire(myWant'[e])
  BY <1>1 DEF Told, Telling, ToWire
<1>2. CASE /\ unsent'[e] = unsent[e] /\ myWant'[e] = myWant[e] /\ KeepsWants(chan[e], chan'[e])
           /\ peerWant'[Back(e)] = peerWant[Back(e)] /\ (seen'[Back(e)] <=> seen[Back(e)])
  <2>1. CASE Telling(e)
    BY <1>2, <2>1, TellingKept DEF Told
  <2>2. CASE ~Telling(e)
    <3>1. /\ unsent'[e] = <<>> /\ NoFrame(chan'[e], "want") /\ seen'[Back(e)]
          /\ \A k : Wants(peerWant'[Back(e)], k) <=> Wants(myWant'[e], k)
      BY <1>2, <2>2 DEF Told, KeepsWants
    <3> QED
      BY <3>1 DEF Told, NoFrame, Back, Wants
  <2> QED
    BY <2>1, <2>2
<1> QED
  BY <1>1, <1>2

LEMMA OfferedKept ==
  ASSUME NEW e \in Ends, Offered(e), recv'[e] = recv[e],
         KeepsOffers(chan[e], chan'[e]), KeepsAnswers(chan[Back(e)], chan'[Back(e)]),
         \/ out'[e] = out[e] /\ neg'[e] = neg[e] /\ (e \in pending' <=> e \in pending)
         \/ neg[e] = "idle" /\ neg'[e] = "making"
         \/ neg[e] # "idle" /\ neg'[e] = neg[e] /\ e \in pending'
  PROVE  Offered(e)'
<1>1. /\ NoFrame(chan[e], "offer") => NoFrame(chan[e], "offer")'
      /\ NoFrame(chan[Back(e)], "answer") => NoFrame(chan[Back(e)], "answer")'
      /\ \A b : OneFrame(chan[e], OfferFrame(b)) => OneFrame(chan[e], OfferFrame(b))'
      /\ OneFrame(chan[Back(e)], AnswerFrame) => OneFrame(chan[Back(e)], AnswerFrame)'
  BY DEF KeepsOffers, KeepsAnswers, NoFrame, OneFrame, OfferFrame, AnswerFrame, Back
<1> QED
  BY <1>1 DEF Offered

LEMMA EndKept ==
  ASSUME NEW e \in Ends, Joined(e), link'[e] = link[e], link'[Back(e)] = link[Back(e)],
         overtaken => overtaken', faults' = 0 => faults = 0,
         link[e] # "on" => chan'[e] = chan[e],
         ~(link[e] = "on" /\ link[Back(e)] = "on") => (Fresh(e) => Fresh(e)'),
         link[Back(e)] # "on" => KeepsAnswers(chan[e], chan'[e]),
         KeepsWants(chan[e], chan'[e]), KeepsOffers(chan[e], chan'[e]),
         KeepsAnswers(chan[Back(e)], chan'[Back(e)]),
         \/ unsent'[e] # <<>> /\ unsent'[e][Len(unsent'[e])] = ToWire(myWant'[e])
         \/ /\ unsent'[e] = unsent[e] /\ myWant'[e] = myWant[e]
            /\ link[Back(e)] = "on" => /\ peerWant'[Back(e)] = peerWant[Back(e)]
                                       /\ seen'[Back(e)] <=> seen[Back(e)],
         link[Back(e)] = "on" => recv'[e] = recv[e],
         \/ out'[e] = out[e] /\ neg'[e] = neg[e] /\ (e \in pending' <=> e \in pending)
         \/ neg[e] = "idle" /\ neg'[e] = "making"
         \/ neg[e] # "idle" /\ neg'[e] = neg[e] /\ e \in pending'
  PROVE  Joined(e)'
<1>1. CASE link[e] = "on" /\ link[Back(e)] = "on"
  <2>1. ~overtaken' => Told(e)'
    <3> SUFFICES ASSUME ~overtaken' PROVE Told(e)'
      OBVIOUS
    <3>1. Told(e)
      BY <1>1 DEF Joined
    <3> QED
      BY <1>1, <3>1, ToldKept
  <2>2. faults' = 0 => Offered(e)'
    <3> SUFFICES ASSUME faults' = 0 PROVE Offered(e)'
      OBVIOUS
    <3>1. Offered(e)
      BY <1>1 DEF Joined
    <3> QED
      BY <1>1, <3>1, OfferedKept
  <2> QED
    BY <1>1, <2>1, <2>2 DEF Joined, Back
<1>2. CASE link[e] = "on" /\ link[Back(e)] # "on"
  <2>1. Fresh(e)' /\ NoFrame(chan[e], "offer")' /\ NoFrame(chan[e], "answer")'
    BY <1>2 DEF Joined, KeepsOffers, KeepsAnswers, NoFrame
  <2>2. ~overtaken' => Telling(e)'
    <3> SUFFICES ASSUME ~overtaken' PROVE Telling(e)'
      OBVIOUS
    <3>1. Telling(e)
      BY <1>2 DEF Joined
    <3> QED
      BY <3>1, TellingKept
  <2> QED
    BY <1>2, <2>1, <2>2 DEF Joined, Back
<1>3. CASE link[e] # "on"
  BY <1>3 DEF Joined, Back
<1> QED
  BY <1>1, <1>2, <1>3

\* The end of a connection that both have registered.
LEMMA BothOn ==
  ASSUME NEW e \in Ends, link'[e] = "on", link'[Back(e)] = "on",
         ~overtaken' => Told(e)', faults' = 0 => Offered(e)'
  PROVE  Joined(e)'
BY DEF Joined, Back

\* A recomputation at one node, nothing being sent or received.
LEMMA RecomputeStep ==
  ASSUME IInv, RouteInv, NEW n, Recompute(n), UNCHANGED <<link, chan, overtaken>>,
         \A e \in Ends : recv'[e] \subseteq recv[e] /\ (link[Back(e)] = "on" => recv'[e] = recv[e]),
         present' \subseteq Listeners, DOMAIN unsub' = Listeners,
         \A m \in Nodes \ {n} :
           /\ local'[m] = local[m] /\ remote'[m] = remote[m] /\ (m \in right' <=> m \in right)
           /\ Demand(m, present', unsub') = Demand(m, present, unsub)
  PROVE  RouteInv'
<1>1. RecomputeAt({n}, peerWant, seen, {})
  BY DEF Recompute
<1>2. \A e \in Ends : Current(e)'
  BY <1>1, RecomputeCurrent
<1>3. Domains'
  BY <1>1, RecomputeDomains DEF RouteInv, Domains
<1>4. peerWant' = peerWant /\ seen' = seen
  BY <1>1 DEF RecomputeAt, RecomputeWants
<1>5. faults' = 0 => faults = 0
  BY <1>1, RecomputeOut DEF IInv, Channels
<1>6. ASSUME NEW e \in Ends PROVE IsSeq(unsent'[e]) /\ Joined(e)'
  <2>1. /\ IsSeq(unsent'[e])
        /\ \/ unsent'[e] # <<>> /\ unsent'[e][Len(unsent'[e])] = ToWire(myWant'[e])
           \/ unsent'[e] = unsent[e] /\ myWant'[e] = myWant[e]
    BY <1>1, RecomputeTold
  <2>2. Back(e) \in Ends
    BY EndFacts
  <2>3. Fresh(e) => Fresh(e)'
    <3> SUFFICES ASSUME Fresh(e) PROVE Fresh(e)'
      OBVIOUS
    <3>1. ~seen[e] /\ neg[e] = "idle" /\ e \notin pending /\ recv[Back(e)] = {}
      BY DEF Fresh
    <3>2. ~seen'[e] /\ neg'[e] = "idle" /\ e \notin pending'
      BY <1>1, <3>1, RecomputeFresh
    <3>3. recv'[Back(e)] = {}
      BY <2>2, <3>1
    <3> QED
      BY <3>2, <3>3 DEF Fresh, Back
  <2>4. \/ out'[e] = out[e] /\ neg'[e] = neg[e] /\ (e \in pending' <=> e \in pending)
        \/ neg[e] = "idle" /\ neg'[e] = "making"
        \/ neg[e] # "idle" /\ neg'[e] = neg[e] /\ e \in pending'
    BY <1>1, RecomputeOffers
  <2>5. Joined(e)
    BY DEF RouteInv
  <2>6. Joined(e)'
    BY <1>4, <1>5, <2>1, <2>2, <2>3, <2>4, <2>5, Alone, EndKept
  <2> QED
    BY <2>1, <2>6
<1> QED
  BY <1>2, <1>3, <1>6 DEF RouteInv, IsSeq

LEMMA RouteChanges ==
  ASSUME IInv, RouteInv,
         \/ \E k \in Speakers : OnPublishChanged(k)
         \/ \E l \in Listeners : OnPresenceChanged(l) \/ \E k \in Speakers : OnSubscriptionChanged(l, k)
         \/ \E n \in Nodes : OnRightChanged(n)
  PROVE  RouteInv'
<1>0. /\ local \in [Nodes -> SUBSET Speakers] /\ DOMAIN unsub = Listeners /\ present \subseteq Listeners
      /\ \A k \in Speakers : Home[k] \in Nodes
  BY EndFacts DEF IInv, Placed, RouteInv, Domains
<1>1. ASSUME NEW k \in Speakers, OnPublishChanged(k) PROVE RouteInv'
  <2>1. /\ UNCHANGED <<present, unsub, right, remote, link, chan, recv, overtaken>> /\ Recompute(Home[k])
        /\ \A m \in Nodes \ {Home[k]} : local'[m] = local[m]
    BY <1>0, <1>1 DEF OnPublishChanged, ghosts, mediaVars
  <2> QED
    BY <1>0, <2>1, RecomputeStep
<1>2. ASSUME NEW l \in Listeners, OnPresenceChanged(l) PROVE RouteInv'
  <2>1. /\ UNCHANGED <<local, unsub, right, remote, link, chan, recv, overtaken>> /\ Recompute(Seat[l])
        /\ \A x : x # l => (x \in present' <=> x \in present)
        /\ present' \subseteq Listeners
    BY <1>0, <1>2 DEF OnPresenceChanged, ghosts, mediaVars
  <2>2. \A m \in Nodes \ {Seat[l]} : Demand(m, present', unsub') = Demand(m, present, unsub)
    BY <1>0, <2>1, DemandElsewhere
  <2> QED
    BY <1>0, <2>1, <2>2, RecomputeStep
<1>3. ASSUME NEW l \in Listeners, NEW k \in Speakers, OnSubscriptionChanged(l, k) PROVE RouteInv'
  <2>1. /\ UNCHANGED <<local, present, right, remote, link, chan, recv, overtaken>> /\ Recompute(Seat[l])
        /\ DOMAIN unsub' = Listeners
        /\ \A x \in Listeners : x # l => unsub'[x] = unsub[x]
    BY <1>0, <1>3 DEF OnSubscriptionChanged, ghosts, mediaVars
  <2>2. \A m \in Nodes \ {Seat[l]} : Demand(m, present', unsub') = Demand(m, present, unsub)
    BY <1>0, <2>1, DemandElsewhere
  <2> QED
    BY <1>0, <2>1, <2>2, RecomputeStep
<1>4. ASSUME NEW n \in Nodes, OnRightChanged(n) PROVE RouteInv'
  <2>1. /\ UNCHANGED <<local, present, unsub, remote, link, chan, recv, overtaken>> /\ Recompute(n)
        /\ \A m : m # n => (m \in right' <=> m \in right)
    BY <1>4 DEF OnRightChanged, ghosts, mediaVars
  <2> QED
    BY <1>0, <2>1, RecomputeStep
<1> QED
  BY <1>1, <1>2, <1>3, <1>4

\* Steps that leave the demand, the rights and the tables of tracks alone.
LEMMA CurrentKept ==
  ASSUME RouteInv, UNCHANGED <<nodeVars, remote, peerWant, seen, myWant, out>>, faults' = 0 => faults = 0,
         \A e \in Ends : Up(link'[e]) => Up(link[e])
  PROVE  \A e \in Ends : Current(e)'
<1>1. /\ local' = local /\ present' = present /\ unsub' = unsub /\ right' = right
      /\ remote' = remote /\ peerWant' = peerWant /\ seen' = seen /\ myWant' = myWant /\ out' = out
  BY DEF nodeVars
<1>2. ASSUME NEW e \in Ends PROVE Current(e)'
  <2>1. Current(e)
    BY DEF RouteInv
  <2>2. Desired(e[1], e[2], local, remote, right, peerWant, seen)' = Desired(e[1], e[2], local, remote, right, peerWant, seen)
    BY <1>1 DEF Desired, Wants
  <2>3. Demand(e[1], present, unsub)' = Demand(e[1], present, unsub)
    BY <1>1 DEF Demand, LocalDemand, WantNone, WantAllExcept
  <2>4. \A k : AskedAt(e, k)' <=> AskedAt(e, k)
    BY <1>1, <2>3 DEF AskedAt, Wants, Neighbours
  <2>5. \A k : Wants(myWant[e], k)' <=> Wants(myWant[e], k)
    BY <1>1 DEF Wants
  <2>6. Up(link[e])' => Up(link[e])
    BY DEF Up
  <2> QED
    BY <1>1, <2>1, <2>2, <2>4, <2>5, <2>6 DEF Current
<1> QED
  BY <1>2

\* What is left of the wants when one has been sent.
LEMMA WantTaken ==
  ASSUME NEW s, IsSeq(s), NEW i \in 1..Len(s)
  PROVE  /\ IsSeq(RemoveAt(s, i))
         /\ i = 1 => \/ Len(s) = 1 /\ RemoveAt(s, i) = <<>>
                     \/ RemoveAt(s, i) # <<>> /\ RemoveAt(s, i)[Len(RemoveAt(s, i))] = s[Len(s)]
<1>1. PICK S : s \in Seq(S)
  BY DEF IsSeq
<1>2. Len(s) \in Nat
  BY <1>1, LenProperties
<1> DEFINE a == SubSeq(s, 1, i - 1)
           b == SubSeq(s, i + 1, Len(s))
<1>3. a \in Seq(S) /\ b \in Seq(S)
  <2>1. \A m \in 1..(Len(s) + 1), n \in 0..Len(s) : SubSeq(s, m, n) \in Seq(S)
    BY <1>1, SubSeqProperties
  <2>2. 1 \in 1..(Len(s) + 1) /\ i - 1 \in 0..Len(s) /\ i + 1 \in 1..(Len(s) + 1) /\ Len(s) \in 0..Len(s)
    BY <1>2
  <2> QED
    BY <2>1, <2>2
<1>4. RemoveAt(s, i) = a \o b
  BY DEF RemoveAt
<1> HIDE DEF a, b
<1>5. a \o b \in Seq(S)
  BY <1>3, ConcatProperties
<1>6. ASSUME i = 1
      PROVE  \/ Len(s) = 1 /\ RemoveAt(s, i) = <<>>
             \/ RemoveAt(s, i) # <<>> /\ RemoveAt(s, i)[Len(RemoveAt(s, i))] = s[Len(s)]
  <2>1. Len(a) = 0 /\ Len(b) = Len(s) - 1 /\ \A j \in 1..(Len(s) - 1) : b[j] = s[j + 1]
    <3>1. /\ Len(a) = IF 1 <= i - 1 THEN (i - 1) - 1 + 1 ELSE 0
          /\ Len(b) = IF i + 1 <= Len(s) THEN Len(s) - (i + 1) + 1 ELSE 0
          /\ \A j \in 1..(Len(s) - (i + 1) + 1) : b[j] = s[(i + 1) + j - 1]
      BY <1>1, <1>2, SubSeqProperties DEF a, b
    <3>2. \A j \in 1..(Len(s) - 1) : (i + 1) + j - 1 = j + 1
      BY <1>2, <1>6
    <3>3. Len(s) - (i + 1) + 1 = Len(s) - 1 /\ Len(s) >= 1
      BY <1>2, <1>6
    <3>4. ~(1 <= i - 1) /\ (i + 1 <= Len(s) \/ Len(s) - 1 = 0)
      BY <1>2, <1>6
    <3>5. Len(a) = 0 /\ Len(b) = Len(s) - 1
      BY <1>2, <3>1, <3>3, <3>4
    <3>6. \A j \in 1..(Len(s) - 1) : b[j] = s[j + 1]
      BY <3>1, <3>2, <3>3
    <3> QED
      BY <3>5, <3>6
  <2>2. a = <<>>
    BY <1>3, <2>1, EmptySeq
  <2>3. RemoveAt(s, i) = b
    BY <1>3, <1>4, <2>2, ConcatEmptySeq
  <2>4. CASE Len(s) = 1
    BY <1>3, <2>1, <2>3, <2>4, EmptySeq
  <2>5. CASE Len(s) # 1
    <3>1. Len(b) \in 1..(Len(s) - 1) /\ Len(b) # 0 /\ Len(b) + 1 = Len(s)
      BY <1>2, <2>1, <2>5
    <3>2. b[Len(b)] = s[Len(s)] /\ b # <<>>
      BY <2>1, <3>1, EmptySeq
    <3> QED
      BY <2>3, <3>2
  <2> QED
    BY <2>4, <2>5
<1> QED
  BY <1>4, <1>5, <1>6 DEF IsSeq

LEMMA ChannelFacts ==
  ASSUME IInv
  PROVE  /\ \A e \in Ends : IsSeq(chan[e]) /\ Back(e) \in Ends /\ Back(e) # e /\ Back(Back(e)) = e
         /\ \A e, x \in Ends : Back(e) = Back(x) => e = x
         /\ DOMAIN chan = Ends /\ DOMAIN recv = Ends /\ DOMAIN link = Ends /\ faults \in Nat
<1>1. \A e \in Ends : Back(Back(e)) = e
  BY EndFacts DEF Back
<1> QED
  BY <1>1, EndFacts DEF IInv, Channels

\* A want goes out; the one that was decided on last goes out last.
LEMMA RouteSendWant ==
  ASSUME IInv, RouteInv, NEW e \in Ends, NEW i \in 1..Len(unsent[e]), SendWant(e, i)
  PROVE  RouteInv'
<1> DEFINE f == WantFrame(unsent[e][i])
<1>1. /\ DOMAIN unsent = Ends /\ unsent' = [unsent EXCEPT ![e] = RemoveAt(@, i)]
      /\ DOMAIN chan = Ends
      /\ chan' = IF link[e] = "on" THEN [chan EXCEPT ![e] = Append(@, f)] ELSE chan
      /\ (overtaken' <=> overtaken \/ i > 1) /\ faults' = faults /\ link' = link
      /\ UNCHANGED <<nodeVars, peerWant, seen, myWant, out, neg, pending, remote, recv>>
  BY DEF SendWant, Send, WantFrame, RouteInv, Domains, IInv, Channels, trackVars, mediaVars
<1>2. \A x \in Ends : Current(x)'
  BY <1>1, CurrentKept
<1>3. Domains'
  BY <1>1 DEF Domains, RouteInv, nodeVars
<1>4. \A x \in Ends : IsSeq(unsent'[x])
  BY <1>1, WantTaken DEF RouteInv
<1>5. f.t = "want"
  BY FrameKinds
<1>6. ASSUME NEW x \in Ends
      PROVE  /\ KeepsOffers(chan[x], chan'[x]) /\ KeepsAnswers(chan[x], chan'[x])
             /\ x # e => chan'[x] = chan[x]
             /\ Fresh(x) => Fresh(x)'
  <2>1. KeepsOffers(chan[x], chan'[x]) /\ KeepsAnswers(chan[x], chan'[x])
    BY <1>1, <1>5, ChannelFacts, Sending, Alone
  <2> QED
    BY <1>1, <2>1 DEF Fresh, Back
<1>7. ASSUME NEW x \in Ends, x # e PROVE Joined(x)'
  <2>1. Joined(x) /\ Back(x) \in Ends
    BY ChannelFacts DEF RouteInv
  <2> QED
    BY <1>1, <1>6, <1>7, <2>1, Alone, EndKept
<1>8. Joined(e)'
  <2> DEFINE w == ToWire(myWant[e])
  <2>1. Joined(e) /\ Back(e) \in Ends /\ Back(e) # e
    BY ChannelFacts DEF RouteInv
  <2>2. ASSUME ~overtaken', link[e] = "on" PROVE Telling(e)'
    <3>1. ~overtaken /\ i = 1
      BY <1>1, <2>2
    <3>2. unsent[e] # <<>>
      BY EmptySeq DEF RouteInv, IsSeq
    <3>3. Telling(e) \/ Told(e)
      BY <2>1, <2>2, <3>1 DEF Joined
    <3>4. unsent[e][Len(unsent[e])] = w /\ IsSeq(unsent[e])
      BY <3>2, <3>3 DEF RouteInv, Told, Telling
    <3>5. CASE Len(unsent[e]) = 1 /\ unsent'[e] = <<>>
      <4>1. f = WantFrame(w)
        BY <3>1, <3>4, <3>5
      <4>2. LastFrame(chan'[e], WantFrame(w))
        BY <1>1, <2>2, <4>1, ChannelFacts, FrameAdded
      <4> QED
        BY <1>1, <3>5, <4>2 DEF Telling, ToWire, WantFrame, LastFrame
    <3>6. CASE unsent'[e] # <<>> /\ unsent'[e][Len(unsent'[e])] = w
      BY <1>1, <3>6 DEF Telling, ToWire
    <3> QED
      BY <1>1, <3>1, <3>4, <3>5, <3>6, WantTaken
  <2>3. ASSUME link[e] = "on", link[Back(e)] = "on", faults' = 0 PROVE Offered(e)'
    <3>1. Offered(e)
      BY <1>1, <2>1, <2>3 DEF Joined
    <3> QED
      BY <1>1, <1>6, <2>1, <3>1, Alone, OfferedKept
  <2>4. CASE link[e] = "on" /\ link[Back(e)] = "on"
    BY <1>1, <2>2, <2>3, <2>4, BothOn DEF Told
  <2>5. CASE link[e] = "on" /\ link[Back(e)] # "on"
    <3>1. Fresh(e) /\ NoFrame(chan[e], "offer") /\ NoFrame(chan[e], "answer")
      BY <2>1, <2>5 DEF Joined
    <3>2. Fresh(e)' /\ NoFrame(chan[e], "offer")' /\ NoFrame(chan[e], "answer")'
      BY <1>6, <3>1 DEF KeepsOffers, KeepsAnswers, NoFrame
    <3> QED
      BY <1>1, <2>1, <2>2, <2>5, <3>2 DEF Joined, Back
  <2>6. CASE link[e] # "on"
    BY <1>1, <1>6, <2>1, <2>6 DEF Joined, Back
  <2> QED
    BY <2>4, <2>5, <2>6
<1> QED
  BY <1>2, <1>3, <1>4, <1>7, <1>8 DEF RouteInv, IsSeq

\* Offers that are made, or fail.
LEMMA RouteNegotiate ==
  ASSUME IInv, RouteInv, NEW e \in Ends, DoNegotiateSend(e) \/ NegotiationFails(e)
  PROVE  RouteInv'
<1> DEFINE f == OfferFrame(out[e])
           back == Back(e)
<1>1. /\ UNCHANGED <<nodeVars, peerWant, seen, myWant, out, pending, unsent, remote, recv, link, overtaken>>
      /\ DOMAIN chan = Ends /\ DOMAIN neg = Ends /\ neg[e] = "making"
      /\ \/ /\ neg' = [neg EXCEPT ![e] = "waiting"] /\ faults' = faults
            /\ chan' = IF link[e] = "on" THEN [chan EXCEPT ![e] = Append(@, f)] ELSE chan
         \/ neg' = [neg EXCEPT ![e] = "idle"] /\ faults' = faults + 1 /\ chan' = chan
  BY DEF DoNegotiateSend, NegotiationFails, Fault, Send, OfferFrame, RouteInv, Domains, IInv, Channels,
         wantVars, mediaVars, ghosts
<1>2. /\ back \in Ends /\ back # e /\ Back(back) = e /\ IsSeq(chan[e]) /\ faults \in Nat
      /\ \A x \in Ends : Back(x) \in Ends
      /\ Joined(e)
  BY ChannelFacts DEF RouteInv
<1>3. f.t = "offer"
  BY FrameKinds
<1>4. faults' = 0 => faults = 0
  BY <1>1, <1>2
<1>5. \A x \in Ends : Current(x)'
  BY <1>1, <1>4, CurrentKept
<1>6. Domains'
  BY <1>1 DEF Domains, RouteInv, nodeVars
<1>7. ASSUME NEW x \in Ends
      PROVE  KeepsWants(chan[x], chan'[x]) /\ KeepsAnswers(chan[x], chan'[x]) /\ (x # e => chan'[x] = chan[x])
  <2>1. KeepsWants(chan[e], Append(chan[e], f)) /\ KeepsAnswers(chan[e], Append(chan[e], f))
    BY <1>2, <1>3, Sending
  <2> HIDE DEF f
  <2>2. chan'[x] = chan[x] \/ (x = e /\ chan'[x] = Append(chan[e], f))
    BY <1>1
  <2> QED
    BY <2>1, <2>2, Alone
<1> HIDE DEF f
<1>8. ASSUME NEW x \in Ends, x # e PROVE Joined(x)'
  <2>1. Joined(x) /\ Back(x) \in Ends
    BY <1>2 DEF RouteInv
  <2>2. Fresh(x) => Fresh(x)'
    BY <1>1, <1>8 DEF Fresh, Back
  <2>3. neg'[x] = neg[x]
    BY <1>1, <1>8
  <2> QED
    BY <1>1, <1>4, <1>7, <1>8, <2>1, <2>2, <2>3, Alone, EndKept
<1>9. Joined(e)'
  <2>1. ~Fresh(e)
    BY <1>1 DEF Fresh
  <2>2. CASE link[e] # "on"
    BY <1>1, <1>2, <2>1, <2>2 DEF Joined, Back
  <2>3. CASE link[e] = "on"
    <3>1. link[back] = "on"
      BY <1>2, <2>1, <2>3 DEF Joined
    <3>2. ASSUME ~overtaken' PROVE Told(e)'
      <4>1. Told(e)
        BY <1>1, <1>2, <2>3, <3>1, <3>2 DEF Joined
      <4> QED
        BY <1>1, <1>7, <4>1, ToldKept
    <3>3. ASSUME faults' = 0 PROVE Offered(e)'
      <4>1. /\ neg' = [neg EXCEPT ![e] = "waiting"] /\ faults = 0
            /\ chan' = [chan EXCEPT ![e] = Append(@, f)]
        BY <1>1, <1>2, <2>3, <3>3
      <4>2. Offered(e)
        BY <1>2, <2>3, <3>1, <4>1 DEF Joined
      <4>3. NoFrame(chan[e], "offer") /\ NoFrame(chan[back], "answer")
        BY <1>1, <4>2 DEF Offered
      <4>4. OneFrame(Append(chan[e], f), f)
        BY <1>2, <1>3, <4>3, FrameAdded
      <4>5. OneFrame(chan'[e], f) /\ chan'[back] = chan[back]
        BY <1>1, <1>2, <4>1, <4>4
      <4>6. NoFrame(chan[Back(e)], "answer")'
        BY <4>3, <4>5 DEF NoFrame, Back
      <4>7. OneFrame(chan[e], OfferFrame(out[e]))'
        BY <1>1, <4>5 DEF OneFrame, OfferFrame, f
      <4>8. neg'[e] = "waiting"
        BY <1>1, <4>1
      <4> QED
        BY <4>6, <4>7, <4>8 DEF Offered
    <3> QED
      BY <1>1, <2>3, <3>1, <3>2, <3>3, BothOn
  <2> QED
    BY <2>2, <2>3
<1> QED
  BY <1>1, <1>5, <1>6, <1>8, <1>9 DEF RouteInv, IsSeq

\* What arrives, arrives at the end of a connection that both have registered.
LEMMA ArrivesOn ==
  ASSUME IInv, RouteInv, NEW e \in Ends, NEW t, Arrives(e, t)
  PROVE  /\ link[e] = "on" /\ link[Back(e)] = "on" /\ chan[e] # <<>> /\ Head(chan[e]).t = t
         /\ ~overtaken => Told(e) /\ Told(Back(e))
         /\ faults = 0 => Offered(e) /\ Offered(Back(e))
<1>1. /\ link[Back(e)] = "on" /\ chan[e] # <<>> /\ Head(chan[e]).t = t
      /\ Joined(e) /\ Joined(Back(e)) /\ Back(Back(e)) = e
  BY ChannelFacts DEF Arrives, RouteInv
<1>2. link[e] = "on"
  BY <1>1 DEF Joined
<1> QED
  BY <1>1, <1>2 DEF Joined

\* An offer arrives: the neighbour has the tracks, and its answer is under way,
\* or it fails.
LEMMA RouteRemoteOffer ==
  ASSUME IInv, RouteInv, NEW e \in Ends, HandleRemoteOffer(e) \/ RemoteOfferFails(e)
  PROVE  RouteInv'
<1> DEFINE h == Head(chan[e])
           back == Back(e)
<1>1. /\ UNCHANGED <<nodeVars, peerWant, seen, myWant, out, neg, pending, unsent, remote, link, overtaken>>
      /\ Arrives(e, "offer")
      /\ \/ /\ recv' = [recv EXCEPT ![e] = h.body] /\ faults' = faults
            /\ chan' = [chan EXCEPT ![e] = Tail(@), ![back] = Append(@, AnswerFrame)]
         \/ /\ recv' = recv \/ recv' = [recv EXCEPT ![e] = h.body]
            /\ chan' = [chan EXCEPT ![e] = Tail(@)] /\ faults' = faults + 1
  BY DEF HandleRemoteOffer, RemoteOfferFails, Fault, Body, AnswerFrame, endVars, wantVars, trackVars, mediaVars, ghosts
<1>2. /\ DOMAIN chan = Ends /\ DOMAIN recv = Ends /\ back \in Ends /\ back # e /\ Back(back) = e
      /\ IsSeq(chan[e]) /\ IsSeq(chan[back]) /\ faults \in Nat
      /\ \A x \in Ends : Back(x) \in Ends /\ (Back(x) = e => x = back) /\ (Back(x) = back => x = e)
  BY ChannelFacts
<1>3. /\ link[e] = "on" /\ link[back] = "on" /\ chan[e] # <<>> /\ h.t = "offer"
      /\ ~overtaken => Told(e)
      /\ faults = 0 => Offered(e)
  BY <1>1, ArrivesOn
<1> HIDE DEF back
<1>4. /\ chan'[e] = Tail(chan[e]) /\ (chan'[back] = Append(chan[back], AnswerFrame) \/ chan'[back] = chan[back])
      /\ \A x \in Ends : x # e /\ x # back => chan'[x] = chan[x]
      /\ \A x \in Ends : x # e => recv'[x] = recv[x]
      /\ DOMAIN chan' = Ends /\ DOMAIN recv' = Ends
  BY <1>1, <1>2
<1>5. faults' = 0 => /\ faults = 0 /\ recv'[e] = h.body
                     /\ chan'[back] = Append(chan[back], AnswerFrame)
  BY <1>1, <1>2
<1>6. \A x \in Ends : Current(x)'
  BY <1>1, <1>5, CurrentKept
<1>7. Domains'
  BY <1>1 DEF Domains, RouteInv, nodeVars
<1>8. ASSUME NEW x \in Ends PROVE KeepsWants(chan[x], chan'[x])
  <2>1. KeepsWants(chan[e], Tail(chan[e]))
    BY <1>2, <1>3, Taking
  <2>2. KeepsWants(chan[back], Append(chan[back], AnswerFrame))
    BY <1>2, Sending, FrameKinds
  <2> QED
    BY <1>4, <2>1, <2>2, Alone
<1>9. ASSUME NEW x \in Ends, x # e PROVE Joined(x)'
  <2>1. KeepsOffers(chan[x], chan'[x])
    <3>1. KeepsOffers(chan[back], Append(chan[back], AnswerFrame))
      BY <1>2, Sending, FrameKinds
    <3> QED
      BY <1>4, <1>9, <3>1, Alone
  <2>2. KeepsAnswers(chan[Back(x)], chan'[Back(x)])
    <3>1. KeepsAnswers(chan[e], chan'[e])
      BY <1>2, <1>3, <1>4, Taking
    <3>2. Back(x) # back /\ Back(x) \in Ends
      BY <1>2, <1>9
    <3> QED
      BY <1>4, <3>1, <3>2, Alone
  <2>3. ASSUME ~(link[x] = "on" /\ link[Back(x)] = "on")
        PROVE  (Fresh(x) => Fresh(x)') /\ chan'[x] = chan[x]
    <3>1. x # back /\ Back(x) # e /\ Back(x) \in Ends
      BY <1>2, <1>3, <2>3
    <3> QED
      BY <1>1, <1>4, <1>9, <3>1 DEF Fresh, Back
  <2>4. Joined(x) /\ Back(x) \in Ends
    BY <1>2 DEF RouteInv
  <2> QED
    BY <1>1, <1>4, <1>5, <1>8, <1>9, <2>1, <2>2, <2>3, <2>4, Alone, EndKept
<1>10. ASSUME ~overtaken' PROVE Told(e)'
  BY <1>1, <1>3, <1>8, <1>10, ToldKept
<1>11. ASSUME faults' = 0 PROVE Offered(e)'
  <2>1. ~NoFrame(chan[e], "offer")
    BY <1>2, <1>3, FrameRemoved
  <2>2. Offered(e)
    BY <1>3, <1>5, <1>11
  <2>3. /\ neg[e] = "waiting" /\ NoFrame(chan[back], "answer")
        /\ \E b : OneFrame(chan[e], OfferFrame(b)) /\ (e \notin pending => b = out[e])
    BY <2>1, <2>2 DEF Offered, back
  <2>4. PICK b : OneFrame(chan[e], OfferFrame(b)) /\ (e \notin pending => b = out[e])
    BY <2>3
  <2>5. h = OfferFrame(b) /\ NoFrame(chan'[e], "offer")
    <3>1. OfferFrame(b).t = "offer"
      BY FrameKinds
    <3>2. \/ h = OfferFrame(b) /\ NoFrame(Tail(chan[e]), OfferFrame(b).t)
          \/ h.t # OfferFrame(b).t
      BY <1>2, <1>3, <2>4, FrameRemoved
    <3> QED
      BY <1>3, <1>4, <3>1, <3>2
  <2>6. recv'[e] = b
    BY <1>5, <1>11, <2>5, FrameKinds
  <2>7. OneFrame(chan'[back], AnswerFrame)
    <3>1. NoFrame(chan[back], AnswerFrame.t)
      BY <2>3, FrameKinds
    <3>2. OneFrame(Append(chan[back], AnswerFrame), AnswerFrame)
      BY <1>2, <3>1, FrameAdded
    <3> QED
      BY <1>5, <1>11, <3>2
  <2>8. neg'[e] = "waiting" /\ (e \notin pending' => recv'[e] = out'[e])
    BY <1>1, <2>3, <2>4, <2>6
  <2> QED
    BY <2>5, <2>7, <2>8 DEF Offered, NoFrame, OneFrame, AnswerFrame, back, Back
<1>12. Joined(e)'
  <2>1. link'[e] = "on" /\ link'[Back(e)] = "on"
    BY <1>1, <1>3 DEF back
  <2> QED
    BY <1>10, <1>11, <2>1, BothOn
<1> QED
  BY <1>1, <1>6, <1>7, <1>9, <1>12 DEF RouteInv, IsSeq

\* An answer arrives: the negotiation is over, or starts again.
LEMMA RouteAnswer ==
  ASSUME IInv, RouteInv, NEW e \in Ends, HandleAnswer(e) \/ AnswerRefused(e)
  PROVE  RouteInv'
<1> DEFINE h == Head(chan[e])
           back == Back(e)
<1>1. /\ UNCHANGED <<nodeVars, peerWant, seen, myWant, out, unsent, remote, link, overtaken>>
      /\ Arrives(e, "answer")
      /\ neg' = [neg EXCEPT ![back] = IF back \in pending THEN "making" ELSE "idle"]
      /\ pending' = pending \ {back} /\ chan' = [chan EXCEPT ![e] = Tail(@)]
      /\ \/ recv' = recv /\ faults' = faults
         \/ (\E lost : recv' = [recv EXCEPT ![back] = @ \ lost]) /\ faults' = faults + 1
  BY DEF HandleAnswer, AnswerRefused, Answered, Fault, wantVars, mediaVars, ghosts
<1>2. /\ DOMAIN chan = Ends /\ DOMAIN recv = Ends /\ DOMAIN neg = Ends /\ faults \in Nat
      /\ back \in Ends /\ back # e /\ Back(back) = e /\ IsSeq(chan[e])
      /\ \A x \in Ends : Back(x) \in Ends /\ (Back(x) = e => x = back) /\ (Back(x) = back => x = e)
  BY ChannelFacts DEF RouteInv, Domains
<1>3. /\ link[e] = "on" /\ link[back] = "on" /\ chan[e] # <<>> /\ h.t = "answer"
      /\ ~overtaken => Told(back)
      /\ faults = 0 => Offered(back)
  BY <1>1, ArrivesOn
<1> HIDE DEF back
<1>4. /\ chan'[e] = Tail(chan[e]) /\ \A x \in Ends : x # e => chan'[x] = chan[x]
      /\ \A x \in Ends : x # back => recv'[x] = recv[x] /\ neg'[x] = neg[x] /\ (x \in pending' <=> x \in pending)
      /\ DOMAIN neg' = Ends
  BY <1>1, <1>2
<1>5. faults' = 0 => faults = 0 /\ recv' = recv
  BY <1>1, <1>2
<1>6. \A x \in Ends : Current(x)'
  BY <1>1, <1>5, CurrentKept
<1>7. Domains'
  BY <1>1, <1>4 DEF Domains, RouteInv, nodeVars
<1>8. ASSUME NEW x \in Ends PROVE KeepsWants(chan[x], chan'[x]) /\ KeepsOffers(chan[x], chan'[x])
  <2>1. KeepsWants(chan[e], Tail(chan[e])) /\ KeepsOffers(chan[e], Tail(chan[e]))
    BY <1>2, <1>3, Taking
  <2> QED
    BY <1>4, <2>1, Alone
<1>9. ASSUME NEW x \in Ends, x # back PROVE Joined(x)'
  <2>1. KeepsAnswers(chan[Back(x)], chan'[Back(x)])
    BY <1>2, <1>4, <1>9, Alone
  <2>2. ASSUME ~(link[x] = "on" /\ link[Back(x)] = "on")
        PROVE  (Fresh(x) => Fresh(x)') /\ chan'[x] = chan[x]
    <3>1. x # e /\ Back(x) # back /\ Back(x) \in Ends
      BY <1>2, <1>3, <2>2 DEF back
    <3> QED
      BY <1>1, <1>4, <1>9, <3>1 DEF Fresh, Back
  <2>3. Joined(x) /\ Back(x) \in Ends
    BY <1>2 DEF RouteInv
  <2> QED
    BY <1>1, <1>4, <1>5, <1>8, <1>9, <2>1, <2>2, <2>3, Alone, EndKept
<1>10. ASSUME ~overtaken' PROVE Told(back)'
  <2>1. peerWant'[Back(back)] = peerWant[Back(back)] /\ (seen'[Back(back)] <=> seen[Back(back)])
    BY <1>1
  <2>2. Told(back) /\ unsent'[back] = unsent[back] /\ myWant'[back] = myWant[back]
    BY <1>1, <1>3, <1>10
  <2> QED
    BY <1>2, <1>8, <2>1, <2>2, ToldKept
<1>11. ASSUME faults' = 0 PROVE Offered(back)'
  <2>1. ~NoFrame(chan[e], "answer")
    BY <1>2, <1>3, FrameRemoved
  <2>2. Offered(back) /\ recv' = recv
    BY <1>3, <1>5, <1>11
  <2>3. /\ neg[back] = "waiting" /\ NoFrame(chan[back], "offer")
        /\ OneFrame(chan[e], AnswerFrame) /\ (back \notin pending => recv[back] = out[back])
    BY <1>2, <2>1, <2>2 DEF Offered
  <2>4. NoFrame(chan'[e], "answer") /\ NoFrame(chan'[back], "offer")
    BY <1>2, <1>3, <1>4, <2>3, FrameRemoved, FrameKinds
  <2>5. /\ back \notin pending'
        /\ neg'[back] = "making" \/ (neg'[back] = "idle" /\ recv'[back] = out'[back])
    BY <1>1, <1>2, <2>2, <2>3
  <2> QED
    BY <1>2, <2>4, <2>5 DEF Offered, NoFrame
<1>12. Joined(back)'
  <2>1. link'[back] = "on" /\ link'[Back(back)] = "on"
    BY <1>1, <1>2, <1>3
  <2> QED
    BY <1>2, <1>10, <1>11, <2>1, BothOn
<1> QED
  BY <1>1, <1>2, <1>6, <1>7, <1>9, <1>12 DEF RouteInv, IsSeq

\* A want arrives: the last one sent is what the neighbour knows.
LEMMA RoutePeerWant ==
  ASSUME IInv, RouteInv, NEW e \in Ends, OnPeerWant(e)
  PROVE  RouteInv'
<1> DEFINE h == Head(chan[e])
           back == Back(e)
           pw == [peerWant EXCEPT ![back] = FromWire(h.body)]
           sn == [seen EXCEPT ![back] = TRUE]
<1>1. /\ UNCHANGED <<local, present, unsub, right, remote, recv, link, overtaken>>
      /\ Arrives(e, "want") /\ chan' = [chan EXCEPT ![e] = Tail(@)]
      /\ RecomputeAt({e[2]}, pw, sn, {})
  BY DEF OnPeerWant, Body, nodeVars, mediaVars, ghosts
<1>2. /\ DOMAIN chan = Ends /\ DOMAIN recv = Ends /\ DOMAIN peerWant = Ends /\ DOMAIN seen = Ends
      /\ back \in Ends /\ back # e /\ back[1] = e[2] /\ Back(back) = e /\ IsSeq(chan[e]) /\ faults \in Nat
      /\ \A x \in Ends : Back(x) \in Ends /\ (Back(x) = back => x = e) /\ (Back(x) = e => x = back)
      /\ present \subseteq Listeners /\ DOMAIN unsub = Listeners
  BY ChannelFacts, EndFacts DEF RouteInv, Domains
<1>3. /\ link[e] = "on" /\ link[back] = "on" /\ chan[e] # <<>> /\ h.t = "want"
      /\ ~overtaken => Told(e)
      /\ faults = 0 => Offered(e)
  BY <1>1, ArrivesOn
<1> HIDE DEF back
<1>4. /\ chan'[e] = Tail(chan[e]) /\ \A x \in Ends : x # e => chan'[x] = chan[x]
      /\ DOMAIN chan' = Ends /\ DOMAIN pw = Ends /\ DOMAIN sn = Ends
      /\ pw[back] = FromWire(h.body) /\ sn[back]
      /\ \A x \in Ends : x # back => pw[x] = peerWant[x] /\ sn[x] = seen[x]
  BY <1>1, <1>2
<1> HIDE DEF pw, sn
<1>5. \A x \in Ends : Current(x)'
  <2>1. \A n \in Nodes : Demand(n, present', unsub') = Demand(n, present, unsub)
    BY <1>1
  <2>2. \A x \in Ends : x[1] \notin {e[2]} => pw[x] = peerWant[x] /\ sn[x] = seen[x]
    BY <1>2, <1>4
  <2> QED
    BY <1>1, <2>1, <2>2, RecomputeCurrent
<1>6. Domains'
  BY <1>1, <1>2, <1>4, RecomputeDomains
<1>7. peerWant' = pw /\ seen' = sn
  BY <1>1 DEF RecomputeAt, RecomputeWants
<1>8. faults' = 0 => faults = 0
  BY <1>1, <1>2, RecomputeOut
<1>9. ASSUME NEW x \in Ends
      PROVE  /\ IsSeq(unsent'[x])
             /\ \/ unsent'[x] # <<>> /\ unsent'[x][Len(unsent'[x])] = ToWire(myWant'[x])
                \/ unsent'[x] = unsent[x] /\ myWant'[x] = myWant[x]
             /\ \/ out'[x] = out[x] /\ neg'[x] = neg[x] /\ (x \in pending' <=> x \in pending)
                \/ neg[x] = "idle" /\ neg'[x] = "making"
                \/ neg[x] # "idle" /\ neg'[x] = neg[x] /\ x \in pending'
             /\ KeepsOffers(chan[x], chan'[x]) /\ KeepsAnswers(chan[x], chan'[x])
  <2>1. KeepsOffers(chan[x], chan'[x]) /\ KeepsAnswers(chan[x], chan'[x])
    <3>1. KeepsOffers(chan[e], Tail(chan[e])) /\ KeepsAnswers(chan[e], Tail(chan[e]))
      BY <1>2, <1>3, Taking
    <3> QED
      BY <1>4, <3>1, Alone
  <2> QED
    BY <1>1, <2>1, RecomputeTold, RecomputeOffers
<1>10. ASSUME NEW x \in Ends, x # e PROVE Joined(x)'
  <2>1. peerWant'[Back(x)] = peerWant[Back(x)] /\ seen'[Back(x)] = seen[Back(x)] /\ chan'[x] = chan[x]
    BY <1>2, <1>4, <1>7, <1>10
  <2>2. ASSUME ~(link[x] = "on" /\ link[Back(x)] = "on"), Fresh(x) PROVE Fresh(x)'
    <3>1. x # back
      BY <1>2, <1>3, <2>2
    <3>2. ~seen[x] /\ neg[x] = "idle" /\ x \notin pending /\ recv[Back(x)] = {} /\ ~sn[x]
      BY <1>4, <2>2, <3>1 DEF Fresh
    <3>3. ~seen'[x] /\ neg'[x] = "idle" /\ x \notin pending'
      BY <1>1, <3>2, RecomputeFresh
    <3> QED
      BY <1>1, <3>2, <3>3 DEF Fresh, Back
  <2>3. Joined(x) /\ Back(x) \in Ends /\ recv'[x] = recv[x] /\ link' = link /\ overtaken' = overtaken
    BY <1>1, <1>2 DEF RouteInv
  <2> QED
    BY <1>8, <1>9, <1>10, <2>1, <2>2, <2>3, Alone, EndKept
<1>11. ASSUME ~overtaken' PROVE Told(e)'
  <2>1. CASE unsent'[e] # <<>> /\ unsent'[e][Len(unsent'[e])] = ToWire(myWant'[e])
    BY <2>1 DEF Told, Telling, ToWire
  <2>2. CASE unsent'[e] = unsent[e] /\ myWant'[e] = myWant[e]
    <3> DEFINE w == ToWire(myWant[e])
    <3>1. Told(e)
      BY <1>1, <1>3, <1>11
    <3>2. ~NoFrame(chan[e], "want")
      BY <1>2, <1>3, FrameRemoved
    <3>3. CASE unsent[e] # <<>> /\ unsent[e][Len(unsent[e])] = w
      BY <2>2, <3>3 DEF Told, Telling, ToWire
    <3>4. CASE unsent[e] = <<>> /\ LastFrame(chan[e], WantFrame(w))
      <4>1. CASE h = WantFrame(w) /\ NoFrame(chan'[e], "want")
        <5>1. peerWant'[back] = FromWire(w) /\ seen'[back]
          BY <1>4, <1>7, <4>1, FrameKinds
        <5>2. \A k : Wants(peerWant'[back], k) <=> Wants(myWant'[e], k)
          BY <2>2, <5>1, WireExact
        <5> QED
          BY <2>2, <3>4, <4>1, <5>1, <5>2 DEF Told, NoFrame, Wants, back, Back
      <4>2. CASE LastFrame(chan'[e], WantFrame(w))
        BY <2>2, <3>4, <4>2 DEF Told, Telling, LastFrame, WantFrame, ToWire
      <4> QED
        BY <1>2, <1>3, <1>4, <3>4, <4>1, <4>2, FrameRemoved, FrameKinds
    <3> QED
      BY <3>1, <3>2, <3>3, <3>4 DEF Told, Telling
  <2> QED
    BY <1>9, <2>1, <2>2
<1>12. ASSUME faults' = 0 PROVE Offered(e)'
  <2>1. Offered(e) /\ recv'[e] = recv[e]
    BY <1>1, <1>3, <1>8, <1>12
  <2>2. KeepsAnswers(chan[Back(e)], chan'[Back(e)])
    BY <1>2, <1>9
  <2> QED
    BY <1>9, <2>1, <2>2, OfferedKept
<1>13. Joined(e)'
  <2>1. link'[e] = "on" /\ link'[Back(e)] = "on"
    BY <1>1, <1>3 DEF back
  <2> QED
    BY <1>11, <1>12, <2>1, BothOn
<1> QED
  BY <1>5, <1>6, <1>9, <1>10, <1>13 DEF RouteInv, IsSeq


\* Steps that only count, or refuse a track.
LEMMA RouteStutter ==
  ASSUME RouteInv, UNCHANGED <<nodeVars, peerWant, seen, myWant, out, neg, pending, unsent, remote, link,
                               chan, recv, faults, overtaken>>
  PROVE  RouteInv'
<1>1. \A e \in Ends : Current(e)'
  BY CurrentKept
<1>2. ASSUME NEW e \in Ends PROVE Joined(e)'
  <2>1. Joined(e) /\ (Fresh(e) => Fresh(e)')
    BY DEF RouteInv, Fresh, Back
  <2> QED
    BY <2>1, Alone, EndKept
<1>3. Domains'
  BY DEF RouteInv, Domains, nodeVars
<1> QED
  BY <1>1, <1>2, <1>3 DEF RouteInv, IsSeq

\* Tracks that arrive or end, of the registered session or of a superseded one.
LEMMA RouteTracks ==
  ASSUME IInv, RouteInv, NEW e \in Ends, NEW k \in Speakers,
         OnRemoteTrack(e, k) \/ OnRemoteSpeakerEnded(e, k)
  PROVE  RouteInv'
<1>1. CASE OnRemoteTrack(e, k) /\ (k \in local[e[2]] \/ remote[e[2]][k] # 0)
  <2>1. UNCHANGED <<nodeVars, peerWant, seen, myWant, out, neg, pending, unsent, remote, link,
                    chan, recv, faults, overtaken>>
    BY <1>1 DEF OnRemoteTrack, wantVars, trackVars
  <2> QED
    BY <2>1, RouteStutter
<1>2. CASE ~(OnRemoteTrack(e, k) /\ (k \in local[e[2]] \/ remote[e[2]][k] # 0))
  <2>1. /\ UNCHANGED <<local, present, unsub, right, link, chan, overtaken>> /\ Recompute(e[2])
        /\ \E v : remote' = [remote EXCEPT ![e[2]][k] = v]
        /\ \/ recv' = recv
           \/ recv' = [recv EXCEPT ![e] = @ \ {k}] /\ (k \notin recv[e] \/ link[Back(e)] # "on")
    <3>1. CASE OnRemoteTrack(e, k)
      BY <1>2, <3>1 DEF OnRemoteTrack, nodeVars
    <3>2. CASE OnRemoteSpeakerEnded(e, k)
      <4>1. e[1] # -e[1]
        BY EndFacts, PlaceAssumption DEF Nodes
      <4> QED
        BY <3>2, <4>1 DEF OnRemoteSpeakerEnded, nodeVars, ghosts
    <3> QED
      BY <3>1, <3>2
  <2>2. \A m \in Nodes \ {e[2]} : remote'[m] = remote[m]
    BY <2>1 DEF IInv, Placed
  <2>3. \A m \in Nodes : Demand(m, present', unsub') = Demand(m, present, unsub)
    BY <2>1
  <2>4. \A x \in Ends : recv'[x] \subseteq recv[x] /\ (link[Back(x)] = "on" => recv'[x] = recv[x])
    BY <2>1, ChannelFacts
  <2> QED
    BY <2>1, <2>2, <2>3, <2>4, RecomputeStep DEF RouteInv, Domains
<1> QED
  BY <1>1, <1>2

\* A superseded session is closed at last.
LEMMA RouteSuperseded ==
  ASSUME IInv, RouteInv, NEW e \in Ends, CloseSuperseded(e)
  PROVE  RouteInv'
<1>1. /\ UNCHANGED <<local, present, unsub, right, link, chan, recv, overtaken>> /\ Recompute(e[1])
      /\ remote' = FromElse(e[1], -e[2], 0)
  BY DEF CloseSuperseded, nodeVars, mediaVars, ghosts
<1>2. \A m \in Nodes \ {e[1]} : remote'[m] = remote[m]
  BY <1>1 DEF IInv, Placed, FromElse
<1>3. \A m \in Nodes : Demand(m, present', unsub') = Demand(m, present, unsub)
  BY <1>1
<1>4. \A x \in Ends : recv'[x] \subseteq recv[x] /\ (link[Back(x)] = "on" => recv'[x] = recv[x])
  BY <1>1
<1> QED
  BY <1>1, <1>2, <1>3, <1>4, RecomputeStep DEF RouteInv, Domains

\* A connection breaks, or a new one waits for its ends to register it.
LEMMA RouteConnection ==
  ASSUME IInv, RouteInv, NEW e \in Ends, Cut(e) \/ Dial(e)
  PROVE  RouteInv'
<1> DEFINE back == Back(e)
<1>1. /\ UNCHANGED <<nodeVars, peerWant, seen, myWant, out, neg, pending, unsent, remote, recv, faults, overtaken>>
      /\ \/ /\ Cut(e) /\ link' = [link EXCEPT ![e] = "dead", ![back] = "dead"]
            /\ chan' = [chan EXCEPT ![e] = <<>>, ![back] = <<>>]
            /\ link[e] = "on" /\ link[back] = "on"
         \/ /\ Dial(e) /\ link[e] \in {"off", "dead"} /\ link[back] = "off" /\ chan' = chan
            /\ link' = [link EXCEPT ![e] = IF @ = "off" THEN "new" ELSE "late", ![back] = "new"]
  BY DEF Cut, Dial, wantVars, trackVars, mediaVars, ghosts
<1>2. /\ back \in Ends /\ back # e /\ Back(back) = e /\ DOMAIN link = Ends /\ DOMAIN chan = Ends
      /\ \A x \in Ends : Back(x) \in Ends /\ (Back(x) = e => x = back) /\ (Back(x) = back => x = e)
      /\ \A x \in Ends : Joined(x)
  BY ChannelFacts DEF RouteInv
<1>3. \A x \in Ends : Fresh(x) => Fresh(x)'
  BY <1>1 DEF Fresh, Back
<1>4. \A x \in Ends : Up(link'[x]) => Up(link[x])
  BY <1>1, <1>2 DEF Up
<1>5. \A x \in Ends : Current(x)'
  BY <1>1, <1>4, CurrentKept
<1>6. Domains'
  BY <1>1 DEF RouteInv, Domains, nodeVars
<1>7. ASSUME NEW x \in Ends PROVE Joined(x)'
  <2>1. CASE x = e
    <3>1. CASE Cut(e)
      <4>1. link'[e] = "dead" /\ link'[back] = "dead" /\ chan'[e] = <<>>
        BY <1>1, <1>2, <3>1 DEF Cut, Dial
      <4> QED
        BY <2>1, <4>1 DEF Joined, Back
    <3>2. CASE Dial(e)
      <4>1. /\ link'[back] = "new" /\ link'[e] = IF link[e] = "off" THEN "new" ELSE "late"
            /\ link[e] # "on" /\ chan'[e] = chan[e]
        BY <1>1, <1>2, <3>2 DEF Cut, Dial
      <4>2. chan[e] = <<>> /\ (link[e] = "off" => Fresh(e))
        BY <1>2, <4>1 DEF Joined
      <4> QED
        BY <1>3, <2>1, <4>1, <4>2 DEF Joined, Back
    <3> QED
      BY <1>1, <3>1, <3>2
  <2>2. CASE x = back
    <3>1. CASE Cut(e)
      <4>1. link'[e] = "dead" /\ link'[back] = "dead" /\ chan'[back] = <<>>
        BY <1>1, <1>2, <3>1 DEF Cut, Dial
      <4> QED
        BY <1>2, <2>2, <4>1 DEF Joined
    <3>2. CASE Dial(e)
      <4>1. link'[back] = "new" /\ link'[e] \in {"new", "late"} /\ link[back] = "off" /\ chan'[back] = chan[back]
        BY <1>1, <1>2, <3>2 DEF Cut, Dial
      <4>2. chan[back] = <<>> /\ Fresh(back)
        BY <1>2, <4>1 DEF Joined
      <4> QED
        BY <1>2, <1>3, <2>2, <4>1, <4>2 DEF Joined
    <3> QED
      BY <1>1, <3>1, <3>2
  <2>3. CASE x # e /\ x # back
    <3>1. /\ Back(x) # e /\ Back(x) # back /\ Back(x) \in Ends /\ Joined(x) /\ (Fresh(x) => Fresh(x)')
      BY <1>2, <1>3, <2>3
    <3> HIDE DEF back
    <3>2. /\ link'[x] = link[x] /\ link'[Back(x)] = link[Back(x)]
          /\ chan'[x] = chan[x] /\ chan'[Back(x)] = chan[Back(x)]
      BY <1>1, <1>2, <2>3, <3>1
    <3> QED
      BY <1>1, <3>1, <3>2, Alone, EndKept
  <2> QED
    BY <2>1, <2>2, <2>3
<1> QED
  BY <1>1, <1>5, <1>6, <1>7 DEF RouteInv, IsSeq

\* A session ends, or the next one is registered: this end starts from nothing,
\* and its want is to be sent.
LEMMA RouteRenew ==
  ASSUME IInv, RouteInv, NEW e \in Ends, OnEdgeClosed(e) \/ EdgeEstablished(e)
  PROVE  RouteInv'
<1> DEFINE back == Back(e)
           pw == [peerWant EXCEPT ![e] = WantNone]
           sn == [seen EXCEPT ![e] = FALSE]
<1>1. /\ UNCHANGED <<local, present, unsub, right, chan, overtaken>>
      /\ RecomputeAt({e[1]}, pw, sn, {e})
      /\ recv' = [recv EXCEPT ![back] = {}]
      /\ \E a, b : remote' = FromElse(e[1], a, b)
      /\ \/ link[e] = "dead" /\ link' = [link EXCEPT ![e] = "off"]
         \/ link[e] \in {"new", "late"} /\ link' = [link EXCEPT ![e] = "on"]
  BY DEF OnEdgeClosed, EdgeEstablished, Renew, nodeVars, ghosts
<1>2. /\ back \in Ends /\ back # e /\ Back(back) = e /\ DOMAIN link = Ends /\ DOMAIN recv = Ends
      /\ DOMAIN peerWant = Ends /\ DOMAIN seen = Ends /\ faults \in Nat
      /\ \A x \in Ends : Back(x) \in Ends /\ (Back(x) = e => x = back) /\ (Back(x) = back => x = e)
      /\ \A x \in Ends : Joined(x)
      /\ present \subseteq Listeners /\ DOMAIN unsub = Listeners
  BY ChannelFacts DEF RouteInv, Domains
<1>3. /\ DOMAIN pw = Ends /\ DOMAIN sn = Ends /\ ~sn[e]
      /\ \A x \in Ends : x # e => pw[x] = peerWant[x] /\ sn[x] = seen[x]
      /\ \A x \in Ends : recv'[x] = IF x = back THEN {} ELSE recv[x]
      /\ \A x \in Ends : x # e => link'[x] = link[x]
      /\ chan' = chan /\ chan[e] = <<>>
      /\ \/ link[e] = "dead" /\ link'[e] = "off"
         \/ link[e] \in {"new", "late"} /\ link'[e] = "on"
  BY <1>1, <1>2 DEF Joined
<1> HIDE DEF pw, sn, back
<1>4. \A x \in Ends : Current(x)'
  <2>1. \A m \in Nodes \ {e[1]} : remote'[m] = remote[m]
    BY <1>1 DEF IInv, Placed, FromElse
  <2>2. \A m \in Nodes : Demand(m, present', unsub') = Demand(m, present, unsub)
    BY <1>1
  <2>3. \A x \in Ends : x[1] \notin {e[1]} => pw[x] = peerWant[x] /\ (sn[x] <=> seen[x]) /\ x \notin {e}
    BY <1>3
  <2>4. \A x \in Ends : Up(link'[x]) => Up(link[x]) \/ x \in {e}
    BY <1>3
  <2> QED
    BY <1>1, <2>1, <2>2, <2>3, <2>4, RecomputeCurrent
<1>5. Domains'
  BY <1>1, <1>2, <1>3, RecomputeDomains
<1>6. peerWant' = pw /\ seen' = sn
  BY <1>1 DEF RecomputeAt, RecomputeWants
<1>7. faults' = 0 => faults = 0
  BY <1>1, <1>2, RecomputeOut
<1>8. \A x \in Ends : IsSeq(unsent'[x])
  BY <1>1, RecomputeTold
<1>9. ASSUME NEW x \in Ends, x # e
      PROVE  /\ \/ unsent'[x] # <<>> /\ unsent'[x][Len(unsent'[x])] = ToWire(myWant'[x])
                \/ unsent'[x] = unsent[x] /\ myWant'[x] = myWant[x]
             /\ \/ out'[x] = out[x] /\ neg'[x] = neg[x] /\ (x \in pending' <=> x \in pending)
                \/ neg[x] = "idle" /\ neg'[x] = "making"
                \/ neg[x] # "idle" /\ neg'[x] = neg[x] /\ x \in pending'
             /\ Fresh(x) => Fresh(x)' /\ out'[x] = {}
  <2>1. x \notin {e}
    BY <1>9
  <2>2. ASSUME Fresh(x) PROVE Fresh(x)' /\ out'[x] = {}
    <3>1. ~seen[x] /\ neg[x] = "idle" /\ x \notin pending /\ recv[Back(x)] = {} /\ ~sn[x]
      BY <1>3, <1>9, <2>2 DEF Fresh
    <3>2. ~seen'[x] /\ neg'[x] = "idle" /\ x \notin pending' /\ out'[x] = {}
      BY <1>1, <3>1, RecomputeFresh
    <3>3. recv'[Back(x)] = {}
      BY <1>2, <1>3, <3>1
    <3> QED
      BY <3>2, <3>3 DEF Fresh, Back
  <2>3. \/ unsent'[x] # <<>> /\ unsent'[x][Len(unsent'[x])] = ToWire(myWant'[x])
        \/ unsent'[x] = unsent[x] /\ myWant'[x] = myWant[x]
    BY <1>1, <2>1, RecomputeTold
  <2>4. \/ out'[x] = out[x] /\ neg'[x] = neg[x] /\ (x \in pending' <=> x \in pending)
        \/ neg[x] = "idle" /\ neg'[x] = "making"
        \/ neg[x] # "idle" /\ neg'[x] = neg[x] /\ x \in pending'
    BY <1>1, <2>1, RecomputeOffers
  <2> QED
    BY <2>2, <2>3, <2>4
<1>10. Fresh(e)' /\ out'[e] = {}
  <2>1. ~seen'[e] /\ neg'[e] = "idle" /\ e \notin pending' /\ out'[e] = {}
    BY <1>1, <1>3, RecomputeFresh
  <2>2. recv'[Back(e)] = {}
    BY <1>2, <1>3 DEF back
  <2> QED
    BY <2>1, <2>2 DEF Fresh, Back
<1>11. \A t : NoFrame(chan'[e], t)
  BY <1>3 DEF NoFrame
<1>12. link'[e] = "on" => Telling(e)'
  <2>1. ASSUME link'[e] = "on"
        PROVE  unsent'[e] # <<>> /\ unsent'[e][Len(unsent'[e])] = ToWire(myWant'[e])
    BY <1>1, <2>1, RecomputeTold DEF Up
  <2> QED
    BY <2>1 DEF Telling, ToWire
<1>13. ASSUME link[back] = "on"
       PROVE  /\ Fresh(back) /\ NoFrame(chan[back], "offer") /\ NoFrame(chan[back], "answer")
              /\ ~overtaken => Telling(back)
  BY <1>2, <1>3, <1>13 DEF Joined
<1>14. ASSUME NEW x \in Ends, x # e, x # back PROVE Joined(x)'
  <2>1. /\ Back(x) # e /\ Back(x) # back /\ Back(x) \in Ends /\ Joined(x)
    BY <1>2, <1>14
  <2>2. /\ link'[x] = link[x] /\ link'[Back(x)] = link[Back(x)] /\ recv'[x] = recv[x]
        /\ peerWant'[Back(x)] = peerWant[Back(x)] /\ seen'[Back(x)] = seen[Back(x)]
        /\ chan'[x] = chan[x] /\ chan'[Back(x)] = chan[Back(x)]
    BY <1>3, <1>6, <1>14, <2>1
  <2> QED
    BY <1>1, <1>7, <1>9, <1>14, <2>1, <2>2, Alone, EndKept
<1>15. Joined(e)'
  <2>1. CASE link'[e] = "on" /\ link'[back] = "on"
    <3>1. Told(e)'
      BY <1>12, <2>1 DEF Told
    <3>2. recv'[e] = {}
      BY <1>2, <1>3, <1>13, <2>1 DEF Fresh
    <3>3. NoFrame(chan[back], "answer")
      BY <1>2, <1>3, <1>13, <2>1
    <3>4. NoFrame(chan'[Back(e)], "answer")
      BY <1>3, <3>3 DEF back
    <3>5. Offered(e)'
      BY <1>10, <1>11, <3>2, <3>4 DEF Offered, Fresh, NoFrame, Back
    <3> QED
      BY <2>1, <3>1, <3>5, BothOn DEF back
  <2>2. CASE ~(link'[e] = "on" /\ link'[back] = "on")
    <3>1. link[e] \in {"off", "dead"} <=> link[back] \in {"off", "dead"}
      BY <1>2 DEF Joined, back
    <3>2. link'[e] \in {"off", "dead"} <=> link'[back] \in {"off", "dead"}
      BY <1>2, <1>3, <3>1
    <3> QED
      BY <1>3, <1>10, <1>11, <1>12, <2>2, <3>2 DEF Joined, Back, NoFrame, back
  <2> QED
    BY <2>1, <2>2
<1>16. Joined(back)'
  <2>1. CASE link'[e] = "on" /\ link'[back] = "on"
    <3>1. link[back] = "on"
      BY <1>2, <1>3, <2>1
    <3>2. ~overtaken' => Told(back)'
      <4> SUFFICES ASSUME ~overtaken' PROVE Told(back)'
        OBVIOUS
      <4>1. Telling(back)
        BY <1>1, <1>13, <3>1
      <4>2. KeepsWants(chan[back], chan'[back])
        BY <1>3, Alone
      <4>3. Telling(back)'
        BY <1>2, <1>9, <4>1, <4>2, TellingKept
      <4> QED
        BY <4>3 DEF Told
    <3>3. Offered(back)'
      <4>1. Fresh(back)' /\ out'[back] = {}
        BY <1>2, <1>9, <1>13, <3>1
      <4>2. recv'[back] = {} /\ NoFrame(chan'[back], "offer") /\ NoFrame(chan'[Back(back)], "answer")
        BY <1>2, <1>3, <1>11, <1>13, <3>1
      <4>3. neg'[back] = "idle" /\ back \notin pending'
        BY <4>1 DEF Fresh
      <4> QED
        BY <4>1, <4>2, <4>3 DEF Offered, NoFrame
    <3> QED
      BY <1>2, <2>1, <3>2, <3>3, BothOn
  <2>2. CASE ~(link'[e] = "on" /\ link'[back] = "on")
    <3>1. /\ link[e] \in {"off", "dead"} <=> link[back] \in {"off", "dead"}
          /\ link[back] # "on" => chan[back] = <<>>
          /\ link[back] \in {"off", "new"} => Fresh(back)
          /\ link'[back] = link[back]
      BY <1>2, <1>3 DEF Joined, back
    <3>2. link[back] # "on"
      BY <1>3, <2>2, <3>1
    <3>3. link'[back] \in {"off", "dead"} <=> link'[e] \in {"off", "dead"}
      BY <1>3, <3>1
    <3>4. link'[back] \in {"off", "new"} => Fresh(back)'
      BY <1>2, <1>9, <3>1
    <3> QED
      BY <1>2, <1>3, <3>1, <3>2, <3>3, <3>4 DEF Joined
  <2> QED
    BY <2>1, <2>2
<1> QED
  BY <1>1, <1>2, <1>4, <1>5, <1>8, <1>14, <1>15, <1>16 DEF RouteInv, IsSeq

\* Beyond an edge are its far end and what is beyond the other edge of that.
LEMMA BeyondNext ==
  ASSUME NEW e \in Ends, NEW x
  PROVE  x \in Beyond(e) <=>
           x = e[2] \/ \E o \in Neighbours(e[2]) \ {e[1]} : x \in Beyond(<<e[2], o>>)
<1> DEFINE a == e[1]
           b == e[2]
<1>1. /\ a \in Int /\ b \in Int /\ a >= 1 /\ b >= 1 /\ a <= N /\ b <= N /\ a - b \in {-1, 1}
      /\ N \in Int
  BY EndFacts, PlaceAssumption DEF Nodes
<1>2. Neighbours(b) = {o \in 1..N : b - o \in {-1, 1}}
  BY EndFacts DEF Neighbours, Ends, Nodes
<1>3. \A o \in Neighbours(b) \ {a} : o \in Int /\ 1 <= o /\ o <= N /\ o = b + (b - a)
  BY <1>1, <1>2
<1>4. \A o : Beyond(<<b, o>>) = IF b < o THEN o..N ELSE 1..o
  BY DEF Beyond
<1>5. CASE a < b
  <2>1. Beyond(e) = b..N /\ b - a = 1
    BY <1>1, <1>5 DEF Beyond
  <2>2. ASSUME x \in b..N, x # b PROVE \E o \in Neighbours(b) \ {a} : x \in Beyond(<<b, o>>)
    <3>1. b + 1 \in Neighbours(b) \ {a} /\ x \in (b + 1)..N
      BY <1>1, <1>2, <1>5, <2>2
    <3>2. b < b + 1
      BY <1>1
    <3> QED
      BY <1>4, <3>1, <3>2
  <2>3. ASSUME NEW o \in Neighbours(b) \ {a}, x \in Beyond(<<b, o>>) PROVE x \in b..N
    <3>1. o = b + 1
      BY <1>1, <1>3, <2>1
    <3>2. x \in (b + 1)..N
      BY <1>1, <1>4, <2>3, <3>1
    <3> QED
      BY <1>1, <3>2
  <2>4. b \in b..N
    BY <1>1
  <2> QED
    BY <2>1, <2>2, <2>3, <2>4
<1>6. CASE ~(a < b)
  <2>1. Beyond(e) = 1..b /\ b - a = -1
    BY <1>1, <1>6 DEF Beyond
  <2>2. ASSUME x \in 1..b, x # b PROVE \E o \in Neighbours(b) \ {a} : x \in Beyond(<<b, o>>)
    <3>1. b - 1 \in Neighbours(b) \ {a} /\ x \in 1..(b - 1)
      BY <1>1, <1>2, <1>6, <2>2
    <3>2. ~(b < b - 1)
      BY <1>1
    <3> QED
      BY <1>4, <3>1, <3>2
  <2>3. ASSUME NEW o \in Neighbours(b) \ {a}, x \in Beyond(<<b, o>>) PROVE x \in 1..b
    <3>1. o = b - 1
      BY <1>1, <1>3, <2>1
    <3>2. x \in 1..(b - 1)
      BY <1>1, <1>4, <2>3, <3>1
    <3> QED
      BY <1>1, <3>2
  <2>4. b \in 1..b
    BY <1>1
  <2> QED
    BY <2>1, <2>2, <2>3, <2>4
<1> QED
  BY <1>5, <1>6

LEMMA RouteInit ==
  ASSUME Init
  PROVE  RouteInv
<1> DEFINE D(n) == Demand(n, present, unsub)
<1>1. /\ \A n \in Nodes : local[n] = {} /\ \A k \in Speakers : remote[n][k] = 0
      /\ \A e \in Ends : /\ out[e] = {} /\ recv[e] = {} /\ seen[e] = TRUE /\ link[e] = "on"
                         /\ unsent[e] = <<>> /\ chan[e] = <<>> /\ neg[e] = "idle"
                         /\ peerWant[e] = myWant[Back(e)]
                         /\ myWant[e] = UnionAll({D(n) : n \in Beyond(Back(e))})
      /\ pending = {} /\ present \subseteq Listeners /\ DOMAIN unsub = Listeners
      /\ \A f \in {peerWant, seen, neg, unsent} : DOMAIN f = Ends
  BY DEF Init
<1>2. \A e \in Ends : e[1] \in Nodes /\ e[2] \in Nodes /\ Back(e) \in Ends /\ Back(Back(e)) = e
                      /\ Back(e)[1] = e[2] /\ Back(e)[2] = e[1]
  BY EndFacts DEF Back
<1>3. ASSUME NEW e \in Ends, NEW k
      PROVE  Wants(myWant[e], k) <=> \E n \in Beyond(Back(e)) : Wants(D(n), k)
  <2> DEFINE W == {D(n) : n \in Beyond(Back(e))}
  <2>1. Wants(UnionAll(W), k) <=> \E w \in W : Wants(w, k)
    BY UnionAllExact
  <2>2. myWant[e] = UnionAll(W)
    BY <1>1
  <2> QED
    BY <2>1, <2>2
<1>4. ASSUME NEW e \in Ends PROVE Current(e)
  <2>1. Desired(e[1], e[2], local, remote, right, peerWant, seen) = {}
    BY <1>1, <1>2 DEF Desired
  <2>2. ASSUME NEW k PROVE Wants(myWant[e], k) <=> AskedAt(e, k)
    <3> DEFINE R == Neighbours(e[1]) \ {e[2]}
    <3>1. \A o \in R : <<e[1], o>> \in Ends /\ Back(<<e[1], o>>) \in Ends
                       /\ Back(Back(<<e[1], o>>)) = <<e[1], o>>
      BY <1>2 DEF Neighbours
    <3>2. ASSUME NEW o \in R
          PROVE  /\ seen[<<e[1], o>>]
                 /\ Wants(peerWant[<<e[1], o>>], k) <=> \E n \in Beyond(<<e[1], o>>) : Wants(D(n), k)
      <4> DEFINE f == <<e[1], o>>
      <4>1. f \in Ends /\ Back(f) \in Ends /\ Back(Back(f)) = f
        BY <3>1
      <4> HIDE DEF f
      <4>2. seen[f] /\ (Wants(peerWant[f], k) <=> \E n \in Beyond(f) : Wants(D(n), k))
        BY <1>1, <1>3, <4>1
      <4> QED
        BY <4>2 DEF f
    <3>3. AskedAt(e, k) <=> Wants(D(e[1]), k) \/ \E o \in R : \E n \in Beyond(<<e[1], o>>) : Wants(D(n), k)
      BY <3>2 DEF AskedAt
    <3>4. \A n : n \in Beyond(Back(e)) <=> n = e[1] \/ \E o \in R : n \in Beyond(<<e[1], o>>)
      BY <1>2, BeyondNext
    <3> QED
      BY <1>3, <3>3, <3>4
  <2> QED
    BY <1>1, <2>1, <2>2 DEF Current
<1>5. ASSUME NEW t PROVE NoFrame(<<>>, t)
  BY DEF NoFrame
<1>6. ASSUME NEW e \in Ends PROVE Told(e)
  <2>1. Back(e) \in Ends /\ Back(Back(e)) = e /\ chan[e] = <<>>
    BY <1>1, <1>2
  <2>2. NoFrame(chan[e], "want")
    BY <1>5, <2>1
  <2>3. seen[Back(e)] /\ peerWant[Back(e)] = myWant[e]
    BY <1>1, <2>1
  <2> QED
    BY <1>1, <2>2, <2>3 DEF Told
<1>7. ASSUME NEW e \in Ends PROVE Offered(e)
  <2>1. chan[e] = <<>> /\ chan[Back(e)] = <<>>
    BY <1>1, <1>2
  <2>2. NoFrame(chan[e], "offer") /\ NoFrame(chan[Back(e)], "answer")
    BY <1>5, <2>1
  <2> QED
    BY <1>1, <2>2 DEF Offered
<1>8. ASSUME NEW e \in Ends PROVE IsSeq(unsent[e])
  BY <1>1, EmptySeq DEF IsSeq
<1>9. ASSUME NEW e \in Ends PROVE Joined(e)
  BY <1>1, <1>2, <1>6, <1>7 DEF Joined
<1> QED
  BY <1>1, <1>4, <1>8, <1>9 DEF RouteInv, Domains

\* At every moment the out-tracks and the want of an end are those that its
\* node's state calls for, and what its neighbour has yet to learn of them is
\* about to be sent or on the way: no change is lost on an edge, also while its
\* ends give up one connection and register the next in any order.
THEOREM RoutesInvariant == Spec => [](IInv /\ RouteInv)
<1>1. Init => RouteInv
  BY RouteInit
<1>2. ASSUME IInv, RouteInv, [Next]_vars PROVE RouteInv'
  <2>1. CASE UNCHANGED vars
    <3>1. UNCHANGED <<nodeVars, peerWant, seen, myWant, out, neg, pending, unsent, remote, link,
                      chan, recv, faults, overtaken>>
      BY <2>1 DEF vars, endVars, wantVars, trackVars, mediaVars, ghosts
    <3> QED
      BY <1>2, <3>1, RouteStutter
  <2>2. ASSUME NEW e \in Ends,
               Media(e) \/ Relink(e) \/ Fails(e) \/ Cut(e) \/ \E i \in 2..Len(unsent[e]) : SendWant(e, i)
        PROVE  RouteInv'
    <3>1. (\E i \in 2..Len(unsent[e]) : SendWant(e, i)) \/ SendWant(e, 1) =>
            \E i \in 1..Len(unsent[e]) : SendWant(e, i)
      BY DEF SendWant
    <3>2. CASE Media(e) \/ Fails(e) \/ \E i \in 2..Len(unsent[e]) : SendWant(e, i)
      BY <1>2, <3>1, <3>2, RouteNegotiate, RouteSendWant, RoutePeerWant, RouteRemoteOffer,
         RouteAnswer, RouteTracks DEF Media, Fails
    <3>3. CASE Relink(e) \/ Cut(e)
      BY <1>2, <3>3, RouteConnection, RouteRenew, RouteSuperseded DEF Relink
    <3> QED
      BY <2>2, <3>2, <3>3
  <2>3. Parents \subseteq Ends
    BY ParentAssumption
  <2> QED
    BY <1>2, <2>1, <2>2, <2>3, RouteChanges DEF Next
<1> QED
  BY <1>1, <1>2, Invariant, PTL DEF Spec

-----------------------------------------------------------------------------
(* At rest                                                                 *)

LEMMA LeastNat ==
  ASSUME NEW T, T \subseteq Nat, T # {}
  PROVE  \E m \in T : \A y \in T : m <= y
<1> DEFINE R == OpToRel(<, Nat)
<1>1. \A x, y \in Nat : x < y => <<x, y>> \in R
  BY DEF OpToRel
<1>2. IsWellFoundedOn(R, Nat)
  BY NatLessThanWellFounded
<1> HIDE DEF R
<1>3. PICK m \in T : \A y \in T : ~(<<y, m>> \in R)
  BY <1>2, WFMin
<1>4. ASSUME NEW y \in T PROVE m <= y
  <2>1. m \in Nat /\ y \in Nat
    BY <1>4
  <2>2. ~(y < m)
    BY <1>1, <1>3, <2>1
  <2> QED
    BY <2>1, <2>2
<1> QED
  BY <1>3, <1>4

\* What nothing being under way leaves of the invariant: the neighbour has
\* exactly the out-tracks, and they are the desired ones.
Settled == IInv /\ RouteInv /\ Quiet /\ faults = 0

LEMMA TracksArrived ==
  ASSUME Settled, NEW e \in Ends
  PROVE  recv[e] = Desired(e[1], e[2], local, remote, right, peerWant, seen)
<1>1. link[e] = "on" /\ link[Back(e)] = "on" /\ neg[e] = "idle" /\ faults = 0
  BY EndFacts DEF Settled, Quiet
<1>2. Offered(e) /\ Current(e)
  BY <1>1 DEF Settled, RouteInv, Joined
<1> QED
  BY <1>1, <1>2 DEF Offered, Current

\* Hops from the beginning of the line, in the direction of the edge.
Upstream(e) == IF e[1] < e[2] THEN e[1] ELSE N - e[1]

\* Whatever went wrong before, no track is left that came round from the side
\* away from its home: the first such hop of the line would have another before
\* it, for the node it leaves has the track from somewhere.
LEMMA NoneFromBehind ==
  ASSUME Settled
  PROVE  FromHome
<1> DEFINE Behind(e) == \E k \in Speakers : remote[e[2]][k] = e[1] /\ ~Away(e, k)
           T == {Upstream(e) : e \in {x \in Ends : Behind(x)}}
<1>1. Placed /\ Quiet
  BY DEF Settled, IInv
<1>2. ASSUME NEW e \in Ends PROVE Upstream(e) \in Nat
  BY EndFacts, PlaceAssumption DEF Upstream, Nodes
<1>3. ASSUME NEW e \in Ends, Behind(e)
      PROVE  \E f \in Ends : Behind(f) /\ Upstream(f) < Upstream(e)
  <2> DEFINE p == e[1]
             n == e[2]
  <2>1. /\ p \in Nodes /\ n \in Nodes /\ e = <<p, n>> /\ p - n \in {-1, 1} /\ Nodes \subseteq Int
    BY EndFacts
  <2>2. PICK k \in Speakers : remote[n][k] = p /\ ~Away(e, k)
    BY <1>3
  <2>3. k \in Desired(p, n, local, remote, right, peerWant, seen)
    <3>1. k \in recv[e]
      BY <1>1, <2>2 DEF Quiet
    <3> QED
      BY <3>1, TracksArrived
  <2> DEFINE q == remote[p][k]
  <2>4. k \in local[p] \/ q \notin {0, n}
    BY <2>3 DEF Desired
  <2>5. k \notin local[p]
    <3> HIDE DEF p, n
    <3>1. Home[k] # p
      BY <2>1, <2>2, OneWay
    <3> QED
      BY <1>1, <2>1, <3>1 DEF Placed
  <2>6. q # 0 /\ q # n /\ q \in Int /\ q >= 0
    BY <1>1, <2>1, <2>4, <2>5 DEF Placed, Quiet
  <2>7. <<p, q>> \in Ends /\ <<q, p>> \in Ends
    <3>1. PICK m \in Neighbours(p) : q \in {m, -m}
      BY <1>1, <2>1, <2>6 DEF Placed
    <3>2. m \in Int /\ m >= 1 /\ <<p, m>> \in Ends
      BY <3>1 DEF Neighbours, Nodes
    <3>3. q = m
      BY <2>6, <3>1, <3>2
    <3>4. <<p, q>> \in Ends /\ Back(<<p, q>>) = <<q, p>>
      BY <3>2, <3>3 DEF Back
    <3> QED
      BY <3>4, EndFacts
  <2> HIDE DEF p, n, q
  <2>8. ~Away(<<q, p>>, k)
    BY <2>1, <2>2, <2>6, <2>7, OneWay
  <2>9. q - p \in {-1, 1} /\ q \in Int
    BY <2>6, <2>7 DEF Ends
  <2>10. Upstream(<<q, p>>) < Upstream(<<p, n>>)
    <3>1. p \in Int /\ n \in Int /\ N \in Int
      BY <2>1, PlaceAssumption
    <3> QED
      BY <2>1, <2>6, <2>9, <3>1 DEF Upstream
  <2>11. Behind(<<q, p>>)
    BY <2>8 DEF q
  <2> QED
    BY <2>1, <2>7, <2>10, <2>11
<1> HIDE DEF Behind
<1>4. ASSUME T # {} PROVE FALSE
  <2>1. T \subseteq Nat
    BY <1>2
  <2>2. PICK m \in T : \A y \in T : m <= y
    BY <1>4, <2>1, LeastNat
  <2>3. PICK e \in Ends : Behind(e) /\ m = Upstream(e)
    OBVIOUS
  <2>4. PICK f \in Ends : Behind(f) /\ Upstream(f) < Upstream(e)
    BY <1>3, <2>3
  <2>5. Upstream(f) \in T /\ Upstream(f) \in Nat /\ Upstream(e) \in Nat
    BY <1>2, <2>4
  <2> HIDE DEF T
  <2> QED
    BY <2>2, <2>3, <2>4, <2>5
<1>5. ASSUME NEW n \in Nodes, NEW k \in Speakers, remote[n][k] # 0
      PROVE  <<remote[n][k], n>> \in Ends /\ Away(<<remote[n][k], n>>, k)
  <2> DEFINE p == remote[n][k]
  <2>1. p \in Int /\ p >= 0 /\ p # 0
    BY <1>1, <1>5 DEF Placed, Quiet
  <2>2. PICK m \in Neighbours(n) : p \in {m, -m}
    BY <1>1, <1>5 DEF Placed
  <2>3. m \in Int /\ m >= 1 /\ <<n, m>> \in Ends
    BY <2>2 DEF Neighbours, Nodes
  <2>4. p = m
    BY <2>1, <2>2, <2>3
  <2>5. <<n, p>> \in Ends /\ Back(<<n, p>>) = <<p, n>>
    BY <2>3, <2>4 DEF Back
  <2>6. <<p, n>> \in Ends
    BY <2>5, EndFacts
  <2>7. ~Behind(<<p, n>>)
    BY <1>4, <2>6
  <2> QED
    BY <2>6, <2>7 DEF Behind
<1> QED
  BY <1>5 DEF FromHome

\* Only for the sake of a superseded session is a track refused, on any line,
\* whatever breaks, fails or overtakes; and once nothing is under way, and no
\* call of the media library has failed, no node has a track from the side away
\* from its home.
THEOREM NeverLoops == Spec => []NoLoop
<1>1. ASSUME IInv, RouteInv PROVE NoLoop
  <2>1. dropped => overlapped
    BY <1>1 DEF IInv, Straight
  <2>2. ASSUME Quiet, faults = 0, NEW n \in Nodes, NEW k \in Speakers, remote[n][k] # 0
        PROVE  IF remote[n][k] < n THEN Home[k] < n ELSE n < Home[k]
    <3> DEFINE p == remote[n][k]
    <3>1. FromHome
      BY <1>1, <2>2, NoneFromBehind DEF Settled
    <3>2. <<p, n>> \in Ends /\ Away(<<p, n>>, k)
      BY <2>2, <3>1 DEF FromHome
    <3>3. p \in Int /\ n \in Int /\ Home[k] \in Int /\ p - n \in {-1, 1}
      BY <3>2, EndFacts DEF Ends
    <3>4. IF p < n THEN Home[k] <= p ELSE p <= Home[k]
      BY <3>2 DEF Away
    <3> HIDE DEF p
    <3> QED
      BY <3>3, <3>4 DEF p
  <2> QED
    BY <2>1, <2>2 DEF NoLoop
<1> QED
  BY <1>1, RoutesInvariant, PTL

\* ... and every want has been told in order, and no track is refused.
Rest == Settled /\ ~overtaken /\ \A e \in Ends : refused[e] = {}

LEMMA AtRest ==
  ASSUME Rest, NEW e \in Ends
  PROVE  /\ seen[e] /\ recv[e] = Desired(e[1], e[2], local, remote, right, peerWant, seen)
         /\ \A k : Wants(peerWant[e], k) <=>
              \/ Wants(Demand(e[2], present, unsub), k)
              \/ \E o \in Neighbours(e[2]) \ {e[1]} : Wants(peerWant[<<e[2], o>>], k)
<1>1. /\ \A x \in Ends : Back(x) \in Ends /\ Back(Back(x)) = x
      /\ Back(e)[1] = e[2] /\ Back(e)[2] = e[1]
  BY ChannelFacts, EndFacts DEF Rest, Settled
<1>2. \A x : ~LastFrame(<<>>, x)
  BY DEF LastFrame
<1>3. \A x \in Ends : unsent[x] = <<>> /\ chan[x] = <<>> /\ link[x] = "on"
  BY DEF Rest, Settled, Quiet
<1>4. \A x \in Ends : Told(x) /\ Current(x)
  BY <1>1, <1>3 DEF Rest, Settled, RouteInv, Joined
<1>5. ASSUME NEW x \in Ends
      PROVE  seen[Back(x)] /\ \A k : Wants(peerWant[Back(x)], k) <=> Wants(myWant[x], k)
  BY <1>2, <1>3, <1>4 DEF Told, Telling
<1>6. \A x \in Ends : seen[x]
  BY <1>1, <1>5
<1>7. recv[e] = Desired(e[1], e[2], local, remote, right, peerWant, seen)
  BY TracksArrived DEF Rest
<1>8. ASSUME NEW k
      PROVE  Wants(peerWant[e], k) <=>
              \/ Wants(Demand(e[2], present, unsub), k)
              \/ \E o \in Neighbours(e[2]) \ {e[1]} : Wants(peerWant[<<e[2], o>>], k)
  <2>1. Wants(peerWant[e], k) <=> AskedAt(Back(e), k)
    BY <1>1, <1>3, <1>4, <1>5 DEF Current, Up
  <2>2. \A o \in Neighbours(e[2]) : seen[<<e[2], o>>]
    BY <1>6 DEF Neighbours
  <2> QED
    BY <1>1, <2>1, <2>2 DEF AskedAt
<1> QED
  BY <1>6, <1>7, <1>8

\* Hops from the far end of the edge to the end of the line.
Depth(e) == IF e[1] < e[2] THEN N - e[2] ELSE e[2]

\* Demand has arrived from everywhere: the least deep edge where it had not
\* would have the next one to blame.
LEMMA DemandKnown ==
  ASSUME Rest
  PROVE  \A e \in Ends : \A k :
           Wants(peerWant[e], k) <=> \E x \in Beyond(e) : Wants(Demand(x, present, unsub), k)
<1> DEFINE Known(e) == \A k :
             Wants(peerWant[e], k) <=> \E x \in Beyond(e) : Wants(Demand(x, present, unsub), k)
           T == {Depth(e) : e \in {x \in Ends : ~Known(x)}}
<1>1. ASSUME NEW e \in Ends
      PROVE  /\ Depth(e) \in Nat
             /\ \A o \in Neighbours(e[2]) \ {e[1]} : <<e[2], o>> \in Ends /\ Depth(<<e[2], o>>) < Depth(e)
  <2>1. /\ e[1] \in Int /\ e[2] \in Int /\ e[1] >= 1 /\ e[2] >= 1 /\ e[1] <= N /\ e[2] <= N
        /\ e[1] - e[2] \in {-1, 1} /\ N \in Int
    BY EndFacts, PlaceAssumption DEF Nodes
  <2>2. ASSUME NEW o \in Neighbours(e[2]) \ {e[1]}
        PROVE  <<e[2], o>> \in Ends /\ Depth(<<e[2], o>>) < Depth(e)
    <3>1. <<e[2], o>> \in Ends /\ o # e[1]
      BY DEF Neighbours
    <3>2. o \in Int /\ e[2] - o \in {-1, 1}
      BY <3>1 DEF Ends, Nodes
    <3>3. Depth(<<e[2], o>>) = IF e[2] < o THEN N - o ELSE o
      BY DEF Depth
    <3> QED
      BY <2>1, <3>1, <3>2, <3>3 DEF Depth
  <2> QED
    BY <2>1, <2>2 DEF Depth
<1>2. ASSUME NEW e \in Ends, \A o \in Neighbours(e[2]) \ {e[1]} : Known(<<e[2], o>>)
      PROVE  Known(e)
  <2> SUFFICES ASSUME NEW k
               PROVE  Wants(peerWant[e], k) <=> \E x \in Beyond(e) : Wants(Demand(x, present, unsub), k)
    OBVIOUS
  <2>1. Wants(peerWant[e], k) <=>
          \/ Wants(Demand(e[2], present, unsub), k)
          \/ \E o \in Neighbours(e[2]) \ {e[1]} : Wants(peerWant[<<e[2], o>>], k)
    BY AtRest
  <2>2. \A o \in Neighbours(e[2]) \ {e[1]} :
          Wants(peerWant[<<e[2], o>>], k) <=>
            \E x \in Beyond(<<e[2], o>>) : Wants(Demand(x, present, unsub), k)
    BY <1>2
  <2>3. \A x : x \in Beyond(e) <=>
          x = e[2] \/ \E o \in Neighbours(e[2]) \ {e[1]} : x \in Beyond(<<e[2], o>>)
    BY BeyondNext
  <2> QED
    BY <2>1, <2>2, <2>3
<1> HIDE DEF Known
<1>3. SUFFICES ASSUME T # {} PROVE FALSE
  BY DEF Known
<1>4. T \subseteq Nat
  BY <1>1
<1>5. PICK m \in T : \A y \in T : m <= y
  BY <1>3, <1>4, LeastNat
<1>6. PICK e \in Ends : ~Known(e) /\ m = Depth(e)
  OBVIOUS
<1>7. ASSUME NEW o \in Neighbours(e[2]) \ {e[1]} PROVE Known(<<e[2], o>>)
  <2> DEFINE d == Depth(<<e[2], o>>)
  <2>1. <<e[2], o>> \in Ends /\ d \in Nat /\ d < Depth(e) /\ Depth(e) \in Nat
    BY <1>1
  <2>2. ~Known(<<e[2], o>>) => d \in T
    BY <2>1
  <2> HIDE DEF d, T
  <2>3. d \notin T
    BY <1>5, <1>6, <2>1
  <2> QED
    BY <2>2, <2>3
<1> QED
  BY <1>2, <1>6, <1>7

\* The node before n on the way from h, and how far it is.
Towards(h, n) == n + (IF h < n THEN -1 ELSE 1)
Distance(h, n) == IF h < n THEN n - h ELSE h - n

LEMMA LastHop ==
  ASSUME NEW h \in Nodes, NEW n \in Nodes \ {h}
  PROVE  /\ Towards(h, n) \in Nodes /\ <<Towards(h, n), n>> \in Ends
         /\ Distance(h, n) \in Nat /\ Distance(h, Towards(h, n)) < Distance(h, n)
         /\ Towards(h, Towards(h, n)) # n \/ Towards(h, n) = h
         /\ \A e \in Ends : e \in Hops(h, n) <=> e \in Hops(h, Towards(h, n)) \/ e = <<Towards(h, n), n>>
         /\ Hops(h, h) = {}
<1> DEFINE p == Towards(h, n)
<1>1. /\ h \in Int /\ n \in Int /\ N \in Int /\ 1 <= h /\ h <= N /\ 1 <= n /\ n <= N /\ h # n
      /\ p = IF h < n THEN n - 1 ELSE n + 1
  BY PlaceAssumption DEF Nodes, Towards
<1>2. p \in Nodes /\ p \in Int
  BY <1>1 DEF Nodes
<1>3. <<p, n>> \in Ends
  BY <1>1, <1>2 DEF Ends
<1>4. /\ Distance(h, n) \in Nat /\ Distance(h, p) < Distance(h, n)
      /\ Towards(h, p) # n \/ p = h
  BY <1>1 DEF Distance, Towards
<1>5. ASSUME NEW e \in Ends PROVE e \in Hops(h, n) <=> e \in Hops(h, p) \/ e = <<p, n>>
  <2>1. /\ e[1] \in Int /\ e[2] \in Int /\ e[1] - e[2] \in {-1, 1} /\ e = <<e[1], e[2]>>
    BY EndFacts
  <2>2. e = <<p, n>> <=> e[1] = p /\ e[2] = n
    BY <2>1
  <2>3. /\ e \in Hops(h, n) <=> IF h < n THEN h <= e[1] /\ e[1] < e[2] /\ e[2] <= n
                                ELSE n <= e[2] /\ e[2] < e[1] /\ e[1] <= h
        /\ e \in Hops(h, p) <=> IF h < p THEN h <= e[1] /\ e[1] < e[2] /\ e[2] <= p
                                ELSE p <= e[2] /\ e[2] < e[1] /\ e[1] <= h
    BY DEF Hops
  <2> HIDE DEF p
  <2> QED
    BY <1>1, <2>1, <2>2, <2>3
<1>6. Hops(h, h) = {}
  BY <1>1, EndFacts DEF Hops
<1> QED
  BY <1>2, <1>3, <1>4, <1>5, <1>6

\* The tracks have followed: hop by hop, from the home outwards.
LEMMA TracksFollow ==
  ASSUME Rest, NEW k \in Speakers
  PROVE  \A n \in Nodes \ {Home[k]} :
           remote[n][k] = IF Due(k, n) THEN Towards(Home[k], n) ELSE 0
<1> DEFINE h == Home[k]
           Good(n) == remote[n][k] = IF Due(k, n) THEN Towards(h, n) ELSE 0
           T == {Distance(h, n) : n \in {x \in Nodes \ {h} : ~Good(x)}}
<1>1. /\ h \in Nodes /\ Nodes \subseteq Int /\ Placed /\ FromHome
  BY EndFacts, NoneFromBehind DEF Rest, Settled, IInv
<1>2. ASSUME NEW n \in Nodes \ {h}, Towards(h, n) # h => Good(Towards(h, n))
      PROVE  Good(n)
  <2> DEFINE p == Towards(h, n)
             e == <<p, n>>
             Asked(f) == \E x \in Beyond(f) : Wants(Demand(x, present, unsub), k)
  <2>1. /\ p \in Nodes /\ e \in Ends /\ (Towards(h, p) # n \/ p = h) /\ Hops(h, h) = {}
        /\ \A f \in Ends : f \in Hops(h, n) <=> f \in Hops(h, p) \/ f = e
    BY <1>1, LastHop
  <2>2. p \in Int /\ n \in Int /\ h \in Int /\ p # 0 /\ n # 0 /\ p # n
    BY <1>1, <2>1 DEF Nodes, Ends
  <2>3. p = IF h < n THEN n - 1 ELSE n + 1
    BY <2>2 DEF Towards
  <2> HIDE DEF h, p
  <2>4. remote[n][k] \in {0, p}
    <3> DEFINE r == remote[n][k]
    <3> SUFFICES ASSUME r # 0 PROVE r = p
      OBVIOUS
    <3>1. r \in Int /\ <<r, n>> \in Ends /\ Away(<<r, n>>, k)
      BY <1>1 DEF Placed, FromHome
    <3>2. r - n \in {-1, 1}
      BY <3>1 DEF Ends
    <3>3. IF r < n THEN h <= r ELSE r <= h
      BY <3>1 DEF Away, h
    <3> HIDE DEF r
    <3> QED
      BY <2>2, <2>3, <3>1, <3>2, <3>3
  <2>5. remote[n][k] = p <=> p \in right /\ (k \in local[p] \/ remote[p][k] \notin {0, n}) /\ Asked(e)
    <3>1. remote[n][k] = p <=> k \in recv[e]
      BY <2>1 DEF Rest, Settled, Quiet
    <3>2. seen[e] /\ recv[e] = Desired(p, n, local, remote, right, peerWant, seen)
      BY <2>1, AtRest
    <3>3. Wants(peerWant[e], k) <=> Asked(e)
      BY <2>1, DemandKnown
    <3> QED
      BY <3>1, <3>2, <3>3 DEF Desired
  <2>6. (k \in local[p] \/ remote[p][k] \notin {0, n}) <=> Due(k, p)
    <3>1. CASE p = h
      <4>1. remote[h][k] = 0
        <5> DEFINE r == remote[h][k]
        <5> SUFFICES ASSUME r # 0 PROVE FALSE
          OBVIOUS
        <5>1. r \in Int /\ <<r, h>> \in Ends /\ Away(<<r, h>>, k)
          BY <1>1 DEF Placed, FromHome
        <5>2. r - h \in {-1, 1}
          BY <5>1 DEF Ends
        <5>3. IF r < h THEN h <= r ELSE r <= h
          BY <5>1 DEF Away, h
        <5> HIDE DEF r
        <5> QED
          BY <2>2, <5>1, <5>2, <5>3
      <4>2. Due(k, p) <=> k \in local[h]
        BY <2>1, <3>1 DEF Due, h
      <4> QED
        BY <3>1, <4>1, <4>2
    <3>2. CASE p # h
      <4>1. k \notin local[p]
        BY <1>1, <2>1, <3>2 DEF Placed, h
      <4>2. remote[p][k] = IF Due(k, p) THEN Towards(h, p) ELSE 0
        BY <1>2, <3>2 DEF p, h
      <4>3. Towards(h, p) # n
        BY <2>1, <3>2
      <4>4. Towards(h, p) # 0
        <5>1. p \in Nodes \ {h} /\ h \in Nodes
          BY <1>1, <2>1, <3>2
        <5>2. Towards(h, p) \in Nodes
          BY <5>1, LastHop
        <5> QED
          BY <5>2, PlaceAssumption DEF Nodes
      <4> QED
        BY <4>1, <4>2, <4>3, <4>4
    <3> QED
      BY <3>1, <3>2
  <2>7. Due(k, n) <=> Due(k, p) /\ p \in right /\ Asked(e)
    <3>1. e[1] = p
      OBVIOUS
    <3>2. \A m : Due(k, m) <=> k \in local[h] /\ \A f \in Hops(h, m) : f[1] \in right /\ Asked(f)
      BY DEF Due, h
    <3>3. \A f \in Hops(h, n) \cup Hops(h, p) : f \in Ends
      BY DEF Hops
    <3> HIDE DEF e, Asked
    <3> QED
      BY <2>1, <3>1, <3>2, <3>3
  <2> QED
    BY <2>2, <2>4, <2>5, <2>6, <2>7 DEF p, h
<1> HIDE DEF Good, h
<1>3. SUFFICES ASSUME T # {} PROVE FALSE
  BY DEF Good, h
<1>4. T \subseteq Nat
  <2>1. \A n \in Nodes \ {h} : Distance(h, n) \in Nat
    BY <1>1, LastHop
  <2> QED
    BY <2>1
<1>5. PICK m \in T : \A y \in T : m <= y
  BY <1>3, <1>4, LeastNat
<1>6. PICK n \in Nodes \ {h} : ~Good(n) /\ m = Distance(h, n)
  OBVIOUS
<1>7. ASSUME Towards(h, n) # h PROVE Good(Towards(h, n))
  <2> DEFINE p == Towards(h, n)
             d == Distance(h, p)
  <2>1. p \in Nodes \ {h} /\ d < m /\ m \in Nat
    BY <1>1, <1>6, <1>7, LastHop
  <2>2. d \in Nat
    BY <1>1, <2>1, LastHop
  <2>3. ~Good(p) => d \in T
    BY <2>1
  <2> HIDE DEF d, T
  <2>4. d \notin T
    BY <1>5, <2>1, <2>2
  <2> QED
    BY <2>3, <2>4
<1> QED
  BY <1>2, <1>6, <1>7

\* When nothing is under way a node has exactly the tracks that the path from
\* the speaker's home allows and somebody from here on wants, whatever came
\* before and whichever connections were replaced: any line, any speakers and
\* listeners, any number of changes.
THEOREM RoutesAgree == Spec => []RoutesExact
<1>1. ASSUME IInv, RouteInv PROVE RoutesExact
  <2> SUFFICES ASSUME Quiet, ~overtaken, faults = 0, \A e \in Ends : refused[e] = {},
                      NEW k \in Speakers, NEW n \in Nodes \ {Home[k]}
               PROVE  IF Due(k, n) THEN remote[n][k] = n + (IF Home[k] < n THEN -1 ELSE 1)
                      ELSE remote[n][k] = 0
    BY DEF RoutesExact
  <2>1. Rest
    BY <1>1 DEF Rest, Settled
  <2>2. remote[n][k] = IF Due(k, n) THEN Towards(Home[k], n) ELSE 0
    BY <2>1, TracksFollow
  <2> QED
    BY <2>2 DEF Towards
<1> QED
  BY <1>1, RoutesInvariant, PTL
=============================================================================
