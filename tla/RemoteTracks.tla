---------------------------- MODULE RemoteTracks ----------------------------
(***************************************************************************)
(* One track that arrives from another node, on the node that receives it  *)
(* (internal/cascade manager.go, onRemoteTrack to onEdgeClosed, and        *)
(* RemotePublisher of internal/room cascade_api.go).  The track is kept    *)
(* twice: as a remoteSpeaker of the cascade's room state, under its lock,  *)
(* and as a RemotePublisher of the room, under the room manager's.  The    *)
(* two are brought together outside both locks: by the callback of the     *)
(* track, by its read loop, by the closing of the session it came from and *)
(* by every recomputation, which registers what is not registered yet.     *)
(*                                                                         *)
(* A publication may arrive several times, one after the other on the same *)
(* session or from a session that supersedes another.  A remoteSpeaker is  *)
(* named by its track.  A rebuild is one step and listeners hold their     *)
(* caps (Forwarding tells what happens otherwise); dt.active is the        *)
(* negation of the subscription mark, as every assignment to it makes it.  *)
(***************************************************************************)
EXTENDS Naturals, FiniteSets, Sequences, SequencesExt

CONSTANTS
  Sessions,   \* sessions of the edge, each of which lives once
  Tracks,     \* arrivals of the track, each of them once
  Origin,     \* the session of each
  Listeners,  \* local participants, each of whom joins once
  MaxPubs,    \* RemotePublisher objects in use at one time
  MaxActive,  \* bound: goroutines in the midst of an operation
  MaxOrders,  \* bound: subscriptions and changes of the demand
  MaxArrivals,\* bound: arrivals in one behaviour
  None

ASSUME OriginAssumption == Origin \in [Tracks -> Sessions]
ASSUME ListenerAssumption == IsFiniteSet(Listeners)
ASSUME NameAssumption == None \notin Sessions \cup Tracks \cup 1..MaxPubs
ASSUME BoundAssumption == MaxPubs \in Nat /\ MaxActive \in Nat /\ MaxOrders \in Nat /\ MaxArrivals \in Nat

VARIABLES
  sess,     \* a session: new, up, shut (edgeSession.closed)
  reg,      \* roomState.sessions: the edge's session
  track,    \* an arrival: off, called, live (remoteReadLoop), drained, over
  speaker,  \* roomState.remoteSpeakers: the arrival in force
  rp,       \* remoteSpeaker.rp of each arrival
  room,     \* the room exists
  entry,    \* Room.remotePubs: the publisher object
  closed,   \* RemotePublisher.closed
  fan,      \* RemotePublisher.fanout: the listeners
  part,     \* a listener: out, in, connected, gone
  owner,    \* downTrack.owner of each listener, None without a down track
  unsub,    \* listeners that have unsubscribed
  job, orders, overlapped,
  recomputed \* the last operation was a recomputation, with nothing beside it

linkVars == <<sess, reg, track, speaker, rp>>
pubVars == <<room, entry, closed, fan>>
partVars == <<part, owner, unsub>>
vars == <<linkVars, pubVars, partVars, job, orders, overlapped, recomputed>>

Pubs == 1..MaxPubs
Listed == {l \in Listeners : part[l] \in {"in", "connected"}}

Hook == <<"hook", None>>
Threads == {Hook} \cup ({"edge"} \X Sessions) \cup ({"track"} \X Tracks)
           \cup ({"join", "connect", "loop"} \X Listeners)

Active == {t \in Threads : job[t] # <<>>}
Quiet == Active = {}

\* What a goroutine has left to do, as a sequence of steps.
Step(op) == [op |-> op]
ForTrack(op, k) == [op |-> op, track |-> k]
ForPub(op, p) == [op |-> op, pub |-> p]
ForListener(op, p, l) == [op |-> op, pub |-> p, listener |-> l]
ForSession(op, s) == [op |-> op, session |-> s]
Recompute == Step("recompute")

Start(t, steps) ==
  /\ job[t] = <<>> /\ Cardinality(Active) < MaxActive
  /\ job' = [job EXCEPT ![t] = steps]
  /\ overlapped' = (overlapped \/ Active # {})
  /\ recomputed' = (t = Hook /\ Active = {})

At(t, op) == job[t] # <<>> /\ Head(job[t]).op = op
Continue(t, steps) ==
  /\ job' = [job EXCEPT ![t] = steps \o Tail(job[t])]
  /\ UNCHANGED <<orders, overlapped, recomputed>>

Order == orders < MaxOrders /\ orders' = orders + 1

\* A new object is one that nothing refers to.
Mentions(steps, p) == \E i \in 1..Len(steps) : "pub" \in DOMAIN steps[i] /\ steps[i].pub = p
InUse(p) ==
  \/ p = entry
  \/ \E k \in Tracks : rp[k] = p
  \/ \E l \in Listeners : owner[l] = p
  \/ \E t \in Threads : Mentions(job[t], p)
FreshPub == CHOOSE p \in Pubs : ~InUse(p)

Init ==
  /\ sess = [s \in Sessions |-> "new"] /\ reg = None
  /\ track = [k \in Tracks |-> "off"] /\ speaker = None /\ rp = [k \in Tracks |-> None]
  /\ room \in BOOLEAN /\ entry = None /\ closed = {} /\ fan = [p \in Pubs |-> {}]
  /\ part = [l \in Listeners |-> "out"] /\ owner = [l \in Listeners |-> None] /\ unsub = {}
  /\ job = [t \in Threads |-> <<>>] /\ orders = 0 /\ overlapped = FALSE /\ recomputed = FALSE

-----------------------------------------------------------------------------
(* Sessions                                                                *)

\* edgeEstablished: the old session is closed last, the defer.
Establish(s) ==
  /\ sess[s] = "new" /\ sess' = [sess EXCEPT ![s] = "up"]
  /\ reg' = s
  /\ Start(<<"edge", s>>, <<Recompute>> \o (IF reg # None THEN <<ForSession("close", reg)>> ELSE <<>>))
  /\ UNCHANGED <<track, speaker, rp, orders, pubVars, partVars>>

\* The connection breaks: runWith returns and closes the session.
Breaks(s) ==
  /\ sess[s] = "up"
  /\ Start(<<"edge", s>>, <<ForSession("close", s)>>)
  /\ UNCHANGED <<linkVars, orders, pubVars, partVars>>

\* edgeSession.close: the flag, then the connections.
CloseSession(t) ==
  /\ At(t, "close")
  /\ LET s == Head(job[t]).session
     IN  /\ sess' = [sess EXCEPT ![s] = "shut"]
         /\ Continue(t, IF sess[s] = "shut" THEN <<>> ELSE <<ForSession("edgeClosed", s)>>)
  /\ UNCHANGED <<reg, track, speaker, rp, pubVars, partVars>>

\* onEdgeClosed.
OnEdgeClosed(t) ==
  /\ At(t, "edgeClosed")
  /\ LET s == Head(job[t]).session
         ends == speaker # None /\ Origin[speaker] = s
     IN  /\ reg' = IF reg = s THEN None ELSE reg
         /\ speaker' = IF ends THEN None ELSE speaker
         /\ Continue(t, (IF ends THEN <<ForTrack("drop", speaker)>> ELSE <<>>) \o <<Recompute>>)
  /\ UNCHANGED <<sess, track, rp, pubVars, partVars>>

-----------------------------------------------------------------------------
(* The track                                                               *)

OnTrack(k) ==
  /\ track[k] = "off" /\ sess[Origin[k]] = "up"
  /\ Cardinality({x \in Tracks : track[x] # "off"}) < MaxArrivals
  /\ track' = [track EXCEPT ![k] = "called"]
  /\ Start(<<"track", k>>, <<ForTrack("arrive", k)>>)
  /\ UNCHANGED <<sess, reg, speaker, rp, orders, pubVars, partVars>>

\* classifyRemoteTrack: only from the session in force, and not while the same
\* track is there from another session.  (A local track that comes back is
\* the loop that CascadeRoutes shows does not arise.)
Accepted(k) ==
  /\ reg = Origin[k] /\ sess[reg] # "shut"
  /\ speaker # None => Origin[speaker] = Origin[k]

\* onRemoteTrack.  A track that is rejected is read and thrown away until it
\* ends; one that arrives again on its session replaces the old speaker.
OnRemoteTrack(t) ==
  /\ At(t, "arrive")
  /\ LET k == t[2]
         old == IF speaker = None THEN None ELSE rp[speaker]
     IN  \/ /\ Accepted(k)
            /\ speaker' = k
            /\ rp' = [x \in Tracks |-> IF x = speaker THEN None ELSE rp[x]]
            /\ track' = track
            /\ Continue(t, (IF old # None THEN <<ForPub("closePub", old)>> ELSE <<>>)
                             \o <<ForTrack("register", k), Recompute, ForTrack("read", k)>>)
         \/ /\ ~Accepted(k)
            /\ track' = [track EXCEPT ![k] = "drained"]
            /\ UNCHANGED <<speaker, rp>>
            /\ Continue(t, <<>>)
  /\ UNCHANGED <<sess, reg, pubVars, partVars>>

\* remoteReadLoop starts; it returns when the track ends or the session closes.
ReadLoop(t) ==
  /\ At(t, "read")
  /\ track' = [track EXCEPT ![t[2]] = "live"]
  /\ Continue(t, <<>>)
  /\ UNCHANGED <<sess, reg, speaker, rp, pubVars, partVars>>

LoopReturns(k) ==
  /\ track[k] = "live" /\ track' = [track EXCEPT ![k] = "over"]
  /\ Start(<<"track", k>>, <<ForTrack("ended", k)>>)
  /\ UNCHANGED <<sess, reg, speaker, rp, orders, pubVars, partVars>>

\* onRemoteSpeakerEnded.
OnRemoteSpeakerEnded(t) ==
  /\ At(t, "ended")
  /\ speaker' = IF speaker = t[2] THEN None ELSE speaker
  /\ Continue(t, <<ForTrack("drop", t[2]), Recompute>>)
  /\ UNCHANGED <<sess, reg, track, rp, pubVars, partVars>>

\* rsp.rp.Swap(nil), and the closing of what was there.
DropPublisher(t) ==
  /\ At(t, "drop")
  /\ LET k == Head(job[t]).track
     IN  /\ rp' = [rp EXCEPT ![k] = None]
         /\ Continue(t, IF rp[k] # None THEN <<ForPub("closePub", rp[k])>> ELSE <<>>)
  /\ UNCHANGED <<sess, reg, track, speaker, pubVars, partVars>>

-----------------------------------------------------------------------------
(* The publisher object                                                    *)

\* EnsureRoom, by order of the Server.  The module is about such a room: it is
\* kept when it empties, and CloseRoom, after which rsp.rp would still be the
\* publisher of the old room object, is left out.
EnsureRoom ==
  /\ ~room /\ room' = TRUE /\ recomputed' = FALSE
  /\ UNCHANGED <<linkVars, entry, closed, fan, partVars, job, orders, overlapped>>

\* registerRemotePub, AddRemotePublisher: fails without the room, and while the
\* entry is taken; otherwise everyone in the room gets a down track.
AddRemotePublisher(t) ==
  /\ At(t, "register")
  /\ LET k == Head(job[t]).track
         p == FreshPub
         members == SetToSeq(Listed)
     IN  \/ /\ ~room \/ entry # None
            /\ Continue(t, <<>>)
            /\ UNCHANGED <<entry, closed, fan>>
         \/ /\ room /\ entry = None /\ \E q \in Pubs : ~InUse(q)
            /\ entry' = p /\ closed' = {q \in closed : InUse(q)} /\ fan' = [fan EXCEPT ![p] = {}]
            /\ Continue(t, [i \in 1..Len(members) |-> ForListener("ensure", p, members[i])]
                             \o <<ForPub("rebuild", p), [op |-> "store", track |-> k, pub |-> p]>>)
  /\ UNCHANGED <<linkVars, room, partVars>>

\* Mutant: the speaker is not looked at again.
StorePublisherOnly(t) ==
  /\ At(t, "store")
  /\ rp' = [rp EXCEPT ![Head(job[t]).track] = Head(job[t]).pub]
  /\ Continue(t, <<>>)
  /\ UNCHANGED <<sess, reg, track, speaker, pubVars, partVars>>

StorePublisher(t) ==
  /\ At(t, "store")
  /\ rp' = [rp EXCEPT ![Head(job[t]).track] = Head(job[t]).pub]
  /\ Continue(t, <<ForTrack("recheck", Head(job[t]).track)>>)
  /\ UNCHANGED <<sess, reg, track, speaker, pubVars, partVars>>

\* The track has ended or been replaced during its registration.
Recheck(t) ==
  /\ At(t, "recheck")
  /\ LET k == Head(job[t]).track
     IN  Continue(t, IF speaker # k THEN <<ForTrack("drop", k)>> ELSE <<>>)
  /\ UNCHANGED <<linkVars, pubVars, partVars>>

\* RemotePublisher.Close: the flag, then the entry, if it is its own.  The down
\* tracks stay, for the next publisher of the same track.
ClosePublisher(t) ==
  /\ At(t, "closePub")
  /\ LET p == Head(job[t]).pub
     IN  /\ closed' = closed \cup {p}
         /\ Continue(t, IF p \in closed THEN <<>> ELSE <<ForPub("unlist", p)>>)
  /\ UNCHANGED <<linkVars, room, entry, fan, partVars>>

Unlist(t) ==
  /\ At(t, "unlist")
  /\ LET p == Head(job[t]).pub
     IN  entry' = (IF entry = p THEN None ELSE entry) /\ fan' = [fan EXCEPT ![p] = {}]
  /\ Continue(t, <<>>)
  /\ UNCHANGED <<linkVars, room, closed, partVars>>

\* Mutant: only the callback of the track registers it.
RecomputeNothing(t) ==
  /\ At(t, "recompute")
  /\ Continue(t, <<>>)
  /\ UNCHANGED <<linkVars, pubVars, partVars>>

\* recompute, its third part: what is not registered is tried again.
RecomputeRoom(t) ==
  /\ At(t, "recompute")
  /\ Continue(t, IF speaker # None /\ rp[speaker] = None
                 THEN <<ForTrack("register", speaker)>> ELSE <<>>)
  /\ UNCHANGED <<linkVars, pubVars, partVars>>

-----------------------------------------------------------------------------
(* Listeners                                                               *)

\* remoteShouldForward.
RemoteShouldForward(l) == l \in Listed /\ l \notin unsub

\* Mutant: a down track that is there is left as it is.
EnsureKeepsOwner(t) ==
  /\ At(t, "ensure")
  /\ LET s == Head(job[t])
         wanted == s.pub \notin closed /\ RemoteShouldForward(s.listener)
     IN  Continue(t, IF wanted /\ owner[s.listener] = None
                     THEN <<ForListener("insert", s.pub, s.listener)>> ELSE <<>>)
  /\ UNCHANGED <<linkVars, pubVars, partVars>>

\* ensureRemoteDownTrack: takes over a down track that is there, or makes one
\* outside the lock and then puts it in.
EnsureRemoteDownTrack(t) ==
  /\ At(t, "ensure")
  /\ LET s == Head(job[t])
         wanted == s.pub \notin closed /\ RemoteShouldForward(s.listener)
         there == owner[s.listener] # None
     IN  /\ owner' = IF wanted /\ there THEN [owner EXCEPT ![s.listener] = s.pub] ELSE owner
         /\ Continue(t, IF wanted /\ ~there THEN <<ForListener("insert", s.pub, s.listener)>> ELSE <<>>)
  /\ UNCHANGED <<linkVars, pubVars, part, unsub>>

InsertDownTrack(t) ==
  /\ At(t, "insert")
  /\ LET s == Head(job[t])
     IN  owner' = IF s.listener \in Listed THEN [owner EXCEPT ![s.listener] = s.pub] ELSE owner
  /\ Continue(t, <<>>)
  /\ UNCHANGED <<linkVars, pubVars, part, unsub>>

\* rebuildRemoteFanout.
RebuildRemoteFanout(t) ==
  /\ At(t, "rebuild")
  /\ LET p == Head(job[t]).pub
     IN  fan' = IF p \in closed THEN fan
                ELSE [fan EXCEPT ![p] = {l \in Listeners : owner[l] = p /\ RemoteShouldForward(l)}]
  /\ Continue(t, <<>>)
  /\ UNCHANGED <<linkVars, room, entry, closed, partVars>>

\* snapshotRemotePubs, and a step for the publisher found.
ForEachPub(steps) == IF entry = None THEN <<>> ELSE steps
EnsureAndRebuild(l) == ForEachPub(<<ForListener("ensure", entry, l), ForPub("rebuild", entry)>>)
RebuildAll == ForEachPub(<<ForPub("rebuild", entry)>>)

\* Manager.Join, its call of cascadeDemand.
Join(l) ==
  /\ room /\ part[l] = "out" /\ part' = [part EXCEPT ![l] = "in"]
  /\ Start(<<"join", l>>, <<Recompute>>)
  /\ UNCHANGED <<linkVars, pubVars, owner, unsub, orders>>

\* attachPublishersToSubscriber, its last loop.
Connected(l) ==
  /\ part[l] = "in" /\ part' = [part EXCEPT ![l] = "connected"]
  /\ Start(<<"connect", l>>, EnsureAndRebuild(l))
  /\ UNCHANGED <<linkVars, pubVars, owner, unsub, orders>>

\* setSubscription, its last loop, and the demand.
SetSubscription(l, want) ==
  /\ Order /\ l \in Listed
  /\ unsub' = IF want THEN unsub \ {l} ELSE unsub \cup {l}
  /\ Start(<<"loop", l>>, (IF want THEN EnsureAndRebuild(l) ELSE RebuildAll) \o <<Recompute>>)
  /\ UNCHANGED <<linkVars, pubVars, part, owner>>

\* removeParticipant.
Leave(l) ==
  /\ l \in Listed /\ part' = [part EXCEPT ![l] = "gone"]
  /\ owner' = [owner EXCEPT ![l] = None]
  /\ Start(<<"join", l>>, RebuildAll \o <<Recompute>>)
  /\ UNCHANGED <<linkVars, pubVars, unsub, orders>>

\* OnDemandChanged and the other callers of recompute, for other reasons.
Demand ==
  /\ Order /\ Start(Hook, <<Recompute>>)
  /\ UNCHANGED <<linkVars, pubVars, partVars>>

-----------------------------------------------------------------------------
Advance(t) ==
  /\ job[t] # <<>>
  /\ \/ CloseSession(t) \/ OnEdgeClosed(t) \/ OnRemoteTrack(t) \/ ReadLoop(t)
     \/ OnRemoteSpeakerEnded(t) \/ DropPublisher(t)
     \/ AddRemotePublisher(t) \/ StorePublisher(t) \/ Recheck(t)
     \/ ClosePublisher(t) \/ Unlist(t) \/ RecomputeRoom(t)
     \/ EnsureRemoteDownTrack(t) \/ InsertDownTrack(t) \/ RebuildRemoteFanout(t)

Next ==
  \/ EnsureRoom \/ Demand
  \/ \E t \in Threads : Advance(t)
  \/ \E s \in Sessions : Establish(s) \/ Breaks(s)
  \/ \E k \in Tracks : OnTrack(k) \/ LoopReturns(k)
  \/ \E l \in Listeners : \/ Join(l) \/ Connected(l) \/ Leave(l)
                          \/ \E want \in BOOLEAN : SetSubscription(l, want)

Spec == Init /\ [][Next]_vars

-----------------------------------------------------------------------------
\* WriteRTP: the listeners that a packet of publisher p reaches now.
WriteRTP(p) == IF p \in closed THEN {} ELSE fan[p]

\* The two tables agree about what is registered: with nothing under way, the
\* room's publisher belongs to the speaker in force and is open, and no other
\* speaker holds a publisher.  One left behind would keep its entry, and
\* AddRemotePublisher would refuse the track for ever.
NoStaleRegistration ==
  Quiet =>
    /\ entry # None => speaker # None /\ rp[speaker] = entry /\ entry \notin closed
    /\ \A k \in Tracks : rp[k] # None => k = speaker /\ rp[k] = entry

\* "recompute will try the local registration again" (onRemoteTrack): whatever
\* overlapped before, a recomputation with nothing beside it leaves the speaker
\* in force registered, if there is a room.
RecomputeHeals ==
  Quiet /\ recomputed /\ room /\ speaker # None => entry # None /\ rp[speaker] = entry

\* As long as operations have come one after the other, no arrival is taken
\* for a loop, and the speaker in force is heard by exactly those who are
\* connected and have not unsubscribed, although publishers come and go over
\* the same down tracks.
HeardAlone ==
  Quiet /\ ~overlapped =>
    /\ \A k \in Tracks : track[k] # "drained"
    /\ speaker # None => \A l \in Listeners : part[l] = "connected" =>
         rp[speaker] # None /\ (l \in WriteRTP(rp[speaker]) <=> l \notin unsub)
=============================================================================
