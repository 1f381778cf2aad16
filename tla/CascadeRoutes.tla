---------------------------- MODULE CascadeRoutes ----------------------------
(***************************************************************************)
(* Which tracks cross which edge (internal/cascade manager.go recompute    *)
(* and its callers, the frames and the negotiation of edge.go): nodes in a *)
(* line, each edge a connection with a session at either end.  Demand runs *)
(* along the edges as want frames, tracks follow it hop by hop.  When a    *)
(* connection breaks, each end finds out by itself, the child dials again, *)
(* and each end registers its new session by itself; the parent may still  *)
(* have the old one then.  CascadeLinks is about the handshake; here a     *)
(* connection breaks once both ends have registered it.                    *)
(*                                                                         *)
(* One dimension of demand and one track per speaker stand for the two     *)
(* (audio, and screen with its companion), which recompute treats alike    *)
(* and side by side.  An event and the locked part of the recompute it     *)
(* ends in are one step; the frames that recompute collects are sent after *)
(* the lock, those of concurrent recomputes in any order.                  *)
(***************************************************************************)
EXTENDS Integers, FiniteSets, Sequences, SequencesExt, FiniteSetsExt, WantSets

CONSTANTS
  N,          \* nodes 1..N, neighbours are connected
  Home,       \* the node of each speaker
  Seat,       \* the node of each listener; a listener is a user too
  Parents,    \* of the two ends of each edge the one that listens
  MaxChanges, \* bound: publications, subscriptions, rights, broken connections
  MaxFaults   \* bound: calls of the media library that fail

Nodes == 1..N
Speakers == DOMAIN Home
Listeners == DOMAIN Seat
Ends == {e \in Nodes \X Nodes : e[1] - e[2] \in {-1, 1}}
Neighbours(n) == {m \in Nodes : <<n, m>> \in Ends}
Back(e) == <<e[2], e[1]>>

ASSUME PlaceAssumption == N \in Nat /\ Range(Home) \cup Range(Seat) \subseteq Nodes
ASSUME ParentAssumption == Parents \subseteq Ends /\ \A e \in Ends : e \in Parents <=> Back(e) \notin Parents
ASSUME BoundAssumption == MaxChanges \in Nat /\ MaxFaults \in Nat

VARIABLES
  local,     \* roomState.localSpeakers of each node
  present,   \* listeners in their rooms
  unsub,     \* the speakers that each listener has unsubscribed
  right,     \* nodes whose forwardingAllowed holds
  remote,    \* roomState.remoteSpeakers: the neighbour a track comes from, 0 for none,
             \* -m if it comes from a session with m that another has superseded
  link,      \* at the end <<n, m>>, what n has of the edge: no session (off), one that it
             \* has yet to register (new), a registered one (on), a registered one on a
             \* broken connection (dead), the last and a new one (late)
  peerWant,  \* ... edgeSession.peerWant of the registered session
  seen,      \* ... .peerWantSeen
  myWant,    \* ... .myWant
  sent,      \* ... .myWantSent
  out,       \* ... .outTracks
  neg,       \* ... .negotiating: idle, making (an offer), waiting (for the answer)
  pending,   \* ... .negPending
  unsent,    \* wants that recomputes at this end have yet to send
  chan,      \* frames on the way from n to m
  recv,      \* tracks in the receiving peer connection of m's registered session
  refused,   \* those of them that onRemoteTrack has refused as a loop
  changes, faults,
  overtaken,  \* a want has been sent before an older one
  overlapped, \* a session that tracks came from has been superseded
  dropped     \* a track has been refused

nodeVars == <<local, present, unsub, right>>
wantVars == <<peerWant, seen, myWant, sent, unsent>>
trackVars == <<out, neg, pending>>
endVars == <<wantVars, trackVars, remote, link>>
mediaVars == <<recv, refused>>
ghosts == <<overtaken, overlapped, dropped>>
vars == <<nodeVars, endVars, chan, mediaVars, changes, faults, ghosts>>

\* The nodes on the far side of the edge.
Beyond(e) == IF e[1] < e[2] THEN e[2]..N ELSE 1..e[2]

\* LocalDemand of node n, with the listeners p and their subscriptions u.
Demand(n, p, u) == LocalDemand({[uid |-> l, unsub |-> u[l]] : l \in {x \in p : Seat[x] = n}})

\* Connected, some listeners are there, and the nodes have told each other.
Init ==
  /\ local = [n \in Nodes |-> {}]
  /\ remote = [n \in Nodes |-> [k \in Speakers |-> 0]]
  /\ unsub \in [Listeners -> SUBSET Speakers] /\ right = Nodes
  /\ present \in SUBSET Listeners
  /\ myWant = [e \in Ends |-> UnionAll({Demand(n, present, unsub) : n \in Beyond(Back(e))})]
  /\ peerWant = [e \in Ends |-> myWant[Back(e)]]
  /\ seen = [e \in Ends |-> TRUE] /\ sent = [e \in Ends |-> TRUE]
  /\ out = [e \in Ends |-> {}] /\ neg = [e \in Ends |-> "idle"]
  /\ pending = {}
  /\ unsent = [e \in Ends |-> <<>>] /\ chan = [e \in Ends |-> <<>>]
  /\ recv = [e \in Ends |-> {}] /\ refused = [e \in Ends |-> {}]
  /\ link = [e \in Ends |-> "on"] /\ changes = 0 /\ faults = 0
  /\ overtaken = FALSE /\ overlapped = FALSE /\ dropped = FALSE

Change == changes < MaxChanges /\ changes' = changes + 1
Fault == faults < MaxFaults /\ faults' = faults + 1

\* The end has a registered session.
Up(l) == l \in {"on", "dead", "late"}

-----------------------------------------------------------------------------
(* recompute, in terms of the state that the event leaves                  *)

\* Mutant: a track is offered to the edge it came from too.
DesiredEverywhere(n, m, loc, rem, rgt, pw, sn) ==
  IF n \in rgt /\ sn[<<n, m>>]
  THEN {k \in Speakers : (k \in loc[n] \/ rem[n][k] # 0) /\ Wants(pw[<<n, m>>], k)} ELSE {}

\* The out-tracks to m: local ones and those of other edges, if m wants them.
Desired(n, m, loc, rem, rgt, pw, sn) ==
  IF n \in rgt /\ sn[<<n, m>>]
  THEN {k \in Speakers : (k \in loc[n] \/ rem[n][k] \notin {0, m}) /\ Wants(pw[<<n, m>>], k)} ELSE {}

\* NodeWant towards m: the node's own demand and that of its other edges.
NodeWant(n, m, p, u, pw, sn) ==
  LET others == {o \in Neighbours(n) \ {m} : sn[<<n, o>>]}
  IN  FoldSet(LAMBDA o, w : Union(w, pw[<<n, o>>]), Demand(n, p, u), others)

\* The locked part, at the nodes ns; the other ends stay as they are.  The
\* arguments are the values after the event; the sessions at the ends in reset
\* are gone or new.  First the wants ...
RecomputeWants(ns, pw, sn, reset) ==
  LET want == [e \in Ends |-> NodeWant(e[1], e[2], present', unsub', pw, sn)]
      tell == {e \in Ends : e[1] \in ns /\ Up(link'[e])
                            /\ (e \in reset \/ ~sent[e] \/ ~Equal(want[e], myWant[e]))}
  IN  /\ peerWant' = pw /\ seen' = sn
      /\ myWant' = [e \in Ends |-> IF e \in tell THEN want[e]
                                   ELSE IF e \in reset THEN WantNone ELSE myWant[e]]
      /\ sent' = [e \in Ends |-> (sent[e] /\ e \notin reset) \/ e \in tell]
      /\ unsent' = [e \in Ends |-> (IF e \in reset THEN <<>> ELSE unsent[e])
                                   \o (IF e \in tell THEN <<ToWire(want[e])>> ELSE <<>>)]

\* ... then the out-tracks: removeOutTrackLocked takes out those that are not
\* desired any more.  addOutTrackLocked may fail for some of the new ones (bad):
\* they are left out, to be tried again by the next recompute.
OutTracks(ns, pw, sn, reset) ==
  [e \in Ends |-> IF e[1] \in ns THEN Desired(e[1], e[2], local', remote', right', pw, sn)
                  ELSE IF e \in reset THEN {} ELSE out[e]]
Without(tracks, bad) == [e \in Ends |-> {k \in tracks[e] : <<e, k>> \notin bad}]

RecomputeTracks(ns, pw, sn, reset) ==
  LET was(e) == IF e \in reset THEN {} ELSE out[e]
      begins(e) == out'[e] # was(e) /\ (e \in reset \/ neg[e] = "idle")
      desired == OutTracks(ns, pw, sn, reset)
      added == {x \in Ends \X Speakers : x[2] \in desired[x[1]] \ was(x[1])}
  IN  /\ \/ UNCHANGED faults /\ out' = desired
         \/ Fault /\ \E bad \in (SUBSET added) \ {{}} : out' = Without(desired, bad)
      /\ neg' = [e \in Ends |-> IF begins(e) THEN "making" ELSE IF e \in reset THEN "idle" ELSE neg[e]]
      /\ pending' = (pending \ reset) \cup {e \in Ends : out'[e] # was(e) /\ ~begins(e)}

RecomputeAt(ns, pw, sn, reset) == RecomputeWants(ns, pw, sn, reset) /\ RecomputeTracks(ns, pw, sn, reset)

Recompute(n) == RecomputeAt({n}, peerWant, seen, {})

-----------------------------------------------------------------------------
(* Events of the rooms and of the control channel                          *)

\* OnPublishChanged.
OnPublishChanged(k) ==
  /\ Change
  /\ local' = [local EXCEPT ![Home[k]] = IF k \in @ THEN @ \ {k} ELSE @ \cup {k}]
  /\ UNCHANGED <<present, unsub, right, remote, link>>
  /\ Recompute(Home[k])
  /\ UNCHANGED <<chan, mediaVars, ghosts>>

\* OnDemandChanged, after a listener came or went, ...
OnPresenceChanged(l) ==
  /\ Change
  /\ present' = IF l \in present THEN present \ {l} ELSE present \cup {l}
  /\ UNCHANGED <<local, unsub, right, remote, link>>
  /\ Recompute(Seat[l])
  /\ UNCHANGED <<chan, mediaVars, ghosts>>

\* ... or after a change of its subscriptions.
OnSubscriptionChanged(l, k) ==
  /\ Change /\ l \in present
  /\ unsub' = [unsub EXCEPT ![l] = IF k \in @ THEN @ \ {k} ELSE @ \cup {k}]
  /\ UNCHANGED <<local, present, right, remote, link>>
  /\ Recompute(Seat[l])
  /\ UNCHANGED <<chan, mediaVars, ghosts>>

\* A lease, an epoch or the watchdog changes forwardingAllowed.
OnRightChanged(n) ==
  /\ Change
  /\ right' = IF n \in right THEN right \ {n} ELSE right \cup {n}
  /\ UNCHANGED <<local, present, unsub, remote, link>>
  /\ Recompute(n)
  /\ UNCHANGED <<chan, mediaVars, ghosts>>

-----------------------------------------------------------------------------
(* The sessions of an edge                                                 *)

\* The connection breaks; what was on the way is lost.
Cut(e) ==
  /\ Change /\ link[e] = "on" /\ link[Back(e)] = "on"
  /\ link' = [link EXCEPT ![e] = "dead", ![Back(e)] = "dead"]
  /\ chan' = [chan EXCEPT ![e] = <<>>, ![Back(e)] = <<>>]
  /\ UNCHANGED <<nodeVars, wantVars, trackVars, remote, mediaVars, faults, ghosts>>

\* The session at this end goes, with its out-tracks and the tracks in its
\* receiving peer connection.
Renew(e) ==
  /\ UNCHANGED <<nodeVars, chan>>
  /\ RecomputeAt({e[1]}, [peerWant EXCEPT ![e] = WantNone], [seen EXCEPT ![e] = FALSE], {e})
  /\ recv' = [recv EXCEPT ![Back(e)] = {}]
  /\ refused' = [refused EXCEPT ![Back(e)] = {}]

\* What n has of the tracks, those from a becoming tracks from b.
FromElse(n, a, b) == [remote EXCEPT ![n] = [k \in Speakers |-> IF @[k] = a THEN b ELSE @[k]]]

\* This end finds the connection broken: close, onEdgeClosed.
OnEdgeClosed(e) ==
  /\ link[e] = "dead"
  /\ link' = [link EXCEPT ![e] = "off"]
  /\ remote' = FromElse(e[1], e[2], 0)
  /\ Renew(e)
  /\ UNCHANGED <<changes, ghosts>>

\* The child, whose session has ended, dials, and the parent accepts it, whether
\* or not it has found the old connection broken.
Dial(e) ==
  /\ e \in Parents /\ link[e] \in {"off", "dead"} /\ link[Back(e)] = "off"
  /\ link' = [link EXCEPT ![e] = IF @ = "off" THEN "new" ELSE "late", ![Back(e)] = "new"]
  /\ UNCHANGED <<nodeVars, wantVars, trackVars, remote, chan, mediaVars, changes, faults, ghosts>>

\* edgeEstablished: the new session takes the place of an old one, whose tracks
\* stay until it is closed.
EdgeEstablished(e) ==
  /\ link[e] \in {"new", "late"}
  /\ link' = [link EXCEPT ![e] = "on"]
  /\ remote' = FromElse(e[1], e[2], -e[2])
  /\ overlapped' = (overlapped \/ remote' # remote)
  /\ Renew(e)
  /\ UNCHANGED <<changes, overtaken, dropped>>

\* onEdgeClosed of superseded sessions.  The new one waits for old.close, which
\* returns at once if the old session's own goroutine has begun to close it.
CloseSuperseded(e) ==
  /\ \E k \in Speakers : remote[e[1]][k] = -e[2]
  /\ remote' = FromElse(e[1], -e[2], 0)
  /\ UNCHANGED <<nodeVars, link>>
  /\ Recompute(e[1])
  /\ UNCHANGED <<chan, mediaVars, changes, ghosts>>

-----------------------------------------------------------------------------
(* Frames                                                                  *)

\* A frame is sent: on a broken connection it is lost.
Send(e, frame) == IF link[e] = "on" THEN [chan EXCEPT ![e] = Append(@, frame)] ELSE chan

\* The sends that recompute collected, after the lock.
SendWant(e, i) ==
  /\ i \in 1..Len(unsent[e])
  /\ unsent' = [unsent EXCEPT ![e] = RemoveAt(@, i)]
  /\ chan' = Send(e, [t |-> "want", body |-> unsent[e][i]])
  /\ overtaken' = (overtaken \/ i > 1)
  /\ UNCHANGED <<nodeVars, peerWant, seen, myWant, sent, trackVars, remote, link>>
  /\ UNCHANGED <<mediaVars, changes, faults, overlapped, dropped>>

\* doNegotiateSend: the offer names the out-tracks of now.
DoNegotiateSend(e) ==
  /\ neg[e] = "making"
  /\ neg' = [neg EXCEPT ![e] = "waiting"]
  /\ chan' = Send(e, [t |-> "offer", body |-> out[e]])
  /\ UNCHANGED <<nodeVars, wantVars, out, pending, remote, link>>
  /\ UNCHANGED <<mediaVars, changes, faults, ghosts>>

\* ... an offer that fails resets negotiating, and leaves negPending.
NegotiationFails(e) ==
  /\ neg[e] = "making" /\ Fault
  /\ neg' = [neg EXCEPT ![e] = "idle"]
  /\ UNCHANGED <<nodeVars, wantVars, out, pending, remote, link>>
  /\ UNCHANGED <<chan, mediaVars, changes, ghosts>>

\* The session at the other end reads a frame, once it is registered.
Arrives(e, t) == link[Back(e)] = "on" /\ chan[e] # <<>> /\ Head(chan[e]).t = t
Body(e) == Head(chan[e]).body

\* handleFrame: want, onPeerWant.
OnPeerWant(e) ==
  /\ Arrives(e, "want")
  /\ UNCHANGED <<nodeVars, remote, link>>
  /\ RecomputeAt({e[2]}, [peerWant EXCEPT ![Back(e)] = FromWire(Body(e))],
                 [seen EXCEPT ![Back(e)] = TRUE], {})
  /\ chan' = [chan EXCEPT ![e] = Tail(@)]
  /\ UNCHANGED <<mediaVars, changes, ghosts>>

\* handleRemoteOffer: the receiving peer connection takes over the tracks.
HandleRemoteOffer(e) ==
  /\ Arrives(e, "offer")
  /\ recv' = [recv EXCEPT ![e] = Body(e)]
  /\ refused' = [refused EXCEPT ![e] = @ \cap Body(e)]
  /\ chan' = [chan EXCEPT ![e] = Tail(@), ![Back(e)] = Append(@, [t |-> "answer", body |-> {}])]
  /\ UNCHANGED <<nodeVars, endVars, changes, faults, ghosts>>

\* ... or fails, before or after SetRemoteDescription: there is no answer, and
\* the sender waits for one as long as the session lasts.
RemoteOfferFails(e) ==
  /\ Arrives(e, "offer") /\ Fault
  /\ \/ UNCHANGED mediaVars
     \/ recv' = [recv EXCEPT ![e] = Body(e)] /\ refused' = [refused EXCEPT ![e] = @ \cap Body(e)]
  /\ chan' = [chan EXCEPT ![e] = Tail(@)]
  /\ UNCHANGED <<nodeVars, endVars, changes, ghosts>>

\* handleAnswer, after SetRemoteDescription: and once more if there was a change
\* meanwhile.
Answered(e) ==
  /\ neg' = [neg EXCEPT ![Back(e)] = IF Back(e) \in pending THEN "making" ELSE "idle"]
  /\ pending' = pending \ {Back(e)}
  /\ chan' = [chan EXCEPT ![e] = Tail(@)]
  /\ UNCHANGED <<nodeVars, wantVars, out, remote, link, changes, ghosts>>

\* Mutant: every answer is followed by another offer.
HandleAnswerAgain(e) ==
  /\ Arrives(e, "answer")
  /\ neg' = [neg EXCEPT ![Back(e)] = "making"]
  /\ pending' = pending \ {Back(e)}
  /\ chan' = [chan EXCEPT ![e] = Tail(@)]
  /\ UNCHANGED <<nodeVars, wantVars, out, remote, link, mediaVars, changes, faults, ghosts>>

HandleAnswer(e) == Arrives(e, "answer") /\ Answered(e) /\ UNCHANGED <<mediaVars, faults>>

\* ... an error of SetRemoteDescription is logged; tracks of the offer may never
\* reach the neighbour.
AnswerRefused(e) ==
  /\ Arrives(e, "answer") /\ Fault /\ Answered(e)
  /\ \E lost \in SUBSET recv[Back(e)] :
       /\ recv' = [recv EXCEPT ![Back(e)] = @ \ lost]
       /\ refused' = [refused EXCEPT ![Back(e)] = @ \ lost]

-----------------------------------------------------------------------------
(* Tracks                                                                  *)

\* onRemoteTrack, classifyRemoteTrack: a track that is local here (a loop) or
\* comes from another session already (duplicate_origin) is drained for as long
\* as it is on offer, any other is a remote speaker from now on.
OnRemoteTrack(e, k) ==
  LET m == e[2]
      loop == k \in local[m] \/ remote[m][k] # 0
  IN  /\ k \in recv[e] \ refused[e] /\ remote[m][k] # e[1]
      /\ UNCHANGED <<nodeVars, link>>
      /\ IF loop
         THEN /\ dropped' = TRUE
              /\ refused' = [refused EXCEPT ![e] = @ \cup {k}]
              /\ UNCHANGED <<wantVars, trackVars, remote, faults>>
         ELSE /\ remote' = [remote EXCEPT ![m][k] = e[1]]
              /\ Recompute(m)
              /\ UNCHANGED <<dropped, refused>>
      /\ UNCHANGED <<chan, recv, changes, overtaken, overlapped>>

\* remoteReadLoop ends, onRemoteSpeakerEnded: the track is no longer on offer, or
\* its session's connection is broken.
OnRemoteSpeakerEnded(e, k) ==
  /\ \/ remote[e[2]][k] = e[1] /\ (k \notin recv[e] \/ link[Back(e)] # "on")
     \/ remote[e[2]][k] = -e[1]
  /\ remote' = [remote EXCEPT ![e[2]][k] = 0]
  /\ recv' = IF remote[e[2]][k] = e[1] THEN [recv EXCEPT ![e] = @ \ {k}] ELSE recv
  /\ UNCHANGED <<nodeVars, link>>
  /\ Recompute(e[2])
  /\ UNCHANGED <<chan, refused, changes, ghosts>>

-----------------------------------------------------------------------------
Media(e) ==
  \/ DoNegotiateSend(e) \/ OnPeerWant(e) \/ HandleRemoteOffer(e) \/ HandleAnswer(e)
  \/ \E k \in Speakers : OnRemoteTrack(e, k) \/ OnRemoteSpeakerEnded(e, k)
  \/ SendWant(e, 1)

Relink(e) == OnEdgeClosed(e) \/ Dial(e) \/ EdgeEstablished(e) \/ CloseSuperseded(e)

Fails(e) == NegotiationFails(e) \/ RemoteOfferFails(e) \/ AnswerRefused(e)

Next ==
  \/ \E k \in Speakers : OnPublishChanged(k)
  \/ \E l \in Listeners : OnPresenceChanged(l) \/ \E k \in Speakers : OnSubscriptionChanged(l, k)
  \/ \E n \in Nodes : OnRightChanged(n)
  \/ \E e \in Ends : Media(e) \/ Relink(e) \/ Fails(e) \/ \E i \in 2..Len(unsent[e]) : SendWant(e, i)
  \/ \E e \in Parents : Cut(e)

Spec == Init /\ [][Next]_vars

\* Frames that were sent arrive, goroutines run, broken connections are noticed
\* (the read deadline) and the child dials again; nothing has to change or fail.
FairSpec == Spec /\ \A e \in Ends : WF_vars(Media(e)) /\ WF_vars(Relink(e))

-----------------------------------------------------------------------------
(* Properties                                                              *)

\* Type invariant; unless a call failed, a negotiation that is pending waits for
\* another that is under way.
TypeOK ==
  /\ \A n \in Nodes : local[n] \subseteq {k \in Speakers : Home[k] = n}
  /\ present \subseteq Listeners /\ right \subseteq Nodes
  /\ \A n \in Nodes, k \in Speakers : \E m \in Neighbours(n) : remote[n][k] \in {-m, 0, m}
  /\ \A e \in Ends : peerWant[e] \in WantSet(Speakers \cup Listeners) /\ myWant[e] \in WantSet(Speakers \cup Listeners)
  /\ \A e \in Ends : /\ link[e] \in {"off", "new", "on", "dead", "late"}
                     /\ neg[e] \in {"idle", "making", "waiting"} /\ out[e] \subseteq Speakers
                     /\ refused[e] \subseteq recv[e]
  /\ pending \subseteq Ends /\ (faults > 0 \/ \A e \in pending : neg[e] # "idle")

\* Nothing is under way.
Quiet ==
  /\ \A e \in Ends : link[e] = "on" /\ unsent[e] = <<>> /\ chan[e] = <<>> /\ neg[e] = "idle"
  /\ \A n \in Nodes, k \in Speakers : remote[n][k] >= 0
  /\ \A e \in Ends, k \in Speakers : k \in recv[e] \ refused[e] <=> remote[e[2]][k] = e[1]

\* The hops from node h to node n.
Hops(h, n) == {e \in Ends : IF h < n THEN h <= e[1] /\ e[1] < e[2] /\ e[2] <= n
                            ELSE n <= e[2] /\ e[2] < e[1] /\ e[1] <= h}

\* k is published, and each hop to n is allowed and has somebody beyond it who
\* wants k.
Due(k, n) ==
  /\ k \in local[Home[k]]
  /\ \A e \in Hops(Home[k], n) :
       e[1] \in right /\ \E x \in Beyond(e) : Wants(Demand(x, present, unsub), k)

\* Demand and tracks agree end to end: when all frames have been handled, a node
\* has a speaker's track exactly if the path allows it and somebody at this node
\* or further down wants it, and has it from the side of its home, whichever
\* connections broke and were replaced.  Excepted are wants that overtook each
\* other, calls that failed, and tracks refused for an old session's sake, which
\* are refused until they are offered anew.
RoutesExact ==
  Quiet /\ ~overtaken /\ faults = 0 /\ (\A e \in Ends : refused[e] = {}) =>
    \A k \in Speakers : \A n \in Nodes \ {Home[k]} :
      IF Due(k, n) THEN remote[n][k] = n + (IF Home[k] < n THEN -1 ELSE 1)
      ELSE remote[n][k] = 0

\* A tree has no loops for classifyRemoteTrack to find: it refuses a track only
\* where a session was superseded before its tracks were removed.  Then a track
\* may even be offered back to where it came from, but not for good: when all
\* frames have been handled nobody has a track from the side away from its home.
NoLoop ==
  /\ dropped => overlapped
  /\ Quiet /\ faults = 0 => \A n \in Nodes, k \in Speakers :
       remote[n][k] # 0 => IF remote[n][k] < n THEN Home[k] < n ELSE n < Home[k]

\* Wants and offers do not go round for ever, and broken connections are
\* replaced: what was asked for comes to rest.
ComesToRest == <>[](Quiet \/ faults > 0)

\* What a node was last told is what its neighbour last decided ("dedup of want
\* messages": myWant is taken to be what the peer knows).  No invariant: two
\* recomputations may send in the other order (README, findings).
WantsKnown == Quiet => \A e \in Ends : seen[e] => Equal(peerWant[e], myWant[Back(e)])
=============================================================================
