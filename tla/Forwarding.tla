----------------------------- MODULE Forwarding -----------------------------
(***************************************************************************)
(* Audio forwarding inside one room (internal/room room.go, forward.go).   *)
(* A publisher's packets go to the down tracks in its fanout, a snapshot   *)
(* that forwardLoop reads without a lock.  The down tracks and the fanouts *)
(* are maintained by many goroutines: OnTrack callbacks, the read loops'   *)
(* epilogues, connection callbacks, the websocket loops (subscribe and     *)
(* unsubscribe), the control channel (UpdateParticipantCaps) and whoever   *)
(* closes a session.                                                       *)
(*                                                                         *)
(* job[t] is what goroutine t has left to do: a sequence of steps, each of *)
(* them one critical section or atomic access of the code.  A step that is *)
(* a call or a loop replaces itself by the steps of its body.              *)
(*                                                                         *)
(* A down track is <<publisher, subscriber, k>>, k telling apart the ones  *)
(* made for the same pair.  dt.active is not kept: it is written together  *)
(* with the unsubscription under sub.mu and read together with it.  Each   *)
(* user has one session.  Renegotiation is the subject of Negotiation,     *)
(* cascade sinks and screen tracks are left out.                           *)
(***************************************************************************)
EXTENDS Naturals, FiniteSets, Sequences, SequencesExt

CONSTANTS
  Parts,      \* participants of the room
  Publishers, \* the ones whose clients publish audio
  MaxActive,  \* bound: goroutines in the midst of an operation
  MaxTracks,  \* bound: upstream tracks a participant publishes in turn
  MaxOrders,  \* bound: subscription frames and caps commands
  None        \* the participant of the control thread

ASSUME PartsAssumption == IsFiniteSet(Parts) /\ Publishers \subseteq Parts /\ None \notin Parts
ASSUME BoundAssumption == MaxActive \in Nat /\ MaxTracks \in Nat /\ MaxOrders \in Nat

VARIABLES
  life,        \* out, in (Room.parts), connected, closed (still listed), left
  caps,        \* Participant.caps, the audio part: publish, subscribe
  publishing,  \* participants with Participant.publishing
  tracks,      \* upstream tracks a participant has published so far
  down,        \* Participant.downTracks: the k of the track, 0 if there is none
  bound,       \* down tracks that a peer connection sends
  unsub,       \* Participant.unsubscribed, the audio dimension
  fanout,      \* Participant.fanout; nil forwards as little as the empty list
  job,         \* the steps each goroutine has left
  orders,      \* subscription frames and caps commands so far
  overlapped,  \* two operations have ever been under way at the same time
  pkt,         \* the packet in forwardLoop: none, read, passed (the caps gate)
  held         \* the publisher had publish at some moment since that packet was read

roomVars == <<life, caps, publishing, tracks, down, bound, unsub>>
pktVars == <<pkt, held>>
vars == <<roomVars, fanout, job, orders, overlapped, pktVars>>

Caps == {"publish", "subscribe"}

\* The control channel's loop, and per participant: its websocket loop, its
\* connection callback, the OnTrack callback, the read loop's epilogue and the
\* goroutine that closes it.
Control == <<"control", None>>
Threads == {Control} \cup ({"loop", "connect", "track", "ended", "close"} \X Parts)

Active == {t \in Threads : job[t] # <<>>}
Quiet == Active = {}

\* A goroutine begins an operation.
Start(t, steps) ==
  /\ job[t] = <<>>
  /\ Cardinality(Active) < MaxActive
  /\ job' = [job EXCEPT ![t] = steps]
  /\ overlapped' = (overlapped \/ Active # {})

\* A subscription frame or a caps command arrives.
Order == orders < MaxOrders /\ orders' = orders + 1

\* Its next step is an op; the step is replaced by what it calls.
At(t, op) == job[t] # <<>> /\ Head(job[t]).op = op
Continue(t, steps) == job' = [job EXCEPT ![t] = steps \o Tail(job[t])] /\ UNCHANGED <<orders, overlapped>>

\* snapshotParts; closed participants are listed until they are removed.
Listed == {p \in Parts : life[p] \in {"in", "connected", "closed"}}
Live(p) == life[p] \in {"in", "connected"}

Ensure(pub, sub)    == [op |-> "ensure", pub |-> pub, sub |-> sub]
Create(pub, sub)    == [op |-> "create", pub |-> pub, sub |-> sub]
Drop(pub, sub)      == [op |-> "remove", pub |-> pub, sub |-> sub]
Follow(pub, sub)    == [op |-> "follow", pub |-> pub, sub |-> sub]
Rebuild(pub)        == [op |-> "rebuild", pub |-> pub]
Attach(pub)         == [op |-> "attach", pub |-> pub]
Detach(pub)         == [op |-> "detach", pub |-> pub]
Announce(pub)       == [op |-> "announce", pub |-> pub]
Task(op, p)         == [op |-> op, p |-> p]
Collect(pub, may, rest, list) ==
  [op |-> "collect", pub |-> pub, may |-> may, rest |-> rest, list |-> list]

Init ==
  /\ life = [p \in Parts |-> "out"]
  /\ caps = [p \in Parts |-> {}]
  /\ publishing = {}
  /\ tracks = [p \in Parts |-> 0]
  /\ down = [s \in Parts |-> [p \in Parts |-> 0]]
  /\ bound = {}
  /\ unsub = [s \in Parts |-> {}]
  /\ fanout = [p \in Parts |-> {}]
  /\ job = [t \in Threads |-> <<>>]
  /\ orders = 0
  /\ overlapped = FALSE
  /\ pkt = [p \in Parts |-> "none"]
  /\ held = [p \in Parts |-> FALSE]

\* forward.go ShouldForward.
ShouldForward(pub, sub) ==
  /\ "publish" \in caps[pub]
  /\ "subscribe" \in caps[sub]
  /\ pub \notin unsub[sub]

-----------------------------------------------------------------------------
(* Down tracks                                                             *)

\* ensureDownTrack, the checks up to the unlock of sub.mu.
EnsureDownTrack(t) ==
  /\ At(t, "ensure")
  /\ LET s == Head(job[t])
     IN  Continue(t, IF /\ Live(s.sub) /\ s.pub \in publishing
                        /\ ShouldForward(s.pub, s.sub)
                        /\ down[s.sub][s.pub] = 0
                     THEN <<Create(s.pub, s.sub)>> ELSE <<>>)
  /\ UNCHANGED <<roomVars, fanout, pktVars>>

\* Down tracks still referred to by a connection, a fanout or a rebuild.
Lists == UNION {Head(job[t]).list : t \in {u \in Threads : At(u, "collect")}}
Referenced == bound \cup (UNION {fanout[p] : p \in Parts}) \cup Lists

FreshDt(pub, sub) ==
  CHOOSE k \in 1..(Cardinality(Referenced) + 1) : <<pub, sub, k>> \notin Referenced

\* ... then AddTrack, unless the connection is closed, and the map entry, which
\* replaces one made in between.
CreateDownTrack(t) ==
  /\ At(t, "create")
  /\ LET s == Head(job[t])
         k == FreshDt(s.pub, s.sub)
     IN  IF Live(s.sub)
         THEN /\ bound' = bound \cup {<<s.pub, s.sub, k>>}
              /\ down' = [down EXCEPT ![s.sub][s.pub] = k]
         ELSE UNCHANGED <<bound, down>>
  /\ Continue(t, <<>>)
  /\ UNCHANGED <<life, caps, publishing, tracks, unsub, fanout, pktVars>>

\* removeDownTrack: delete the entry under sub.mu, RemoveTrack.
RemoveDownTrack(t) ==
  /\ At(t, "remove")
  /\ LET s == Head(job[t])
     IN  /\ down' = [down EXCEPT ![s.sub][s.pub] = 0]
         /\ bound' = bound \ {<<s.pub, s.sub, down[s.sub][s.pub]>>}
  /\ Continue(t, <<>>)
  /\ UNCHANGED <<life, caps, publishing, tracks, unsub, fanout, pktVars>>

\* The steps of a loop over a snapshot, in whatever order the map yields.
ForEach(S, step(_)) == {[i \in DOMAIN o |-> step(o[i])] : o \in SetToSeqs(S)}

\* Mutant: the publisher is not left out of the loop.
AttachEveryone(t) ==
  /\ At(t, "attach")
  /\ LET pub == Head(job[t]).pub
         One(s) == Ensure(pub, s)
     IN  \E loop \in ForEach(Listed, One) : Continue(t, loop \o <<Rebuild(pub)>>)
  /\ UNCHANGED <<roomVars, fanout, pktVars>>

\* attachSubscribersToPublisher.
AttachSubscribers(t) ==
  /\ At(t, "attach")
  /\ LET pub == Head(job[t]).pub
         One(s) == Ensure(pub, s)
     IN  \E loop \in ForEach(Listed \ {pub}, One) : Continue(t, loop \o <<Rebuild(pub)>>)
  /\ UNCHANGED <<roomVars, fanout, pktVars>>

\* attachPublishersToSubscriber, and one turn of its loop.
AttachPublishers(t) ==
  /\ At(t, "attachPubs")
  /\ LET sub == Head(job[t]).p
         One(p) == Follow(p, sub)
     IN  \E loop \in ForEach(Listed \ {sub}, One) : Continue(t, loop)
  /\ UNCHANGED <<roomVars, fanout, pktVars>>

AttachPublisher(t) ==
  /\ At(t, "follow")
  /\ LET s == Head(job[t])
     IN  Continue(t, IF s.pub \in publishing
                     THEN <<Ensure(s.pub, s.sub), Rebuild(s.pub)>> ELSE <<>>)
  /\ UNCHANGED <<roomVars, fanout, pktVars>>

\* detachPublisher.
DetachPublisher(t) ==
  /\ At(t, "detach")
  /\ LET pub == Head(job[t]).pub
         One(s) == Drop(pub, s)
     IN  /\ fanout' = [fanout EXCEPT ![pub] = {}]
         /\ \E loop \in ForEach(Listed \ {pub}, One) : Continue(t, loop)
  /\ UNCHANGED <<roomVars, pktVars>>

-----------------------------------------------------------------------------
(* rebuildFanout                                                           *)

\* Read the publisher's caps and the list of members ...
StartRebuild(t) ==
  /\ At(t, "rebuild")
  /\ LET pub == Head(job[t]).pub
     IN  Continue(t, <<Collect(pub, "publish" \in caps[pub], Listed \ {pub}, {})>>)
  /\ UNCHANGED <<roomVars, fanout, pktVars>>

\* ... look at one subscriber under sub.mu ...
CollectDownTrack(t) ==
  /\ At(t, "collect")
  /\ LET s == Head(job[t])
     IN  \E sub \in s.rest :
           LET dt == {<<s.pub, sub, k>> : k \in {down[sub][s.pub]} \ {0}}
               on == /\ Live(sub) /\ s.may
                     /\ "subscribe" \in caps[sub] /\ s.pub \notin unsub[sub]
           IN  Continue(t, <<Collect(s.pub, s.may, s.rest \ {sub},
                                     IF on THEN s.list \cup dt ELSE s.list)>>)
  /\ UNCHANGED <<roomVars, fanout, pktVars>>

\* ... and store the snapshot, whatever has been stored meanwhile.
StoreFanout(t) ==
  /\ At(t, "collect")
  /\ Head(job[t]).rest = {}
  /\ fanout' = [fanout EXCEPT ![Head(job[t]).pub] = Head(job[t]).list]
  /\ Continue(t, <<>>)
  /\ UNCHANGED <<roomVars, pktVars>>

-----------------------------------------------------------------------------
(* Joining, publishing, leaving                                            *)

\* Manager.Join inserts the participant with the caps of its token.
Join(p, c) ==
  /\ life[p] = "out"
  /\ life' = [life EXCEPT ![p] = "in"]
  /\ caps' = [caps EXCEPT ![p] = c]
  /\ UNCHANGED <<publishing, tracks, down, bound, unsub, fanout, job, orders, overlapped, pktVars>>

\* OnConnectionStateChange(Connected), the first time.
Connected(p) ==
  /\ life[p] = "in"
  /\ life' = [life EXCEPT ![p] = "connected"]
  /\ Start(<<"connect", p>>, <<Task("attachPubs", p)>>)
  /\ UNCHANGED orders
  /\ UNCHANGED <<caps, publishing, tracks, down, bound, unsub, fanout, pktVars>>

\* onAudioTrack: publishing is set, then the caps are read.
OnAudioTrack(p) ==
  /\ life[p] = "connected"
  /\ p \in Publishers \ publishing
  /\ tracks[p] < MaxTracks
  /\ publishing' = publishing \cup {p}
  /\ tracks' = [tracks EXCEPT ![p] = @ + 1]
  /\ Start(<<"track", p>>, <<Announce(p)>>)
  /\ UNCHANGED orders
  /\ UNCHANGED <<life, caps, down, bound, unsub, fanout, pktVars>>

\* A track without the cap is held: nothing is attached.
AnnounceTrack(t) ==
  /\ At(t, "announce")
  /\ LET p == Head(job[t]).pub
     IN  Continue(t, IF "publish" \in caps[p] THEN <<Attach(p)>> ELSE <<>>)
  /\ UNCHANGED <<roomVars, fanout, pktVars>>

\* forwardLoop runs once onAudioTrack has attached the subscribers.
Forwarding(p) == p \in publishing /\ job[<<"track", p>>] = <<>>

\* The read loop has returned: the epilogue clears publishing, ...
TrackEnds(p) ==
  /\ Forwarding(p) /\ pkt[p] = "none"
  /\ publishing' = publishing \ {p}
  /\ Start(<<"ended", p>>, <<Task("trackEnded", p)>>)
  /\ UNCHANGED orders
  /\ UNCHANGED <<life, caps, tracks, down, bound, unsub, fanout, pktVars>>

\* ... then reads closed and the caps, and takes a published track down.
TakeDown(t) ==
  /\ At(t, "trackEnded")
  /\ LET p == Head(job[t]).p
     IN  Continue(t, IF Live(p) /\ "publish" \in caps[p] THEN <<Detach(p)>> ELSE <<>>)
  /\ UNCHANGED <<roomVars, fanout, pktVars>>

\* Participant.Close: the closed flag and pc.Close, then removeParticipant.
Close(p) ==
  /\ Live(p)
  /\ life' = [life EXCEPT ![p] = "closed"]
  /\ bound' = {dt \in bound : dt[2] # p}
  /\ Start(<<"close", p>>, <<Task("unlist", p)>>)
  /\ UNCHANGED orders
  /\ UNCHANGED <<caps, publishing, tracks, down, unsub, fanout, pktVars>>

RemoveParticipant(t) ==
  /\ At(t, "unlist")
  /\ life' = [life EXCEPT ![Head(job[t]).p] = "left"]
  /\ Continue(t, <<Detach(Head(job[t]).p)>>)
  /\ UNCHANGED <<caps, publishing, tracks, down, bound, unsub, fanout, pktVars>>

-----------------------------------------------------------------------------
(* Subscribe, unsubscribe, UpdateParticipantCaps                           *)

\* setSubscription: the bookkeeping under sub.mu, then the publisher if listed.
SetSubscription(sub, pub, want) ==
  /\ Order
  /\ Live(sub) /\ pub # sub
  /\ unsub' = [unsub EXCEPT ![sub] = IF want THEN @ \ {pub} ELSE @ \cup {pub}]
  /\ Start(<<"loop", sub>>, <<[op |-> "apply", pub |-> pub, sub |-> sub, want |-> want]>>)
  /\ UNCHANGED <<life, caps, publishing, tracks, down, bound, fanout, pktVars>>

\* Mutant: an unsubscription leaves the fanout as it is.
ApplyWithoutRebuild(t) ==
  /\ At(t, "apply")
  /\ LET s == Head(job[t])
     IN  Continue(t, IF s.pub \in Listed /\ s.want
                     THEN <<Ensure(s.pub, s.sub), Rebuild(s.pub)>> ELSE <<>>)
  /\ UNCHANGED <<roomVars, fanout, pktVars>>

ApplySubscription(t) ==
  /\ At(t, "apply")
  /\ LET s == Head(job[t])
     IN  Continue(t, IF s.pub \notin Listed THEN <<>>
                     ELSE IF s.want THEN <<Ensure(s.pub, s.sub), Rebuild(s.pub)>>
                     ELSE <<Rebuild(s.pub)>>)
  /\ UNCHANGED <<roomVars, fanout, pktVars>>

\* UpdateCaps finds the participant in its room; applyCaps replaces its caps
\* and carries out what was taken and what was given, in this order.
ApplyCaps(p, new) ==
  /\ Order
  /\ p \in Listed
  /\ caps' = [caps EXCEPT ![p] = new]
  /\ held' = [held EXCEPT ![p] = @ \/ "publish" \in new]
  /\ LET Lost(c)   == c \in caps[p] \ new
         Gained(c) == c \in new \ caps[p]
         Do(b, op) == IF b THEN <<Task(op, p)>> ELSE <<>>
     IN  Start(Control, Do(Lost("publish"), "publishLost")
                        \o Do(Gained("publish"), "publishGained")
                        \o Do(Lost("subscribe"), "subscribeLost")
                        \o Do(Gained("subscribe"), "attachPubs")
                        \o <<Task("rebuildAll", p)>>)
  /\ UNCHANGED <<life, publishing, tracks, down, bound, unsub, fanout, pkt>>

PublishLost(t) ==
  /\ At(t, "publishLost")
  /\ LET p == Head(job[t]).p
     IN  /\ fanout' = [fanout EXCEPT ![p] = {}]
         /\ Continue(t, IF p \in publishing THEN <<Detach(p)>> ELSE <<>>)
  /\ UNCHANGED <<roomVars, pktVars>>

\* Mutant: a held track is not attached when its publisher is given the cap.
HeldTrackForgotten(t) ==
  /\ At(t, "publishGained")
  /\ Continue(t, <<>>)
  /\ UNCHANGED <<roomVars, fanout, pktVars>>

\* A track that is up, a held one too, is attached at once.
PublishGained(t) ==
  /\ At(t, "publishGained")
  /\ LET p == Head(job[t]).p
     IN  Continue(t, IF p \in publishing THEN <<Attach(p)>> ELSE <<>>)
  /\ UNCHANGED <<roomVars, fanout, pktVars>>

SubscribeLost(t) ==
  /\ At(t, "subscribeLost")
  /\ LET p == Head(job[t]).p
         One(pub) == Drop(pub, p)
     IN  \E loop \in ForEach({q \in Parts : down[p][q] # 0}, One) : Continue(t, loop)
  /\ UNCHANGED <<roomVars, fanout, pktVars>>

RebuildAll(t) ==
  /\ At(t, "rebuildAll")
  /\ \E loop \in ForEach(Listed, Rebuild) : Continue(t, loop)
  /\ UNCHANGED <<roomVars, fanout, pktVars>>

-----------------------------------------------------------------------------
(* forwardLoop                                                             *)

ReadPacket(p) ==
  /\ Forwarding(p) /\ pkt[p] = "none"
  /\ pkt' = [pkt EXCEPT ![p] = "read"]
  /\ held' = [held EXCEPT ![p] = "publish" \in caps[p]]
  /\ UNCHANGED <<roomVars, fanout, job, orders, overlapped>>

\* Mutant: packets are not checked against the caps.
GateOpen(p) ==
  /\ pkt[p] = "read"
  /\ pkt' = [pkt EXCEPT ![p] = "passed"]
  /\ UNCHANGED <<roomVars, fanout, job, orders, overlapped, held>>

\* Without the cap the packet is dropped.
GatePacket(p) ==
  /\ pkt[p] = "read"
  /\ pkt' = [pkt EXCEPT ![p] = IF "publish" \in caps[p] THEN "passed" ELSE "none"]
  /\ UNCHANGED <<roomVars, fanout, job, orders, overlapped, held>>

\* Load the fanout and write to every track in it; a track that no connection
\* sends any more drops what it is given.
WritePacket(p) ==
  /\ pkt[p] = "passed"
  /\ pkt' = [pkt EXCEPT ![p] = "none"]
  /\ held' = [held EXCEPT ![p] = FALSE]
  /\ UNCHANGED <<roomVars, fanout, job, orders, overlapped>>

Audience(p) == {dt[2] : dt \in fanout[p] \cap bound}

-----------------------------------------------------------------------------
Step(t) ==
  \/ EnsureDownTrack(t) \/ CreateDownTrack(t) \/ RemoveDownTrack(t)
  \/ AttachSubscribers(t) \/ AttachPublishers(t) \/ AttachPublisher(t) \/ DetachPublisher(t)
  \/ StartRebuild(t) \/ CollectDownTrack(t) \/ StoreFanout(t)
  \/ AnnounceTrack(t) \/ TakeDown(t) \/ RemoveParticipant(t) \/ ApplySubscription(t)
  \/ PublishLost(t) \/ PublishGained(t) \/ SubscribeLost(t) \/ RebuildAll(t)

Packet(p) == ReadPacket(p) \/ GatePacket(p) \/ WritePacket(p)

\* Everyone has left.
AllLeft ==
  /\ Quiet
  /\ \A p \in Parts : life[p] = "left" /\ p \notin publishing
  /\ UNCHANGED vars

Next ==
  \/ AllLeft
  \/ \E t \in Threads : Step(t)
  \/ \E p \in Parts :
       \/ Connected(p) \/ OnAudioTrack(p) \/ TrackEnds(p) \/ Close(p) \/ Packet(p)
       \/ \E c \in SUBSET Caps : Join(p, c) \/ ApplyCaps(p, c)
       \/ \E q \in Publishers, want \in BOOLEAN : SetSubscription(p, q, want)

Spec == Init /\ [][Next]_vars

-----------------------------------------------------------------------------
(* Properties                                                              *)

\* Type invariant.  Nobody has a down track of itself, and what a down track
\* map names is sent by the subscriber's connection while that is open.
TypeOK ==
  /\ life \in [Parts -> {"out", "in", "connected", "closed", "left"}]
  /\ caps \in [Parts -> SUBSET Caps]
  /\ publishing \subseteq Publishers
  /\ tracks \in [Parts -> 0..MaxTracks]
  /\ unsub \in [Parts -> SUBSET Parts]
  /\ \A s, p \in Parts :
       /\ down[s][p] \in Nat
       /\ down[s][p] # 0 => s # p /\ (Live(s) => <<p, s, down[s][p]>> \in bound)
  /\ \A dt \in Referenced : dt[1] \in Publishers /\ dt[2] \in Parts \ {dt[1]}
  /\ \A p \in Parts : \A dt \in fanout[p] : dt[1] = p
  /\ orders \in 0..MaxOrders
  /\ pkt \in [Parts -> {"none", "read", "passed"}]

\* sub is to hear pub, as soon as nothing is under way.
Eligible(pub, sub) ==
  /\ pub # sub /\ Live(pub) /\ life[sub] = "connected"
  /\ pub \in publishing
  /\ ShouldForward(pub, sub)

\* No down track is missed: once nothing is under way, everyone who is to hear
\* a publisher has a down track for it that its connection sends, whichever of
\* publishing, connecting, subscribing and granting of caps overlapped.
TracksComplete ==
  Quiet => \A pub, sub \in Parts :
    Eligible(pub, sub) => <<pub, sub, down[sub][pub]>> \in bound

\* Once nothing is under way, a publisher's packets reach exactly those who
\* are to hear it.
FanoutExact ==
  Quiet => \A pub, sub \in Parts :
    pub \in publishing /\ "publish" \in caps[pub] /\ Live(pub) /\ life[sub] = "connected"
      => (sub \in Audience(pub) <=> Eligible(pub, sub))

\* "Unsubscribe ... really stops the forwarding" (manager.go): once nothing is
\* under way, no publisher in service sends to one who has unsubscribed it.  No
\* invariant: an overtaken rebuild may store last (README, findings).
UnsubscribedSilent ==
  Quiet => \A sub \in Parts : \A pub \in unsub[sub] \cap publishing :
    Live(pub) => sub \notin Audience(pub)

\* FanoutExact holds as long as operations have come one after the other,
\* whatever their sequence; and then nobody keeps a track of a departed one.
FanoutExactAlone ==
  ~overlapped => /\ FanoutExact
                 /\ Quiet => \A p, s \in Parts :
                      life[p] = "left" /\ Live(s) => down[s][p] = 0

\* A publisher without the cap is silent: a packet that was read after the
\* cap was taken reaches nobody, even when an overtaken rebuild has put the
\* fanout back.
RevokedPublisherSilent ==
  [][\A p \in Parts : pkt[p] = "passed" /\ pkt'[p] = "none" /\ Audience(p) # {} => held[p]]_vars
=============================================================================
