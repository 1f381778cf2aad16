# Newt-SFU: TLA+ models, checks and proofs

Newt-SFU is the media node of NewtSpeak: clients connect over a websocket,
send and receive WebRTC media, and the node forwards packets between the members
of a room.  The Server (another program) issues tokens and commands the node over
a gRPC stream.  This directory models the parts of the node in which goroutines
meet, and the files it must find after a crash; checks them with TLC on small
instances; and proves with TLAPS, for every instance, the safety of the session
tables, of the negotiation flags, of the control channel, of a screen's life, of the
cascade's gates, sessions and routes, and of the files.

## 1. Inventory

| Component | Source | State | Operations | Talks to |
|---|---|---|---|---|
| signalling | `internal/signal` | one goroutine per websocket | auth, refresh, offer, answer, subscribe, unsubscribe, set_layer | auth, room |
| tokens | `internal/auth` | keys, revocation table | Verify, Revoke, janitor | signalling, control |
| room: sessions | `internal/room` manager.go, participant.go | `bySID`, `rooms`, `Room.parts`, `closed`, gauges | Join, Close, removeParticipant, EnsureRoom, CloseRoom, DisconnectUser, CloseSession, CloseAll | everything |
| room: negotiation | participant.go | `negotiating`, `negPending`, `sigMu`, signalling state | negotiate, doNegotiate, HandleOffer, HandleAnswer | client |
| room: audio | room.go, forward.go | `publishing`, `downTracks`, `fanout`, `unsubscribed`, `caps` | onAudioTrack, ensure/removeDownTrack, rebuildFanout, setSubscription, applyCaps, forwardLoop | negotiation, cascade |
| room: screen | screen.go, track.go | layers, `screenPublishing`, `screenDown`, `screenTracks` counter | onScreenTrack, finishScreenPublish, SetScreenLayer, applyScreenCaps | the same |
| room: cascade interface | cascade_api.go | `remotePubs`, `cascadeSinks` | AddRemotePublisher, AttachCascadeSink, LocalDemand | cascade |
| cascade | `internal/cascade` | leases, epochs, edge sets, edge sessions, wants | SetAnchorLease, SetCascadeEdges, dial loop, recompute, edge negotiation | other nodes, room |
| control | `internal/control` | outbox, ack cache, current stream | enqueue, runOnce, handleCommand | Server, all backends |
| migration | `internal/migrate` | none | Mark, MigrateOut | room |
| main | `cmd/newt-sfu` | draining, shutdown sequence | SIGTERM, waitDrained, CloseAll | room, control |
| identity | `internal/enroll` | key, certificate and CA files | enroll, renew | Server |
| self-update | `internal/update` | in-flight flag, binary and backup | Apply | control |
| audit, stats, engine, config, observability | `internal/...` | recorders, counters | recording, sampling | room |

What is hard here: every session has at least four goroutines that may close it
(websocket loop, peer connection callbacks, expiry watchdog, control loop, a later
connection with the same sid); `Close` has one winner and its losers return before
the work is done; commands look a session up and act on it after the lock is
released; fanouts are rebuilt from many goroutines and stored without comparison;
two negotiation flags are shared by all of them; the control stream breaks between a
command and its ack.  Between nodes, leases, edge sets, connections and wants arrive
independently and are superseded while they are handled; a track is kept in two
tables under two locks; on disk, several files must agree although a crash may come
between any two writes.  `PROJECT.json` lists these hazards line by line, with the
properties that cover each.

What makes each component correct: the two session tables agree and lose nobody;
rooms are reclaimed and counted exactly; revocation is final; the cap holds; one
SFU offer at a time and every change reaches the client; everyone who should hear a
publisher has a down track and nobody else hears it; a screen is counted once, ends
with its last layer and is shown in the layer asked for; messages are accounted for
and commands carried out once; media crosses an edge only under a running lease of
the edge's epoch; edges that both nodes hold get connected and reported; tracks cross
exactly the edges behind which they are wanted; and the node can start after a crash.

## 2. Modules

| Module | Models | Extended by |
|---|---|---|
| `Sessions` | life of sessions and rooms on one node | `MCSessions`, `SessionsProofs` |
| `Negotiation` | SDP negotiation of one participant with its client | `MCNegotiation`, `RoomProofs` |
| `Forwarding` | down tracks, fanouts, subscriptions and caps in one room | `MCForwarding`, `RoomProofs` |
| `ControlChannel` | outbox, streams, commands and acks | `MCControlChannel`, `NodeProofs` |
| `ScreenShare` | a publisher's screen, its layers and companion, its viewers and sinks | `MCScreenShare`, `ScreenShareProofs` |
| `LeaseGate` | abstract: what an edge's gate promises | instantiated by `CascadeGate` |
| `CascadeGate` | leases, epochs and the gate of an edge on one node | `MCCascadeGate`, `CascadeGateProofs` |
| `CascadeLinks` | both ends of an edge: orders, dialling, handshake, sessions, reports | `MCCascadeLinks`, `CascadeLinksProofs` |
| `WantSets` | the algebra of demand (operators only) | `CascadeRoutes` |
| `CascadeRoutes` | wants, out-tracks and offers over a line of nodes | `MCCascadeRoutes`, `CascadeRoutesProofs` |
| `RemoteTracks` | a track from another node in the cascade's and the room's tables | `MCRemoteTracks`, `RemoteTracksProofs` |
| `NodeFiles` | identity files and binary through enrollment, renewal, update and crashes | `MCNodeFiles`, `NodeProofs` |
| the modules `...Proofs` | theorems and proofs about the module they are named after (`CascadeRoutesProofs` also about `WantSets`; `NodeProofs` about `ControlChannel` and `NodeFiles`, whose specification is therefore called `FilesSpec`; `RoomProofs` about `Forwarding` and `Negotiation`, whose specification is `NegSpec`) | |

The cascade is divided by question.  `CascadeGate` asks when media may cross an edge
and takes sessions as given; `CascadeLinks` asks how sessions come about and leaves out
what they carry; `CascadeRoutes` composes the nodes of a line, using `WantSets` for
demand, and reduces the making of a link to what its two ends notice and register;
`RemoteTracks` composes the
cascade's table of remote speakers with the room's table of remote publishers on the
receiving node.

The operators next to an action that are introduced by `Mutant:` are broken variants
of it, with the same parameters.  They are not part of the specification; replacing
the action by the variant must violate a property, which shows that the property
notices that mistake.

**Sessions.**  `pc[c]` is where the goroutine `Server.session` of connection `c` is,
inside `Manager.Join` in particular; `stage[c]` is the life of the `Participant`
it creates: live, closing (it won the `closed` flag), detached (out of the tables,
reports outstanding), gone.  An action is one critical section of `Manager.mu` or
one atomic access.  The interesting windows are therefore all there: between
`Verify` and the insertion, between the lookup of the old session and its `Close`,
between the flag and the removal, between the unlock and the gauge.  Rooms are
numbered objects, because a room id may be closed and opened again while members of
the old object are still being removed.  The control loop and `main` are two
threads that take a list of participants under the lock and close them in turn; each
waits inside `Close` if it won the flag.
Tokens: `spent` says that every token the Server ever issued for a sid has expired.
It is used for revoked sids only, for which the Server issues no more tokens; the
janitor forgets a revocation after 15 minutes (`revTTL`), by when those tokens have
expired.  That tokens live shorter than `revTTL` is the code's own assumption.
Left out: the `migrating` flag (nothing reads it), the toggles of audit and hidden in
`RefreshToken`, broadcasts and their content.

**Negotiation.**  `version` counts the changes of the down tracks, an SFU offer
carries the version at its creation and `known` is what the client has applied.
`doNegotiate` is split at its unlocks,
and `Close` into the flag and the closing of the connections.  Calls of the peer connection
may fail (`MaxFaults` of them): an offer or its local description (`OfferFails`, then
`ForgetRequest`: the request is forgotten), the handling of a client's offer, before or after
the remote description is set (`AnswerFails`), and the client's answer (`AnswerRefused`: the
flags are cleared, the connection stays where it was).  Nothing in the code takes the
signalling state back after such a failure.  As long as none has happened `HandleOffer`
holds `sigMu` from the offer to its answer, and the suspension in `doNegotiate`, and with it
`retryPendingNegotiation`, come into play only for a participant that is being closed;
a failure that leaves the state unstable suspends every negotiation after it (finding 15).
The client is a parameter: `Polite` clients
roll their own offer back when an SFU offer arrives (browsers doing perfect
negotiation); `Polite = FALSE` is `readLoop` of `cmd/loadbot`, which logs an error.

**Forwarding.**  A goroutine's remaining work is a sequence of steps, `job[t]`; each
step is one critical section, and a call or a loop replaces itself by its body, in
any order where the code ranges over a map.  `rebuildFanout` is split into the
reading of the publisher's caps and the members, the look at each subscriber, and
the store.  Packets pass through `ReadPacket`, `GatePacket` and `WritePacket`, because
the caps gate and the load of the fanout are separate accesses.  The epilogue of a read loop
is two steps, the flag (`TrackEnds`) and, by what it finds of `closed` and caps afterwards, the
taking down (`TakeDown`).
`dt.active` is not kept: it is written with the unsubscription under `sub.mu` and
read with it.  Each user has one session; screen tracks and cascade sinks are
`ScreenShare`'s, remote publishers `RemoteTracks`'.

**ControlChannel.**  Streams are numbered; the sender goroutine of a broken stream
may still be at work when the next stream is registered.  The Server is external: it
repeats an unacknowledged command until it sees the ack, and has at most `Pipeline`
consecutive commands unacknowledged.  The model assumes
`AckWindow >= 2 * Pipeline - 1`: with a smaller window a repeated command may have
been pushed out of the cache by the commands around it and would run twice.  The
code has `ackWindow = 1024` and does not state a limit on the Server's side.

**ScreenShare.**  Uplink tracks have a transceiver and a rid; `OnTrack` is called for
each layer, and `Admit` is the critical section that makes it the first, another
layer, or a refused second screen.  `Announce`, `CascadePublish`, `TellEnded` and
`ReportEnded` are the reports made outside the lock, `Epilogue` what a read loop does
when it returns, `Finish`, `ClearLayers` and `Uncount` the three parts of
`finishScreenPublish`.  A withdrawal of the cap finishes the publication and stops the two
uplinks one after the other (`Withdrawal`).  A rebuild is one step here (how stale snapshots overwrite newer
ones is `Forwarding`'s subject), and `PickScreenLayer` the choice of the layer for the
quality a viewer asked for.

**CascadeGate.**  `running` is what the clock says about the lease; a recomputation is
two steps, the reading of the clock and the critical section, so it may act on an
instant that is over.  A clock that was read while a lease ran counts as running for a
decision, and so does any reading that is older than the lease in force at the decision
(`LeaseSeen`).  `Tick` is the watchdog, comparing the right with `lastAllowed`.
The abstract specification `LeaseGate` has three variables: `right`, `late` (a decision
made by right is still under way) and `open`.  The mapping takes
`ForwardingAllowed(running)` for `right`, the existence of a goroutine between clock and
lock for `late`, and an open gate on a session that is not closed for `open`.
`LeaseGate` says that the gate opens only by right or late, and that one left open
without either is shut in the end.

**CascadeLinks.**  The edge of one room between a parent, which listens, and a child,
which dials.  The Server's orders reach each node in any order, any number of times;
what the code rejects as stale is a guard.  A connection has a session at either
end (`held`), each with `established` and `closed`; `reg` is the session table.
`edgeEstablished`, `onEdgeClosed`, `closeRemoved`, the dial loop and the handshake are
split at their unlocks.  An order carries the edge token; the parent verifies the one it is
presented (`VerifyToken`), and a token may expire (`Expire`), after which the dialler is
refused until an order brings another.

**WantSets, CascadeRoutes.**  One kind of demand stands for the two (audio, screen),
which `recompute` treats alike.  An event and the locked part of the recomputation it
ends in are one step; what the recomputation collects is sent afterwards
(`unsent`), in any order.  Offers carry the set of out-tracks; the receiver's tracks
follow them.  Nodes are in a line, because the Server builds trees and a path of a tree
is a line.  `link` is what each end has of an edge.  A connection breaks (`Cut`), and each
end notices by itself (`OnEdgeClosed`); the child dials again (`Dial`), and each end registers
the new session by itself (`EdgeEstablished`), the parent perhaps while it still has the old
one.  The tracks of a session that was superseded are kept until its own `onEdgeClosed`
(`CloseSuperseded`): they are marked `-m`, and a track that arrives over the new session
meanwhile is refused as a loop, and stays refused until it is offered anew (finding 11).
Superseded sessions with one neighbour are not told apart, and a connection breaks only once
both ends have registered it.  Adding a track, making an offer, handling one and applying an
answer may fail (`MaxFaults`).

**RemoteTracks.**  Arrivals of one speaker's track over two sessions of an edge;
`speaker` is the cascade's entry, `entry` the room's, `rp` the pointer between the two.
`registerRemotePub`, with its re-check after the store, `remoteReadLoop`,
`onRemoteSpeakerEnded`, `onEdgeClosed`, `RemotePublisher.Close` and the down tracks
taken over by the next publisher are all split at their unlocks.  A new publisher is an
object that nothing refers to any more; `MaxPubs` bounds how many are in use, and a
registration waits for one.  The room is one the Server ensures: once there it stays, and
the properties speak of such rooms only.

**NodeFiles.**  A file is the number of the issuance it comes from; 0 is no file, `torn`
a file written in part.  A crash ends the process and leaves the files as the calls before
it made them; `atomicWrite` does not sync, so nothing is said about a loss of power.  The
SHA-256 of an update is optional: with one the download is the version ordered or fails,
without one it is any (`Download`).  Enrollment writes in place, in any order (it ranges over a
map), renewal through a temporary file and a rename, which is one step: the rename is
atomic.  `idWindow` and `binWindow` mark the stretches in which the files do not belong
together; they are history variables that the model sets where the code starts to
replace and clears where it is done.  `CrashSafe` excepts exactly these stretches, which are
exposed in the code, and says that no other point is.

## 3. Runs

| Run | Instance | Shows |
|---|---|---|
| `sessions` | c1, c2 of one sid, c3 of another; one room id; one command or signal | tables, rooms and gauge stay consistent |
| `sessions_live` | the same with a cap of one user; fairness | the cap holds; a revoked session is closed, for good |
| `sessions_served` | as `sessions` | violated: finding 1 |
| `negotiation` | three changes, three client offers, polite client, one failing call; fairness | one offer at a time whatever fails; changes arrive and client offers settle unless a call failed |
| `forwarding` | one publisher, one listener, two overlapping operations, two frames or commands | no down track missed, exact fanout without overlap, revoked publisher silent |
| `control_channel` | outbox of 1, window 3, pipeline 2, three streams; fairness | nothing unaccounted, commands run once and are acknowledged |
| `screen` | two layers, a plain screen, a companion, one viewer, a sink; two tracks sent, two orders, two operations at a time | the counter is exact, an ended screen is ended, viewers get their layer |
| `cascade_gate` | two sessions, two epochs, three orders; fairness | the gate refines `LeaseGate`; the watchdog sees what is wrong |
| `cascade_links` | three edge sets (up, withdrawn, another endpoint), three orders, two connections, one fault (a broken connection or an expired token); fairness | sessions are those in force, none is lost, agreeing nodes with a good token get connected, and are reported so |
| `cascade_routes` | three nodes, a speaker at one end, listeners at the two others, any two changes, broken connections among them, one failing call; fairness | tracks follow demand exactly; a track is refused only after a supersession, and none comes from behind for good; the exchange rests |
| `remote_tracks` | two sessions, three possible arrivals, one listener, two orders, two operations at a time | the two tables agree, a recomputation heals, the speaker is heard |
| `node_files` | four certificates, three versions, three crashes or failures; fairness | crash safety, the exit of an update leaves a binary, due certificates are renewed |

**Bounds.**  Two connections with one sid are the least for supersession, the third
gives the room another member and the index another entry.  `MaxRooms = 4` leaves a
Room object for each join and one for `EnsureRoom`; with the cap of `sessions_live`, three do.
One command meets every state of the joins.  `MaxActive = 2` lets any two operations
overlap, which is enough for a lost update; the fanouts of two publishers never
interact, so one publisher and one listener show what can happen to a pair.  An outbox
of one is full as soon as it is used; two messages then meet the dropping and the
putting back; three streams give a late sender of the first while the second breaks.  The
three commands just fill the window of acks, so nothing is pushed out of it in the run; the
theorem about `RunsOnce` covers longer ones.
Two layers and a plain track meet replacement, refusal and the last layer's end.  Sinks
come and go for the screen only (`SinkKinds`): the companion's sink enters another fanout,
in the same way.  The two arrivals of one session in `remote_tracks` are interchangeable,
and that run checks invariants only, so they are a symmetry set.  Two
epochs are an old and a new one; three orders set an edge up, take it away and set it
up again.  Three nodes are the least with a node that only passes things on, as the second
does when its listener is away; two
changes meet each other at every stage, and a publication with a broken connection is enough
for a superseded session and a refused track.  Three faults give a failed renewal, a failed
retry and a crash.

**Deadlock** is checked in the runs of the first four modules and of `ScreenShare`: the
only states without a step are the explicit resting states (`AllOver`, `AtRest`,
`AllLeft`, `Gone`), so a goroutine that waited for ever would be reported.  In the
other runs the system comes to rest when the bounds are used up.

**Fairness.**  Goroutines that can run do run (the Go scheduler), tickers tick, and time
passes (`Expire`).  Clients and the Server owe nothing, with these exceptions:
in `Negotiation` the client reads its frames and sends the offer it wants to make;
in `ControlChannel` the Server reads its stream and repeats unacknowledged commands,
and the stream breaks finitely often (`MaxStreams`); in `CascadeLinks` a listener accepts;
in `CascadeRoutes` frames of a connection arrive, as TCP delivers them, a broken one is
noticed at either end (read deadline, `edge.go`) and the child goes on dialling; in `NodeFiles`
the renewer's loop goes on, and faults are finitely many.  In `Sessions` fairness is
weak fairness of each session's own steps together, which is less than what the
scheduler gives.

`PROJECT.json` names for every property a mutant that breaks it, and for every
definition the lines it models.

## 4. Findings

Each was met while modelling, and is quoted with its lines in `PROJECT.json`.  The ones
without a run of their own are reproduced by the change in brackets.

Sessions, negotiation, audio:

1. `ServedIsIndexed` (run `sessions_served`).  `removeParticipant` removes by sid.
   When a session is already closing (its websocket failed, say), a reconnection's
   `old.Close` returns at once, the new session is inserted, and the removal under way
   deletes the new session from both tables.  It stays connected without media and
   out of reach of `RevokeSession` and `UpdateParticipantCaps`.
   What holds nevertheless is proved below: the index is never wrong, only incomplete,
   and nobody who left is listed.  `RevokedEventuallyClosed` holds, thanks to the
   expiry watchdog.
2. With a client that does not roll back, crossing offers leave `negotiating` set
   [`MCNegotiation.cfg` with `Polite = FALSE` and `ChangesReachClient` alone].
3. Of two overlapping rebuilds the one that read earlier may store last, and an
   unsubscribed listener goes on being sent to [`UnsubscribedSilent` as an invariant in
   `MCForwarding.cfg`].  `FanoutExactAlone` shows that without overlap the fanout is exact,
   and `RevokedPublisherSilent` that the per-packet gate protects withdrawn publish caps.
4. The epilogue of an ended track may detach the subscribers of the next one
   [`MCForwarding.cfg` with `MaxTracks = 2` violates `TracksComplete`].

Screen sharing:

5. A screen is accepted although `publish_screen` was withdrawn between the test and the
   lock [`NoScreenWithoutCap` in `MCScreenShare.cfg`].
6. `finishScreenPublish` may clear the layers of the publication that follows [drop
   `~overlapped` from `ScreenExactAlone`].
7. The reports of a publication and of its end may change places, towards the Server and
   towards the cascade [the same].

Cascade:

8. A dial loop that has decided to leave is still in `dialing`, so an edge that comes back
   at that moment is not dialled [`DialLoopAlive` in `MCCascadeLinks.cfg`].  `Relinked`
   therefore asks for the loop.
9. The EDGE_DOWN of an old session may be reported after the EDGE_UP of its successor;
   `RefreshHeals` shows that the periodic report mends it.
10. Wants may be sent in the wrong order, after which the neighbour has the older one for
    good [`WantsKnown` in `MCCascadeRoutes.cfg`].  `RoutesExact` is stated for
    behaviours without it (`overtaken`).
11. `edgeEstablished` closes the session it supersedes, but `close` returns at once when the
    old session's own goroutine is already in it.  A track that comes over the new session
    before the old one's `onEdgeClosed` is refused as a loop, and stays refused until it is
    dropped and offered anew [`dropped = FALSE` as an invariant in `MCCascadeRoutes.cfg`, or
    drop `~overlapped` from `HeardAlone`].  `NoLoop` says that nothing else is ever refused,
    and `RoutesExact` excepts the tracks concerned.
12. A down track made for a publisher that has been closed meanwhile may replace its
    successor's [the same].
13. `localDemand` excepts fewer users than its comment says; harmless, see `DemandCovers`.

Negotiation and update:

14. The process exits with status 0 after an update, and the documented systemd unit
    restarts on failure only.
15. A refused answer, or an answer that cannot be made, leaves the signalling state between
    an offer and its answer, and every later negotiation is suspended for good; the comment there says that it is tried again
    when the state is stable [drop `faults > 0` from `ChangesReachClient`].

## 5. Proofs

`SessionsProofs` proves, for all sets of connections, sids, room ids and users, all
tokens and all bounds, that `Spec` implies the invariants `TypeOK`,
`IndexedIsListed`, `NoGhost`, `RegisteredUntilRemoved`, `NoEmptyImplicitRoom`,
`CapacityBound` and `RoomGaugeExact`.  Assumptions: tokens have their types, `Conns` and `Sids` are finite
(needed for cardinality only), `None` is none of the objects, and the bounds are
natural numbers.

The invariants are not inductive as they stand.  That a removed session is in no
table (`NoGhost`) needs to know that a slot in room `r` under sid `s` only ever holds
a participant of `r` and `s` that is live or closing (`SlotsHoldTheirOwn`): then
deleting by sid in its own room is enough to take it out, whoever occupies the slot.
`IndexedIsListed` needs that the index entry is a slot of the participant's room
(`IndexIsASlot`), which removal keeps because it deletes both.  `RegisteredUntilRemoved`
needs that Room objects are numbered in order of creation (`RoomsAreOld`) and
registered under one id (`RegisteredOnce`), so that a new object is never confused
with one in use.  `BornInRoom` and `ReferencesExist` say that whatever a goroutine
has remembered (`prev`, `todo`, `busy`) is an existing participant with a room.
`IInv` is their conjunction with `TypeOK` and `NoEmptyImplicitRoom`; one lemma per group
of actions shows that it is preserved.  `CapacityBound` is a second, small induction
on top of `IInv`: only an insertion adds an entry, one at most, and below the cap.
`RoomGaugeExact` is a third (`GaugeInv`): every participant in `lastOne` is detached and
has its decrement to make, and that finitely many rooms are registered is part of the
invariant, because room ids need not be finitely many.

`RoomProofs` proves, of the negotiation, `NegTypeOK` and `OneOfferOutstanding` for any finite set of
goroutines that ask for negotiations and any bounds.  The invariant counts tokens: a
goroutine in `doNegotiate`, an offer on its way to the client, an answer on its way back
and an answer being applied are one token in different places (`OneAtATime`), which
`negotiating` stands for until the participant is closed, whatever calls fail.  As long as none
has failed (`Smooth`), a goroutine that has yet to create its offer, or has just applied an
answer, finds the connection stable, so that none has to suspend.  After a failure the
connection may be left in the midst of an exchange, and the invariants say so:
`NegTypeOK` admits the state with a client's offer unanswered only then, and
`OneOfferOutstanding` ties the state to the flag only until then.  The lemmas `CountSent` and `CountRead` say what a
frame sent or read does to the count.

Of audio forwarding `RoomProofs` proves `TypeOK`, `FanoutExactAlone` and
`RevokedPublisherSilent` for any finite set of participants, any publishers among them and
any numbers of tracks, orders and goroutines at work, and `TracksComplete` for
`MaxTracks <= 1`.  That hypothesis is finding 4: with a second track the property is
false.  What holds for every `MaxTracks` is `FirstComplete`, the same for the publishers that
are at their first track.  `None` is no participant; finiteness is needed for the
numbers of new down tracks (`FreshDt`).

The inductive invariant `IInv` has seven parts.  `Regular` gives the types and the order of
the steps that each goroutine has before it: what makes a down track is followed by a
rebuild.  `Mapped` relates the maps of down tracks, the connections, the fanouts and the
lists of rebuilds under way; with it `TypeOK` follows.  `Joined` says that nobody publishes
before having joined.  `Gated` is about packets: the publisher of one that has passed the
gate, or would pass it now, has had the cap at some moment since the packet was read
(`held`); the fanout plays no part, which is why an overtaken rebuild does no harm.  `Owed` is `TracksComplete` before things have
come to rest: who is to hear a publisher has a down track, or some goroutine has the step
before it that makes one, whether it comes from the publisher, the subscriber or the
Server.  It needs `Removals`: a goroutine takes a down track away only for a reason that lasts
as long as the removal (the cap is gone, the publisher has left, the track has ended).  The
last reason does not last when the next track begins, and `First` keeps that case out.
`Alone` is about behaviours without overlap: one goroutine is at work (`Lone`), it serves
publishers that are in the room (`Present`), the tracks of one who has left are removed or
about to be (`Cleared`), a fanout has exactly the live down tracks that are wanted or a
rebuild is to come (`Filled`), and a rebuild under way is right about those it has looked
at (`Collecting`).

`NodeProofs` proves, of the control channel, `TypeOK`, `Accounted` and `RunsOnce` for any queue of at least
one place and any numbers of messages, commands and streams.  `Accounted` is two facts
about six places, that they cover the messages and that the sizes add up; the invariant
`Placed` says instead that the places are disjoint and hold a message once, from which
the sum follows by counting.  `RunsOnce` uses `WindowAssumption`
(`AckWindow >= 2 * Pipeline - 1`): a command that the Server may still repeat is newer
than the oldest unacknowledged one by less than `Pipeline`, as is everything that was
carried out after it (`UnderWay`, `Recent`), so its ack has not been pushed out of the
cache (`Done`, `Remembered`), by counting again.  The assumption is needed: TLC finds a
command run twice without it.

`ScreenShareProofs` proves `GaugeExact` and `EndedIsEnded` for any tracks, viewers and
bounds; tracks and companions are different objects and `None` is neither.  The first
needs that no goroutine has the same increment or decrement before it twice (`Tidy`),
and that finitely many goroutines have any, which is part of the invariant.  The second
is a statement about the end; its invariant says that whatever is filed or published is
owed an end: a layer by the track that filed it, the publication by some track whose
epilogue is to come or by a goroutine about to finish it (`LayersOwed`, `ScreenOwed`,
`CompanionOwed`).  Finding 6 (the end of one publication clears the layers of the next) does
not break it: the tracks of the next still owe their epilogues.

It also proves `ScreenExactAlone`, under one hypothesis on the tracks, `Simulcast`: a
transceiver carries a companion or a plain screen alone, or layers of different qualities, as
browsers send them and as in `MCScreenShare`.  Without it TLC finds a sink that is fed from two
layers: the second track of a quality takes the first one's place in `screenLayers`, and nobody
empties the fanout of the first.  The inductive invariant `Alone` is about behaviours without
overlap.  One goroutine at most has work left, in an order that `Follows` spells out (`Lone`);
what is not yet as it should be has the step that mends it still before it, be it the flag, the
report or the cascade (`Consistent`), a down track (`Tracked`) or a fanout (`Shown`,
`Accompanied`); what is about to be done has its reason (`Reasons`); the layers belong to the
transceiver of the screen, which is not stopped (`OneTransceiver`); and a track that is no layer
any more brings no packets (`Silent`).  Each step is a `Turn`: it takes itself from the work
left, and puts what it plans in its place.

`CascadeGateProofs` proves, assuming that `None` is no session and the bounds are natural
numbers: `GateRefines`, that the initial states of `CascadeGate` are initial in `LeaseGate`
under the mapping and every step is a step of it or a stutter.  No invariant is needed:
each action either leaves the gates alone, or is the critical section of a
recomputation, whose guard is the mapped `right \/ late`.  `TypeCorrect`, for which the
steps waiting in `job` are typed as sequences.  `WatchdogIsRight`, inductive together with
`TypeOK`: whatever moves the registered session's gate away from `lastAllowed` leaves a
recomputation behind it, and a recomputation that ends the last one sets the two alike.
The liveness half of the refinement (a lapsed gate is shut) is checked by TLC.

Of the node's files `NodeProofs` proves `CrashSurvived`, `ExitIsSafe` and `FilesTyped` for any
numbers of certificates, versions and faults, a crash being the end of the process.
`CrashSafe` speaks of two groups of files and
the induction is in two parts.  `IdInv` says what enrollment has written so far
(`Enrolling`), that a running process has whole files (`Serving`), how far a renewal has
come (`Renewal`), and that nothing is on disk before the token is used (`Untouched`):
without these a crash in the middle would not be known to be inside the window.
`BinInv` ties `update` to the three names of the binary, and says that a process waiting
to exit still holds the in-flight flag, so that no second update takes the binary away.

`CascadeLinksProofs` proves `RegisteredInForce` and `NoOrphan` for any set of orders and any
numbers of connections, orders and faults; orders carry epochs that are natural numbers.
Expiring tokens refuse connections and so add nothing to the argument.
What each goroutine has before it has a shape (`Shapes`: a handshake comes first, the next
round of the dial loop last), a connection is new to a node until its handshake is over
(`New`), whoever is registered is served or being closed (`Ends`), and a session that runs
is registered or has a goroutine that will establish or close it (`Known`).

`RemoteTracksProofs` proves `NoStaleRegistration`, `RecomputeHeals` and `HeardAlone` for any
sessions, arrivals and numbers of publishers, orders and goroutines; the listeners are
finitely many, since a registration goes through them one by one.  The invariant has three
parts besides the types and the shape of what each goroutine has before it (`Regular`).
`Held`, for `NoStaleRegistration`, is about who answers for the publisher the room lists: a
goroutine about to store it, one about to take it out, or a remote speaker that keeps it;
there is exactly one of these whenever something is listed (`Single`, `Answered`), it means
the publisher listed and not an older one (`Meant`), and a speaker that keeps a publisher
without being in force has a drop or a re-check before it (`Due`): the re-check after the
store in `registerRemotePub` is what makes this hold.  `Healing`, for `RecomputeHeals`, says
how far a recomputation with nothing beside it has come.  `Alone`, for `HeardAlone`, is five
conjuncts about behaviours without overlap: the session registered is up or being closed
(`InForce`), whatever is pending is about the speaker and the publisher in force
(`Current`), and what is not yet as it should be, the registration, a down track or the
fanout, has the step that mends it still before it (`Registered`, `Tracked`, `Filled`).

`CascadeRoutesProofs` proves of the demand algebra, for any sets of users: `Union` wants what
either argument wants and is a want set; a want survives the wire; `Equal` sets want the
same speakers, so that not sending an equal one loses nothing; and the local demand
covers every speaker some listener wants, and spares those everybody has unsubscribed.
Of the routes it proves, for a line of any length, any speakers and listeners:
`NoLoop` and `RoutesExact`.  The first invariant (`IInv`) says what is where (`Placed`,
`Channels`) and, until a session with tracks has been superseded, that whatever is offered, on
the way or received on an edge leads away from the speaker's home and nothing was refused
(`Straight`); this is the first half of `NoLoop`.  After a supersession a node
may offer a track back to where it came from, and the second half is about the state at
rest.  It and `RoutesExact` rest on an
invariant of each end of an edge (`RouteInv`): `recompute` has left the out-tracks, but for
calls that failed, and the want that the node's state calls for (`Current`); both ends of a
connection that is up begin anew with it (`Joined`, `Fresh`), and from then on the want
decided on last is the last to be sent, the last on the way, or what the neighbour knows
(`Told`, unless wants overtook each other), and the neighbour has the out-tracks unless an
offer is due, on the way or to be followed by another (`Offered`, unless a call failed).
At rest a node has a track from behind only if its neighbour has it from further
behind, and the last in the line has nobody behind it: that is the second half of `NoLoop`.
For `RoutesExact` only local equations are left when nothing is under way, between an end and its neighbours.  That they determine the
state end to end is an argument along the line: demand is known at every depth beyond an edge
(`DemandKnown`), and tracks follow at every distance from home (`TracksFollow`), each by the
least counterexample (`LeastNat`, from the library's theorem that the naturals are well
founded).  `FoldSet` in `NodeWant` is unfolded by hand: a node in a line has one other edge at
most (`FoldNone`, `FoldOne`, `OneOther`).

Only model-checked: all liveness properties (`RevokedEventuallyClosed`,
`ChangesReachClient`, `ClientOfferSettles`, `ReportsArrive`, `CommandsAcked`, the fairness of
`GatePromise`, `Relinked`, `RefreshHeals`, `ComesToRest`, `DueIsRenewed`), since the prover has
no support for fairness.

## 6. Not modelled

- Cryptography and claim parsing.  The Pion library: what it does to the signalling state and
  to the tracks is modelled where the code relies on it, its failures in `Sessions`
  (`EngineFails`, `PeerFails`), `Negotiation` and `CascadeRoutes`; a failing `AddTrack` of a
  local subscriber, in `Forwarding` and `ScreenShare`, is not.
- Metrics, configuration, statistics, the HTTP endpoints and the per-address rate limit;
  generated code: no control of their own.
- The audit recorder: file output by the OGG library.  Its race is listed as a hazard.
  The audit uploader: one HTTP request per file.
- Keyframe requests, local and across the cascade: their only state is a throttle, and
  losing one costs time, not correctness.
- The classification of the network path, round-trip times and traffic counters of an
  edge: reported, never decided by.
- ICE candidate exchange: a candidate is passed on to Pion as it comes.
- Several sessions of one user in `Forwarding`, several rooms in one model: rooms share
  nothing but the tables of `Sessions`.
- The load generator and its server mode, but for the client of `Negotiation`.

What would come next: an abstract session registry refined by `Sessions`.
