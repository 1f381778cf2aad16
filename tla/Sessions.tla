------------------------------ MODULE Sessions ------------------------------
(***************************************************************************)
(* The life of media sessions on one SFU node.  Connections authenticate   *)
(* (internal/signal, internal/auth), join a room (internal/room Manager),  *)
(* are superseded by a reconnection with the same sid, and are closed by   *)
(* whoever comes first: the websocket loop, the peer connection's          *)
(* callbacks, the expiry watchdog, a later connection, the control channel *)
(* or the shutdown sequence.                                               *)
(*                                                                         *)
(* A connection c carries one verified token and becomes at most one       *)
(* Participant object, which has the same name c here.  A Room object is a *)
(* number: a room id that is closed and reopened denotes a new object, and *)
(* the two are told apart exactly where the code holds pointers.           *)
(*                                                                         *)
(* An action is one critical section of Manager.mu, one atomic operation,  *)
(* or a stretch of a goroutine that touches nothing the others read.       *)
(***************************************************************************)
EXTENDS Integers, FiniteSets

CONSTANTS
  Conns,     \* websocket connections, and the participants they become
  Sids,      \* session ids (token claim sid)
  Rids,      \* logical room ids (token claim rid)
  Uids,      \* user ids (token claim uid)
  Token,     \* the token each connection presents: [sid, rid, uid]
  MaxUsers,  \* Manager.maxUsers; 0 means no cap
  MaxRooms,  \* bound: Room objects created in one behaviour
  MaxOrders, \* bound: Server commands and signals in one behaviour
  None       \* the nil pointer

ASSUME TokenAssumption == Token \in [Conns -> [sid : Sids, rid : Rids, uid : Uids]]
ASSUME FiniteAssumption == IsFiniteSet(Conns) /\ IsFiniteSet(Sids)
ASSUME BoundAssumption == MaxUsers \in Nat /\ MaxRooms \in Nat /\ MaxOrders \in Nat
ASSUME NoneAssumption  == None \notin Conns /\ None \notin Sids /\ None \notin 1..MaxRooms

VARIABLES
  pc,         \* where the session goroutine of a connection is
  prev,       \* Join's local variable old
  stage,      \* life of the Participant: absent, live, closing, detached, gone
  home,       \* Participant.room
  expired,    \* participants whose expiryMs has passed
  left,       \* participants reported PARTICIPANT_LEFT
  lastOne,    \* participants whose removal reclaimed the room (local roomGone)
  bySID,      \* Manager.bySID
  rooms,      \* Manager.rooms
  parts,      \* Room.parts of every Room object
  ensured,    \* Room objects with Room.ensured
  removed,    \* Room objects with Room.removed
  nextRoom,   \* the next Room object to be created
  roomsGauge, \* metrics.Rooms
  draining,   \* Manager.draining
  revoked,    \* Verifier.revoked
  spent,      \* sids of which every token ever issued has expired
  queue,      \* sids a command has yet to look up, per commanding thread
  todo,       \* participants a thread has yet to close, per thread
  busy,       \* the participant a thread is inside Close of, per thread
  orders,     \* commands and signals received so far
  shutdown,   \* main: no, draining (after SIGTERM), closing (CloseAll)
  owesDec     \* the control thread is between CloseRoom's unlock and Rooms.Dec

connVars == <<pc, prev, stage, home, expired, left, lastOne>>
tableVars == <<bySID, rooms, parts, ensured, removed, nextRoom, roomsGauge>>
authVars == <<draining, revoked, spent>>
threadVars == <<queue, todo, busy, owesDec, orders, shutdown>>
vars == <<connVars, tableVars, authVars, threadVars>>

RoomObjs == 1..MaxRooms

\* The two threads that close participants in bulk: the control channel's
\* receive loop and main's shutdown sequence.
Threads == {"control", "main"}

SidOf(c) == Token[c].sid
RidOf(c) == Token[c].rid

Users == {s \in Sids : bySID[s] # None}
Members(r) == {s \in Sids : parts[r][s] # None}
RegisteredRooms == {i \in Rids : rooms[i] # None}

Closed(c) == stage[c] \in {"closing", "detached", "gone"}

\* Participant.Close by the goroutine that wins the closed flag; close of
\* stopExpiry ends the watchdog, so the deadline is forgotten.
StartClose(c) ==
  /\ stage' = [stage EXCEPT ![c] = "closing"]
  /\ expired' = expired \ {c}

Init ==
  /\ pc = [c \in Conns |-> "idle"]
  /\ prev = [c \in Conns |-> None]
  /\ stage = [c \in Conns |-> "absent"]
  /\ home = [c \in Conns |-> None]
  /\ expired = {} /\ left = {} /\ lastOne = {}
  /\ bySID = [s \in Sids |-> None]
  /\ rooms = [i \in Rids |-> None]
  /\ parts = [r \in RoomObjs |-> [s \in Sids |-> None]]
  /\ ensured = {} /\ removed = {}
  /\ nextRoom = 1
  /\ roomsGauge = 0
  /\ draining = FALSE /\ revoked = {} /\ spent = {}
  /\ queue = [t \in Threads |-> {}]
  /\ todo = [t \in Threads |-> {}]
  /\ busy = [t \in Threads |-> None]
  /\ owesDec = FALSE
  /\ orders = 0
  /\ shutdown = "no"

-----------------------------------------------------------------------------
(* Authentication: signal.session and auth.Verifier                        *)

\* Mutant: Verify does not consult the revocation table.
VerifiableThoughRevoked(c) == SidOf(c) \notin spent

\* Verify succeeds: the token has not expired and its sid is not revoked.
Verifiable(c) == SidOf(c) \notin revoked /\ SidOf(c) \notin spent

\* session(): the first frame is an auth frame whose token verifies.
Authenticate(c) ==
  /\ pc[c] = "idle"
  /\ Verifiable(c)
  /\ pc' = [pc EXCEPT ![c] = "verified"]
  /\ UNCHANGED <<prev, stage, home, expired, left, lastOne>>
  /\ UNCHANGED <<tableVars, authVars, threadVars>>

\* session(): no auth frame within authTimeout, or the token is refused.
AuthRejected(c) ==
  /\ pc[c] = "idle"
  /\ pc' = [pc EXCEPT ![c] = "done"]
  /\ UNCHANGED <<prev, stage, home, expired, left, lastOne>>
  /\ UNCHANGED <<tableVars, authVars, threadVars>>

\* The token of a participant in service reaches its ExpiresAt.
Expire(c) ==
  /\ stage[c] = "live"
  /\ c \notin expired
  /\ expired' = expired \cup {c}
  /\ UNCHANGED <<pc, prev, stage, home, left, lastOne>>
  /\ UNCHANGED <<tableVars, authVars, threadVars>>

\* The Server issues no token for a revoked sid, so at some time all of them
\* have expired.
TokensSpent(s) ==
  /\ s \in revoked \ spent
  /\ spent' = spent \cup {s}
  /\ expired' = expired \cup {c \in Conns : SidOf(c) = s /\ stage[c] = "live"}
  /\ UNCHANGED <<pc, prev, stage, home, left, lastOne, draining, revoked>>
  /\ UNCHANGED <<tableVars, threadVars>>

\* Verifier.revokeJanitor: entries older than revTTL are dropped, by when the
\* tokens of that sid have expired.
RevokeJanitor(s) ==
  /\ s \in revoked \cap spent
  /\ revoked' = revoked \ {s}
  /\ UNCHANGED <<draining, spent>>
  /\ UNCHANGED <<connVars, tableVars, threadVars>>

-----------------------------------------------------------------------------
(* Manager.Join                                                            *)

\* Entry: a draining node refuses the session.
JoinBegin(c) ==
  /\ pc[c] = "verified"
  /\ pc' = [pc EXCEPT ![c] = IF draining THEN "done" ELSE "admitted"]
  /\ UNCHANGED <<prev, stage, home, expired, left, lastOne>>
  /\ UNCHANGED <<tableVars, authVars, threadVars>>

\* Under RLock: old := m.bySID[tok.SID].
LookupOld(c) ==
  /\ pc[c] = "admitted"
  /\ prev' = [prev EXCEPT ![c] = bySID[SidOf(c)]]
  /\ pc' = [pc EXCEPT ![c] = IF bySID[SidOf(c)] = None THEN "insert" ELSE "supersede"]
  /\ UNCHANGED <<stage, home, expired, left, lastOne>>
  /\ UNCHANGED <<tableVars, authVars, threadVars>>

\* old.Close: the goroutine that wins the closed flag runs the whole Close;
\* the others return at once, whether or not old has left the tables.
Supersede(c) ==
  /\ pc[c] = "supersede"
  /\ IF Closed(prev[c])
     THEN pc' = [pc EXCEPT ![c] = "insert"] /\ UNCHANGED <<stage, expired>>
     ELSE /\ StartClose(prev[c])
          /\ pc' = [pc EXCEPT ![c] = "await"]
  /\ UNCHANGED <<prev, home, left, lastOne>>
  /\ UNCHANGED <<tableVars, authVars, threadVars>>

SupersedeReturns(c) ==
  /\ pc[c] = "await"
  /\ stage[prev[c]] = "gone"
  /\ pc' = [pc EXCEPT ![c] = "insert"]
  /\ UNCHANGED <<prev, stage, home, expired, left, lastOne>>
  /\ UNCHANGED <<tableVars, authVars, threadVars>>

\* engine.NewPeerConnection fails, after the old session has been closed.
EngineFails(c) ==
  /\ pc[c] = "insert"
  /\ pc' = [pc EXCEPT ![c] = "done"]
  /\ prev' = [prev EXCEPT ![c] = None]
  /\ UNCHANGED <<stage, home, expired, left, lastOne>>
  /\ UNCHANGED <<tableVars, authVars, threadVars>>

\* Mutant: the cap is compared with > instead of >=.
OverCapacity == MaxUsers > 0 /\ Cardinality(Users) > MaxUsers

AtCapacity == MaxUsers > 0 /\ Cardinality(Users) >= MaxUsers

\* Under Lock: the local cap refuses the session.
InsertRefused(c) ==
  /\ pc[c] = "insert"
  /\ AtCapacity
  /\ pc' = [pc EXCEPT ![c] = "done"]
  /\ prev' = [prev EXCEPT ![c] = None]
  /\ UNCHANGED <<stage, home, expired, left, lastOne>>
  /\ UNCHANGED <<tableVars, authVars, threadVars>>

\* The room a join enters: the registered one, or a new implicit one.
RoomFor(c) == IF rooms[RidOf(c)] = None THEN nextRoom ELSE rooms[RidOf(c)]

\* Under the same Lock: find or create the room, enter both tables.
Insert(c) ==
  /\ pc[c] = "insert"
  /\ ~AtCapacity
  /\ RoomFor(c) \in RoomObjs
  /\ home' = [home EXCEPT ![c] = RoomFor(c)]
  /\ stage' = [stage EXCEPT ![c] = "live"]
  /\ expired' = IF SidOf(c) \in spent THEN expired \cup {c} ELSE expired
  /\ prev' = [prev EXCEPT ![c] = None]
  /\ parts' = [parts EXCEPT ![RoomFor(c)][SidOf(c)] = c]
  /\ bySID' = [bySID EXCEPT ![SidOf(c)] = c]
  /\ rooms' = [rooms EXCEPT ![RidOf(c)] = RoomFor(c)]
  /\ IF rooms[RidOf(c)] = None
     THEN nextRoom' = nextRoom + 1 /\ roomsGauge' = roomsGauge + 1
     ELSE UNCHANGED <<nextRoom, roomsGauge>>
  /\ pc' = [pc EXCEPT ![c] = "wire"]
  /\ UNCHANGED <<left, lastOne, ensured, removed>>
  /\ UNCHANGED <<authVars, threadVars>>

\* After Unlock: wirePC and the expiry watchdog start, ready is sent and the
\* websocket loop begins.
Wire(c) ==
  /\ pc[c] = "wire"
  /\ pc' = [pc EXCEPT ![c] = "serving"]
  /\ UNCHANGED <<prev, stage, home, expired, left, lastOne>>
  /\ UNCHANGED <<tableVars, authVars, threadVars>>

-----------------------------------------------------------------------------
(* A session in service: signal.loop, PC callbacks, expiryWatchdog          *)

\* The websocket is gone: the loop's read fails and its deferred Close is a
\* no-op because the participant is closed already.
LoopExits(c) ==
  /\ pc[c] \in {"serving", "refreshing"}
  /\ Closed(c)
  /\ pc' = [pc EXCEPT ![c] = "done"]
  /\ UNCHANGED <<prev, stage, home, expired, left, lastOne>>
  /\ UNCHANGED <<tableVars, authVars, threadVars>>

\* ready cannot be delivered, the read fails or idles out, or a refresh token
\* is refused or names another sid or rid: the session goroutine calls Close.
SessionEnds(c) ==
  /\ pc[c] \in {"serving", "refreshing"}
  /\ stage[c] = "live"
  /\ StartClose(c)
  /\ pc' = [pc EXCEPT ![c] = "done"]
  /\ UNCHANGED <<prev, home, left, lastOne>>
  /\ UNCHANGED <<tableVars, authVars, threadVars>>

\* A repeated auth frame verifies ...
RefreshVerify(c) ==
  /\ pc[c] = "serving"
  /\ stage[c] = "live"
  /\ Verifiable(c)
  /\ pc' = [pc EXCEPT ![c] = "refreshing"]
  /\ UNCHANGED <<prev, stage, home, expired, left, lastOne>>
  /\ UNCHANGED <<tableVars, authVars, threadVars>>

\* ... and RefreshToken moves the deadline, unless the new token has itself
\* expired meanwhile.
RefreshToken(c) ==
  /\ pc[c] = "refreshing"
  /\ pc' = [pc EXCEPT ![c] = "serving"]
  /\ expired' = IF SidOf(c) \in spent THEN expired ELSE expired \ {c}
  /\ UNCHANGED <<prev, stage, home, left, lastOne>>
  /\ UNCHANGED <<tableVars, authVars, threadVars>>

Wired(c) == pc[c] \in {"serving", "refreshing"}

\* OnConnectionStateChange(Failed or Closed).
PeerFails(c) ==
  /\ Wired(c)
  /\ stage[c] = "live"
  /\ StartClose(c)
  /\ UNCHANGED <<pc, prev, home, left, lastOne>>
  /\ UNCHANGED <<tableVars, authVars, threadVars>>

\* expiryWatchdog: now > expiryMs.
ExpiryWatchdog(c) ==
  /\ Wired(c)
  /\ stage[c] = "live"
  /\ c \in expired
  /\ StartClose(c)
  /\ UNCHANGED <<pc, prev, home, left, lastOne>>
  /\ UNCHANGED <<tableVars, authVars, threadVars>>

-----------------------------------------------------------------------------
(* Participant.Close after it won the flag: Room.removeParticipant          *)

\* Mutant: a closed room is taken to have let go of its members.
HasSlotInOpenRoom(c) == home[c] \notin removed /\ parts[home[c]][SidOf(c)] # None

\* The slot is found by sid, in the room the participant belongs to.
HasSlot(c) == parts[home[c]][SidOf(c)] # None

\* Mutant: the guard on r.removed is missing.
RoomGoneTwice(c) ==
  /\ Members(home[c]) \subseteq {SidOf(c)}
  /\ home[c] \notin ensured

\* Mutant: emptiness is tested before the slot is deleted.
RoomGoneTooLate(c) ==
  /\ Members(home[c]) = {}
  /\ home[c] \notin ensured
  /\ home[c] \notin removed

\* len(r.parts) == 0 && !r.ensured && !r.removed, once the slot is deleted.
RoomGone(c) ==
  /\ Members(home[c]) \subseteq {SidOf(c)}
  /\ home[c] \notin ensured
  /\ home[c] \notin removed

\* Nothing under this sid in the room: return without a report.
RemoveNothing(c) ==
  /\ stage[c] = "closing"
  /\ ~HasSlot(c)
  /\ stage' = [stage EXCEPT ![c] = "gone"]
  /\ UNCHANGED <<pc, prev, home, expired, left, lastOne>>
  /\ UNCHANGED <<tableVars, authVars, threadVars>>

\* Mutant: the index entry is not deleted with the slot.
RemoveKeepsIndex(c) ==
  /\ stage[c] = "closing"
  /\ HasSlot(c)
  /\ parts' = [parts EXCEPT ![home[c]][SidOf(c)] = None]
  /\ stage' = [stage EXCEPT ![c] = "detached"]
  /\ UNCHANGED <<pc, prev, home, expired, left, lastOne>>
  /\ UNCHANGED <<bySID, rooms, ensured, removed, nextRoom, roomsGauge, authVars, threadVars>>

\* Under Lock: delete the slot and the index entry, reclaim an empty room.
RemoveParticipant(c) ==
  /\ stage[c] = "closing"
  /\ HasSlot(c)
  /\ parts' = [parts EXCEPT ![home[c]][SidOf(c)] = None]
  /\ bySID' = [bySID EXCEPT ![SidOf(c)] = None]
  /\ IF RoomGone(c)
     THEN /\ rooms' = [rooms EXCEPT ![RidOf(c)] = None]
          /\ removed' = removed \cup {home[c]}
          /\ lastOne' = lastOne \cup {c}
     ELSE UNCHANGED <<rooms, removed, lastOne>>
  /\ stage' = [stage EXCEPT ![c] = "detached"]
  /\ UNCHANGED <<pc, prev, home, expired, left, ensured, nextRoom, roomsGauge>>
  /\ UNCHANGED <<authVars, threadVars>>

\* After Unlock: gauges, detaching of tracks, participant_left and
\* PARTICIPANT_LEFT.
ReportLeft(c) ==
  /\ stage[c] = "detached"
  /\ left' = left \cup {c}
  /\ roomsGauge' = IF c \in lastOne THEN roomsGauge - 1 ELSE roomsGauge
  /\ lastOne' = lastOne \ {c}
  /\ stage' = [stage EXCEPT ![c] = "gone"]
  /\ UNCHANGED <<pc, prev, home, expired>>
  /\ UNCHANGED <<bySID, rooms, parts, ensured, removed, nextRoom, authVars, threadVars>>

-----------------------------------------------------------------------------
(* Control commands, executed one after the other, and shutdown             *)

Idle(t) == queue[t] = {} /\ todo[t] = {} /\ busy[t] = None

\* The receive loop takes the next command when the last one is carried out.
Receive ==
  /\ Idle("control") /\ ~owesDec
  /\ orders < MaxOrders
  /\ orders' = orders + 1

\* EnsureRoom of a registered room.
EnsureKnownRoom(i) ==
  /\ Receive
  /\ rooms[i] # None
  /\ ensured' = ensured \cup {rooms[i]}
  /\ UNCHANGED <<bySID, rooms, parts, removed, nextRoom, roomsGauge>>
  /\ UNCHANGED <<connVars, authVars, queue, todo, busy, owesDec, shutdown>>

\* EnsureRoom of an unknown one.  Bound: a Room object is left for every join.
EnsureNewRoom(i) ==
  /\ Receive
  /\ rooms[i] = None
  /\ nextRoom + Cardinality(Conns) <= MaxRooms
  /\ rooms' = [rooms EXCEPT ![i] = nextRoom]
  /\ ensured' = ensured \cup {nextRoom}
  /\ nextRoom' = nextRoom + 1
  /\ roomsGauge' = roomsGauge + 1
  /\ UNCHANGED <<bySID, parts, removed>>
  /\ UNCHANGED <<connVars, authVars, queue, todo, busy, owesDec, shutdown>>

\* Mutant: CloseRoom does not mark the Room object removed.
CloseRoomUnmarked(i) ==
  /\ Receive
  /\ rooms[i] # None
  /\ rooms' = [rooms EXCEPT ![i] = None]
  /\ todo' = [todo EXCEPT !["control"] = {parts[rooms[i]][s] : s \in Members(rooms[i])}]
  /\ owesDec' = TRUE
  /\ UNCHANGED <<bySID, parts, ensured, removed, nextRoom, roomsGauge, queue, busy, shutdown>>
  /\ UNCHANGED <<connVars, authVars>>

\* CloseRoom, under Lock: unregister the room and remember its members.
CloseRoom(i) ==
  /\ Receive
  /\ rooms[i] # None
  /\ rooms' = [rooms EXCEPT ![i] = None]
  /\ removed' = removed \cup {rooms[i]}
  /\ todo' = [todo EXCEPT !["control"] = {parts[rooms[i]][s] : s \in Members(rooms[i])}]
  /\ owesDec' = TRUE
  /\ UNCHANGED <<bySID, parts, ensured, nextRoom, roomsGauge, queue, busy, shutdown>>
  /\ UNCHANGED <<connVars, authVars>>

\* CloseRoom, after Unlock: metrics.Rooms.Dec, before the members are closed.
CloseRoomDec ==
  /\ owesDec
  /\ owesDec' = FALSE
  /\ roomsGauge' = roomsGauge - 1
  /\ UNCHANGED <<bySID, rooms, parts, ensured, removed, nextRoom, queue, todo, busy, orders, shutdown>>
  /\ UNCHANGED <<connVars, authVars>>

\* DisconnectUser: the user's sessions in the room, all of them or one.
Targets(i, u, s) ==
  IF rooms[i] = None THEN {}
  ELSE {c \in Conns : /\ parts[rooms[i]][SidOf(c)] = c
                      /\ Token[c].uid = u
                      /\ s = None \/ SidOf(c) = s}

DisconnectUser(i, u, s) ==
  /\ Receive
  /\ Targets(i, u, s) # {}
  /\ todo' = [todo EXCEPT !["control"] = Targets(i, u, s)]
  /\ UNCHANGED <<connVars, tableVars, authVars, queue, busy, owesDec, shutdown>>

\* RevokeSession, first half: Verifier.Revoke.
RevokeSession(s) ==
  /\ Receive
  /\ revoked' = revoked \cup {s}
  /\ queue' = [queue EXCEPT !["control"] = {s}]
  /\ UNCHANGED <<connVars, tableVars, draining, spent, todo, busy, owesDec, shutdown>>

\* MigrateParticipants EXECUTE: the sids are looked up and closed in turn.
MigrateOut(S) ==
  /\ Receive
  /\ queue' = [queue EXCEPT !["control"] = S]
  /\ UNCHANGED <<connVars, tableVars, authVars, todo, busy, owesDec, shutdown>>

\* Mutant: the nil check after the lookup is missing.
CloseSessionOfNobody(s) ==
  /\ s \in queue["control"]
  /\ todo["control"] = {} /\ busy["control"] = None
  /\ queue' = [queue EXCEPT !["control"] = @ \ {s}]
  /\ todo' = [todo EXCEPT !["control"] = {bySID[s]}]
  /\ UNCHANGED <<connVars, tableVars, authVars, busy, owesDec, orders, shutdown>>

\* CloseSession: the lookup of one sid under RLock.
CloseSession(s) ==
  /\ s \in queue["control"]
  /\ todo["control"] = {} /\ busy["control"] = None
  /\ queue' = [queue EXCEPT !["control"] = @ \ {s}]
  /\ todo' = [todo EXCEPT !["control"] = {bySID[s]} \ {None}]
  /\ UNCHANGED <<connVars, tableVars, authVars, busy, owesDec, orders, shutdown>>

\* The Drain command and its cancellation.
SetDraining(v) ==
  /\ Receive
  /\ draining' = v
  /\ UNCHANGED <<connVars, tableVars, revoked, spent, queue, todo, busy, owesDec, shutdown>>

\* SIGTERM: refuse new sessions and ask the Server to drain the node.
Terminate ==
  /\ shutdown = "no"
  /\ shutdown' = "draining"
  /\ orders < MaxOrders
  /\ orders' = orders + 1
  /\ draining' = TRUE
  /\ UNCHANGED <<connVars, tableVars, revoked, spent, queue, todo, busy, owesDec>>

\* waitDrained returned (empty, deadline or a second signal): CloseAll takes
\* its snapshot of the index.
CloseAll ==
  /\ shutdown = "draining"
  /\ shutdown' = "closing"
  /\ todo' = [todo EXCEPT !["main"] = {bySID[s] : s \in Users}]
  /\ UNCHANGED <<connVars, tableVars, authVars, queue, busy, owesDec, orders>>

\* A thread calls Close on its next target and is inside it if it wins.
CloseNext(t, c) ==
  /\ c \in todo[t]
  /\ busy[t] = None
  /\ t = "control" => ~owesDec
  /\ todo' = [todo EXCEPT ![t] = @ \ {c}]
  /\ IF Closed(c)
     THEN UNCHANGED <<stage, expired, busy>>
     ELSE /\ StartClose(c)
          /\ busy' = [busy EXCEPT ![t] = c]
  /\ UNCHANGED <<pc, prev, home, left, lastOne, queue, owesDec, orders, shutdown>>
  /\ UNCHANGED <<tableVars, authVars>>

CloseReturns(t) ==
  /\ busy[t] # None
  /\ stage[busy[t]] = "gone"
  /\ busy' = [busy EXCEPT ![t] = None]
  /\ UNCHANGED <<connVars, tableVars, authVars, queue, todo, owesDec, orders, shutdown>>

-----------------------------------------------------------------------------
\* The steps a session's goroutines take on their own.
SessionStep(c) ==
  \/ JoinBegin(c) \/ LookupOld(c) \/ Supersede(c) \/ SupersedeReturns(c)
  \/ InsertRefused(c) \/ Insert(c) \/ Wire(c)
  \/ LoopExits(c) \/ RefreshToken(c) \/ ExpiryWatchdog(c)

\* The steps of the goroutine inside Close.
CloseStep(c) == RemoveNothing(c) \/ RemoveParticipant(c) \/ ReportLeft(c)

\* What clients, peers and the engine may do at any time.
ClientStep(c) ==
  \/ Authenticate(c) \/ AuthRejected(c) \/ EngineFails(c)
  \/ SessionEnds(c) \/ RefreshVerify(c) \/ PeerFails(c)

\* What the Server may command.
Command ==
  \/ \E i \in Rids : EnsureKnownRoom(i) \/ EnsureNewRoom(i) \/ CloseRoom(i)
  \/ \E i \in Rids, u \in Uids, s \in Sids \cup {None} : DisconnectUser(i, u, s)
  \/ \E s \in Sids : RevokeSession(s)
  \/ \E S \in SUBSET Sids : S # {} /\ MigrateOut(S)
  \/ \E v \in BOOLEAN : SetDraining(v)

\* The steps of a thread carrying out what was commanded.
ThreadStep(t) ==
  \/ \E c \in Conns : CloseNext(t, c)
  \/ CloseReturns(t)
  \/ t = "control" /\ (CloseRoomDec \/ \E s \in Sids : CloseSession(s))

\* Every connection is over and every thread at rest: the only states in which
\* nothing need happen.  A goroutine waiting for ever is a deadlock.
AllOver ==
  /\ \A c \in Conns : pc[c] = "done" /\ stage[c] \in {"absent", "gone"}
  /\ \A t \in Threads : Idle(t)
  /\ ~owesDec
  /\ UNCHANGED vars

Next ==
  \/ AllOver
  \/ \E c \in Conns : SessionStep(c) \/ CloseStep(c) \/ ClientStep(c) \/ Expire(c)
  \/ \E s \in Sids : TokensSpent(s) \/ RevokeJanitor(s)
  \/ Command
  \/ Terminate \/ CloseAll
  \/ \E t \in Threads : ThreadStep(t)

\* The Go scheduler runs the goroutines of a session and of the bulk closers,
\* and time passes.  This is weaker than fairness to each goroutine and timer
\* of its own, which the scheduler gives; clients and the Server owe nothing.
Fairness ==
  /\ \A c \in Conns : WF_vars(SessionStep(c) \/ CloseStep(c) \/ Expire(c))
  /\ \A t \in Threads : WF_vars(ThreadStep(t))

Spec == Init /\ [][Next]_vars

FairSpec == Spec /\ Fairness
-----------------------------------------------------------------------------
(* Properties                                                              *)

\* Type invariant.  In particular a bulk closer only ever holds participants:
\* a lookup that finds nobody closes nobody.
TypeOK ==
  /\ pc \in [Conns -> {"idle", "verified", "admitted", "supersede", "await",
                       "insert", "wire", "serving", "refreshing", "done"}]
  /\ prev \in [Conns -> Conns \cup {None}]
  /\ stage \in [Conns -> {"absent", "live", "closing", "detached", "gone"}]
  /\ home \in [Conns -> RoomObjs \cup {None}]
  /\ expired \subseteq Conns
  /\ left \subseteq Conns /\ lastOne \subseteq Conns
  /\ bySID \in [Sids -> Conns \cup {None}]
  /\ rooms \in [Rids -> RoomObjs \cup {None}]
  /\ parts \in [RoomObjs -> [Sids -> Conns \cup {None}]]
  /\ ensured \subseteq RoomObjs /\ removed \subseteq RoomObjs
  /\ nextRoom \in 1..(MaxRooms + 1)
  /\ roomsGauge \in Int
  /\ draining \in BOOLEAN /\ revoked \subseteq Sids /\ spent \subseteq Sids
  /\ queue \in [Threads -> SUBSET Sids]
  /\ todo \in [Threads -> SUBSET Conns]
  /\ busy \in [Threads -> Conns \cup {None}]
  /\ owesDec \in BOOLEAN
  /\ orders \in 0..MaxOrders
  /\ shutdown \in {"no", "draining", "closing"}

\* The local admission cap (maxUsers) holds whatever joins, reconnections and
\* removals overlap, although old sessions are closed outside the lock and
\* their slots may be overwritten.
CapacityBound == MaxUsers > 0 => Cardinality(Users) <= MaxUsers

\* The session index never points outside the rooms: a participant found by
\* sid is the one its room lists under that sid, so a command that looks a
\* session up by sid acts on a member of a room.
IndexedIsListed ==
  \A s \in Sids : bySID[s] # None => parts[home[bySID[s]]][s] = bySID[s]

\* A session that has left is nowhere listed, whichever goroutine removed it
\* and whatever reconnections or room closures overlapped its removal.
NoGhost ==
  \A c \in Conns : stage[c] \in {"detached", "gone"} =>
    /\ bySID[SidOf(c)] # c
    /\ \A r \in RoomObjs : parts[r][SidOf(c)] # c

\* A Room object is registered under its id exactly while it is not removed:
\* a late removal in a closed room never unregisters the room that took its
\* id, and every member of a live room can be reached through Manager.rooms.
RegisteredUntilRemoved ==
  \A c \in Conns : home[c] # None =>
    (rooms[RidOf(c)] = home[c] <=> home[c] \notin removed)

\* Implicit rooms are reclaimed with their last member: a registered room the
\* Server never ensured has a member.
NoEmptyImplicitRoom ==
  \A i \in Rids : rooms[i] # None /\ rooms[i] \notin ensured => Members(rooms[i]) # {}

\* The rooms gauge counts the registered rooms, up to the decrements that a
\* closer has yet to make after it released the lock: none is lost or doubled.
RoomGaugeExact ==
  roomsGauge = Cardinality(RegisteredRooms)
               + Cardinality({c \in lastOne : stage[c] = "detached"})
               + (IF owesDec THEN 1 ELSE 0)

\* Revocation is final.  A session may slip in when its token was verified
\* before the revocation and it is inserted after CloseSession looked; it
\* cannot refresh, so the expiry watchdog closes it, and no session of that
\* sid is in service ever after.
RevokedEventuallyClosed ==
  \A s \in Sids : s \in revoked ~> [](\A c \in Conns : SidOf(c) = s => stage[c] # "live")

\* "Manager holds all rooms and the session index of this node": a sid with a
\* session in service is in the index, where RevokeSession, UpdateCaps and the
\* forwarding of media find it.
ServedIsIndexed ==
  \A c \in Conns : stage[c] = "live" => bySID[SidOf(c)] # None
=============================================================================
