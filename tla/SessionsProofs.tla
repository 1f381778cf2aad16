--------------------------- MODULE SessionsProofs ---------------------------
(* Invariants of Sessions for every set of connections, sids and rooms.    *)
EXTENDS Sessions, FiniteSetTheorems, TLAPS

-----------------------------------------------------------------------------
(* The inductive invariant                                                 *)

BeforeInsert == {"idle", "verified", "admitted", "supersede", "await", "insert"}

\* A participant exists once Insert has run, and has a room from then on.
BornInRoom ==
  \A c \in Conns :
    /\ home[c] = None <=> stage[c] = "absent"
    /\ pc[c] \in BeforeInsert => stage[c] = "absent"
    /\ pc[c] \in {"wire", "serving", "refreshing"} => stage[c] # "absent"

\* Every reference a goroutine holds is to an existing participant.
ReferencesExist ==
  /\ \A c \in Conns : pc[c] \in {"supersede", "await"} =>
       prev[c] \in Conns /\ stage[prev[c]] # "absent"
  /\ \A t \in Threads : \A c \in todo[t] : stage[c] # "absent"
  /\ \A t \in Threads : busy[t] # None => stage[busy[t]] # "absent"

\* A slot holds a participant of that room and sid that has not left yet.
SlotsHoldTheirOwn ==
  \A r \in RoomObjs, s \in Sids : parts[r][s] # None =>
    /\ SidOf(parts[r][s]) = s
    /\ home[parts[r][s]] = r
    /\ stage[parts[r][s]] \in {"live", "closing"}

\* An index entry is a slot.
IndexIsASlot ==
  \A s \in Sids : bySID[s] # None =>
    /\ SidOf(bySID[s]) = s
    /\ home[bySID[s]] # None
    /\ parts[home[bySID[s]]][s] = bySID[s]

\* Only created Room objects are in use.
RoomsAreOld ==
  /\ \A c \in Conns : home[c] # None => home[c] < nextRoom
  /\ \A i \in Rids : rooms[i] # None => rooms[i] < nextRoom
  /\ \A r \in removed : r < nextRoom

\* A Room object is registered under one id, its members' rid, until removed.
RegisteredOnce ==
  /\ \A i \in Rids : rooms[i] # None => rooms[i] \notin removed
  /\ \A i, j \in Rids : rooms[i] # None /\ rooms[i] = rooms[j] => i = j
  /\ \A c \in Conns : home[c] # None /\ home[c] \notin removed => rooms[RidOf(c)] = home[c]

IInv ==
  /\ TypeOK
  /\ BornInRoom
  /\ ReferencesExist
  /\ SlotsHoldTheirOwn
  /\ IndexIsASlot
  /\ RoomsAreOld
  /\ RegisteredOnce
  /\ NoEmptyImplicitRoom

-----------------------------------------------------------------------------
(* Facts about the constants and about finite sets                         *)

\* The claims of a token have their types.
LEMMA TokenTypes == ASSUME NEW c \in Conns PROVE SidOf(c) \in Sids /\ RidOf(c) \in Rids
BY TokenAssumption DEF SidOf, RidOf

\* Adding an element makes a finite set at most one larger.
LEMMA AddOne ==
  ASSUME NEW S, NEW x, IsFiniteSet(S)
  PROVE  IsFiniteSet(S \cup {x}) /\ Cardinality(S \cup {x}) <= Cardinality(S) + 1
<1>1. /\ IsFiniteSet(S \cup {x})
      /\ Cardinality(S \cup {x}) = IF x \in S THEN Cardinality(S) ELSE Cardinality(S) + 1
  BY FS_AddElement
<1>2. Cardinality(S) \in Nat
  BY FS_CardinalityType
<1> QED
  BY <1>1, <1>2

-----------------------------------------------------------------------------
(* The invariant holds initially and every step preserves it               *)

\* The empty tables of a node that has just started satisfy the invariant.
LEMMA InitEstablishes == Init => IInv
<1> SUFFICES ASSUME Init PROVE IInv
  OBVIOUS
<1> USE NoneAssumption, BoundAssumption DEF Init
<1>1. TypeOK
  <2>1. draining \in BOOLEAN /\ owesDec \in BOOLEAN
    OBVIOUS
  <2>2. nextRoom \in 1..(MaxRooms + 1) /\ orders \in 0..MaxOrders /\ roomsGauge \in Int
    OBVIOUS
  <2>3. QED
    BY <2>1, <2>2 DEF TypeOK
<1>2. BornInRoom /\ ReferencesExist
  BY DEF BornInRoom, ReferencesExist, Threads
<1>3. SlotsHoldTheirOwn /\ IndexIsASlot
  BY DEF SlotsHoldTheirOwn, IndexIsASlot, RoomObjs
<1>4. RoomsAreOld /\ RegisteredOnce /\ NoEmptyImplicitRoom
  BY DEF RoomsAreOld, RegisteredOnce, NoEmptyImplicitRoom
<1>5. QED
  BY <1>1, <1>2, <1>3, <1>4 DEF IInv

\* The steps of a session that touch neither tables nor the closed flag.
LEMMA QuietStepsPreserve ==
  ASSUME NEW c \in Conns, IInv,
         \/ Authenticate(c) \/ AuthRejected(c) \/ Expire(c) \/ JoinBegin(c)
         \/ SupersedeReturns(c) \/ EngineFails(c) \/ InsertRefused(c)
         \/ Wire(c) \/ LoopExits(c) \/ RefreshVerify(c) \/ RefreshToken(c)
  PROVE  IInv'
<1> USE TokenTypes, NoneAssumption, BoundAssumption
    DEF IInv, TypeOK, BeforeInsert, RoomObjs, Threads,
      BornInRoom, ReferencesExist, SlotsHoldTheirOwn, IndexIsASlot,
      RoomsAreOld, RegisteredOnce, NoEmptyImplicitRoom, Members,
      connVars, tableVars, authVars, threadVars
<1>1. CASE Authenticate(c)
  BY <1>1 DEF Authenticate
<1>2. CASE AuthRejected(c)
  BY <1>2 DEF AuthRejected
<1>3. CASE Expire(c)
  BY <1>3 DEF Expire
<1>4. CASE JoinBegin(c)
  BY <1>4 DEF JoinBegin
<1>5. CASE SupersedeReturns(c)
  BY <1>5 DEF SupersedeReturns
<1>6. CASE EngineFails(c)
  BY <1>6 DEF EngineFails
<1>7. CASE InsertRefused(c)
  BY <1>7 DEF InsertRefused
<1>8. CASE Wire(c)
  BY <1>8 DEF Wire
<1>9. CASE LoopExits(c)
  BY <1>9 DEF LoopExits
<1>10. CASE RefreshVerify(c)
  BY <1>10 DEF RefreshVerify
<1>11. CASE RefreshToken(c)
  BY <1>11 DEF RefreshToken
<1> QED
  BY <1>1, <1>2, <1>3, <1>4, <1>5, <1>6, <1>7, <1>8, <1>9, <1>10, <1>11

\* The steps that set the closed flag from the session's own goroutines, and the
\* steps of Close that leave the tables alone.
LEMMA CloseStartsPreserve ==
  ASSUME NEW c \in Conns, IInv,
         \/ SessionEnds(c) \/ PeerFails(c) \/ ExpiryWatchdog(c)
         \/ RemoveNothing(c) \/ ReportLeft(c)
  PROVE  IInv'
<1> USE TokenTypes, NoneAssumption, BoundAssumption
    DEF IInv, TypeOK, BeforeInsert, RoomObjs, Threads,
      BornInRoom, ReferencesExist, SlotsHoldTheirOwn, IndexIsASlot,
      RoomsAreOld, RegisteredOnce, NoEmptyImplicitRoom, Members,
      connVars, tableVars, authVars, threadVars
<1>1. CASE SessionEnds(c)
  BY <1>1 DEF SessionEnds, StartClose
<1>2. CASE PeerFails(c)
  BY <1>2 DEF PeerFails, StartClose
<1>3. CASE ExpiryWatchdog(c)
  BY <1>3 DEF ExpiryWatchdog, StartClose
<1>4. CASE RemoveNothing(c)
  BY <1>4 DEF RemoveNothing, HasSlot
<1>5. CASE ReportLeft(c)
  BY <1>5 DEF ReportLeft
<1> QED
  BY <1>1, <1>2, <1>3, <1>4, <1>5

\* The steps about one sid: the revocation table and CloseSession.
LEMMA SidStepsPreserve ==
  ASSUME NEW s \in Sids, IInv,
         \/ TokensSpent(s) \/ RevokeJanitor(s) \/ RevokeSession(s)
         \/ CloseSession(s)
  PROVE  IInv'
<1> USE TokenTypes, NoneAssumption, BoundAssumption
    DEF IInv, TypeOK, BeforeInsert, RoomObjs, Threads,
      BornInRoom, ReferencesExist, SlotsHoldTheirOwn, IndexIsASlot,
      RoomsAreOld, RegisteredOnce, NoEmptyImplicitRoom, Members,
      connVars, tableVars, authVars, threadVars
<1>1. CASE TokensSpent(s)
  BY <1>1 DEF TokensSpent
<1>2. CASE RevokeJanitor(s)
  BY <1>2 DEF RevokeJanitor
<1>3. CASE RevokeSession(s)
  BY <1>3 DEF RevokeSession, Receive
<1>4. CASE CloseSession(s)
  BY <1>4 DEF CloseSession
<1> QED
  BY <1>1, <1>2, <1>3, <1>4

\* The critical section of removeParticipant, by whichever participant found the
\* slot.
LEMMA RemoveParticipantPreserves ==
  ASSUME NEW c \in Conns, IInv, RemoveParticipant(c) PROVE IInv'
<1> DEFINE s == SidOf(c)
           i == RidOf(c)
           r == home[c]
<1>1. /\ stage' = [stage EXCEPT ![c] = "detached"]
      /\ parts' = [parts EXCEPT ![r][s] = None]
      /\ bySID' = [bySID EXCEPT ![s] = None]
      /\ stage[c] = "closing"
      /\ UNCHANGED <<pc, prev, home, expired, left, ensured, nextRoom, roomsGauge>>
      /\ UNCHANGED <<draining, revoked, spent>>
      /\ UNCHANGED <<queue, todo, busy, owesDec, orders, shutdown>>
  BY DEF RemoveParticipant, authVars, threadVars
<1>2. \/ /\ RoomGone(c)
         /\ rooms' = [rooms EXCEPT ![i] = None]
         /\ removed' = removed \cup {r}
         /\ lastOne' = lastOne \cup {c}
      \/ /\ ~RoomGone(c)
         /\ UNCHANGED <<rooms, removed, lastOne>>
  BY DEF RemoveParticipant
<1>3. s \in Sids /\ i \in Rids
  BY TokenTypes
<1>4. r \in RoomObjs /\ r # None /\ r < nextRoom
  BY <1>1 DEF IInv, TypeOK, BornInRoom, RoomsAreOld
<1>5. RoomGone(c) => rooms[i] = r
  BY <1>4 DEF RoomGone, IInv, RegisteredOnce
<1>6. ~RoomGone(c) => \/ r \in ensured
                      \/ r \in removed
                      \/ \E x \in Sids : x # s /\ parts[r][x] # None
  BY <1>3 DEF RoomGone, Members
<1> HIDE DEF s, i, r
<1> USE NoneAssumption DEF IInv
<1>7. TypeOK'
  BY <1>1, <1>2, <1>3, <1>4 DEF TypeOK
<1>8. BornInRoom'
  BY <1>1 DEF TypeOK, BornInRoom
<1>9. ReferencesExist'
  BY <1>1 DEF TypeOK, ReferencesExist
<1>10. SlotsHoldTheirOwn'
  BY <1>1, <1>3, <1>4 DEF TypeOK, SlotsHoldTheirOwn, s, r
<1>11. IndexIsASlot'
  BY <1>1, <1>3, <1>4 DEF TypeOK, IndexIsASlot
<1>12. RoomsAreOld'
  BY <1>1, <1>2, <1>3, <1>4 DEF TypeOK, RoomsAreOld
<1>13. RegisteredOnce'
  BY <1>1, <1>2, <1>3, <1>4, <1>5, TokenTypes, SMTT(30) DEF TypeOK, RegisteredOnce
<1>14. NoEmptyImplicitRoom'
  <2> SUFFICES ASSUME NEW j \in Rids, rooms'[j] # None, rooms'[j] \notin ensured
               PROVE  \E x \in Sids : parts'[rooms'[j]][x] # None
    BY <1>1 DEF NoEmptyImplicitRoom, Members
  <2>1. rooms'[j] = rooms[j] /\ rooms[j] \in RoomObjs
    BY <1>2, <1>3 DEF TypeOK
  <2>2. CASE rooms[j] # r
    BY <1>1, <1>3, <1>4, <2>1, <2>2 DEF TypeOK, NoEmptyImplicitRoom, Members
  <2>3. CASE rooms[j] = r
    <3>1. ~RoomGone(c)
      BY <1>2, <1>3, <1>4, <1>5, <2>1, <2>3 DEF TypeOK, RegisteredOnce
    <3>2. r \notin removed /\ r \notin ensured
      BY <2>1, <2>3 DEF RegisteredOnce
    <3>3. QED
      BY <1>1, <1>3, <1>4, <1>6, <2>1, <2>3, <3>1, <3>2 DEF TypeOK
  <2>4. QED
    BY <2>2, <2>3
<1> QED
  BY <1>7, <1>8, <1>9, <1>10, <1>11, <1>12, <1>13, <1>14

\* Join's lookup of the session it supersedes.
LEMMA LookupOldPreserves == ASSUME NEW c \in Conns, IInv, LookupOld(c) PROVE IInv'
<1> USE TokenTypes, NoneAssumption DEF LookupOld, IInv, tableVars, authVars, threadVars
<1>1. bySID[SidOf(c)] # None =>
        bySID[SidOf(c)] \in Conns /\ stage[bySID[SidOf(c)]] # "absent"
  BY DEF TypeOK, IndexIsASlot, BornInRoom
<1>2. TypeOK' /\ BornInRoom'
  BY DEF TypeOK, BornInRoom, BeforeInsert
<1>3. ReferencesExist'
  BY <1>1 DEF TypeOK, ReferencesExist
<1>4. SlotsHoldTheirOwn' /\ IndexIsASlot' /\ RoomsAreOld' /\ RegisteredOnce' /\ NoEmptyImplicitRoom'
  BY DEF SlotsHoldTheirOwn, IndexIsASlot, RoomsAreOld, RegisteredOnce, NoEmptyImplicitRoom, Members
<1> QED
  BY <1>2, <1>3, <1>4

\* Join's call of old.Close.
LEMMA SupersedePreserves == ASSUME NEW c \in Conns, IInv, Supersede(c) PROVE IInv'
<1> USE NoneAssumption DEF Supersede, StartClose, IInv, tableVars, authVars, threadVars
<1>1. prev[c] \in Conns /\ stage[prev[c]] # "absent"
  BY DEF ReferencesExist
<1>2. TypeOK' /\ BornInRoom'
  BY <1>1, SMTT(30) DEF TypeOK, BornInRoom, BeforeInsert
<1>3. ReferencesExist'
  BY <1>1 DEF TypeOK, ReferencesExist
<1>4. SlotsHoldTheirOwn'
  BY <1>1 DEF TypeOK, SlotsHoldTheirOwn
<1>5. IndexIsASlot' /\ RoomsAreOld' /\ RegisteredOnce' /\ NoEmptyImplicitRoom'
  BY DEF IndexIsASlot, RoomsAreOld, RegisteredOnce, NoEmptyImplicitRoom, Members
<1> QED
  BY <1>2, <1>3, <1>4, <1>5

\* The room a join enters is registered under its rid or was never in use.
LEMMA RoomForFacts ==
  ASSUME NEW c \in Conns, IInv, Insert(c)
  PROVE  /\ RoomFor(c) \in RoomObjs
         /\ nextRoom' \in 1..(MaxRooms + 1) /\ nextRoom <= nextRoom'
         /\ RoomFor(c) < nextRoom'
         /\ RoomFor(c) \notin removed
         /\ \A j \in Rids : rooms[j] = RoomFor(c) => j = RidOf(c)
         /\ rooms[RidOf(c)] # None => RoomFor(c) = rooms[RidOf(c)]
<1> USE TokenTypes, NoneAssumption, BoundAssumption
    DEF Insert, IInv, TypeOK, RoomFor, RoomObjs, RoomsAreOld
<1>1. CASE rooms[RidOf(c)] = None
  BY <1>1
<1>2. CASE rooms[RidOf(c)] # None
  BY <1>2 DEF RegisteredOnce
<1> QED
  BY <1>1, <1>2

\* Join's insertion, under the lock.
LEMMA InsertPreserves == ASSUME NEW c \in Conns, IInv, Insert(c) PROVE IInv'
<1> DEFINE s == SidOf(c)
           i == RidOf(c)
           r == RoomFor(c)
<1>1. /\ home' = [home EXCEPT ![c] = r]
      /\ stage' = [stage EXCEPT ![c] = "live"]
      /\ parts' = [parts EXCEPT ![r][s] = c]
      /\ bySID' = [bySID EXCEPT ![s] = c]
      /\ rooms' = [rooms EXCEPT ![i] = r]
      /\ pc' = [pc EXCEPT ![c] = "wire"]
      /\ prev' = [prev EXCEPT ![c] = None]
      /\ expired' = expired \/ expired' = expired \cup {c}
      /\ pc[c] = "insert"
      /\ UNCHANGED <<left, lastOne, ensured, removed, draining, revoked, spent>>
      /\ UNCHANGED <<queue, todo, busy, owesDec, orders, shutdown>>
  BY DEF Insert, authVars, threadVars
<1>2. s \in Sids /\ i \in Rids
  BY TokenTypes
<1>3. /\ r \in RoomObjs /\ r # None
      /\ nextRoom' \in 1..(MaxRooms + 1) /\ nextRoom <= nextRoom'
      /\ r < nextRoom'
      /\ r \notin removed
      /\ \A j \in Rids : rooms[j] = r => j = i
      /\ rooms[i] # None => r = rooms[i]
  BY RoomForFacts, NoneAssumption DEF RoomObjs
<1>4. roomsGauge' \in Int
  BY DEF Insert, IInv, TypeOK
<1>5. home[c] = None /\ stage[c] = "absent"
  BY <1>1 DEF IInv, BornInRoom, BeforeInsert
<1> HIDE DEF s, i, r
<1> USE NoneAssumption DEF IInv
<1>6. TypeOK'
  BY <1>1, <1>2, <1>3, <1>4 DEF TypeOK
<1>7. BornInRoom'
  BY <1>1, <1>2, <1>3, <1>5 DEF TypeOK, BornInRoom, BeforeInsert
<1>8. ReferencesExist'
  BY <1>1, <1>5 DEF TypeOK, ReferencesExist
<1>9. SlotsHoldTheirOwn'
  BY <1>1, <1>2, <1>3, <1>5 DEF TypeOK, SlotsHoldTheirOwn, s
<1>10. IndexIsASlot'
  BY <1>1, <1>2, <1>3, <1>5 DEF TypeOK, IndexIsASlot, SlotsHoldTheirOwn, s
<1>11. RoomsAreOld'
  BY <1>1, <1>2, <1>3, BoundAssumption DEF TypeOK, RoomsAreOld, RoomObjs
<1>12. RegisteredOnce'
  BY <1>1, <1>2, <1>3, <1>5, TokenTypes DEF TypeOK, RegisteredOnce, i
<1>13. NoEmptyImplicitRoom'
  BY <1>1, <1>2, <1>3 DEF TypeOK, NoEmptyImplicitRoom, Members
<1> QED
  BY <1>6, <1>7, <1>8, <1>9, <1>10, <1>11, <1>12, <1>13

\* EnsureRoom of a registered room.
LEMMA EnsureKnownRoomPreserves ==
  ASSUME NEW i \in Rids, IInv, EnsureKnownRoom(i) PROVE IInv'
<1> USE NoneAssumption, BoundAssumption
    DEF EnsureKnownRoom, Receive, IInv, connVars, authVars
<1>1. TypeOK'
  BY DEF TypeOK
<1>2. BornInRoom' /\ ReferencesExist' /\ SlotsHoldTheirOwn' /\ IndexIsASlot'
  BY DEF BornInRoom, ReferencesExist, SlotsHoldTheirOwn, IndexIsASlot
<1>3. RoomsAreOld' /\ RegisteredOnce' /\ NoEmptyImplicitRoom'
  BY DEF RoomsAreOld, RegisteredOnce, NoEmptyImplicitRoom, Members
<1> QED
  BY <1>1, <1>2, <1>3

\* EnsureRoom of an unknown room.
LEMMA EnsureNewRoomPreserves ==
  ASSUME NEW i \in Rids, IInv, EnsureNewRoom(i) PROVE IInv'
<1> USE NoneAssumption, BoundAssumption
    DEF EnsureNewRoom, Receive, IInv, connVars, authVars
<1>1. Cardinality(Conns) \in Nat
  BY FiniteAssumption, FS_CardinalityType
<1>2. nextRoom \in RoomObjs /\ nextRoom' = nextRoom + 1 /\ nextRoom # None
  BY <1>1 DEF TypeOK, RoomObjs
<1>3. TypeOK'
  BY <1>2 DEF TypeOK, RoomObjs
<1>4. BornInRoom' /\ ReferencesExist' /\ SlotsHoldTheirOwn' /\ IndexIsASlot'
  BY DEF BornInRoom, ReferencesExist, SlotsHoldTheirOwn, IndexIsASlot
<1>5. RoomsAreOld'
  BY <1>2 DEF TypeOK, RoomsAreOld, RoomObjs
<1>6. RegisteredOnce'
  BY <1>2, TokenTypes DEF TypeOK, RegisteredOnce, RoomsAreOld, RoomObjs
<1>7. NoEmptyImplicitRoom'
  BY <1>2 DEF TypeOK, NoEmptyImplicitRoom, Members
<1> QED
  BY <1>3, <1>4, <1>5, <1>6, <1>7

\* CloseRoom's decrement of the gauge.
LEMMA CloseRoomDecPreserves == ASSUME IInv, CloseRoomDec PROVE IInv'
<1> USE DEF CloseRoomDec, IInv, connVars, authVars
<1>1. TypeOK'
  <2>1. owesDec' \in BOOLEAN /\ draining' \in BOOLEAN
    BY Zenon DEF TypeOK
  <2>2. roomsGauge' \in Int
    BY DEF TypeOK
  <2>3. QED
    BY <2>1, <2>2 DEF TypeOK
<1>2. BornInRoom' /\ ReferencesExist' /\ SlotsHoldTheirOwn' /\ IndexIsASlot'
  BY DEF BornInRoom, ReferencesExist, SlotsHoldTheirOwn, IndexIsASlot
<1>3. RoomsAreOld' /\ RegisteredOnce' /\ NoEmptyImplicitRoom'
  BY DEF RoomsAreOld, RegisteredOnce, NoEmptyImplicitRoom, Members
<1> QED
  BY <1>1, <1>2, <1>3

\* A bulk closer calls Close on its next target.
LEMMA CloseNextPreserves ==
  ASSUME NEW t \in Threads, NEW c \in Conns, IInv, CloseNext(t, c) PROVE IInv'
<1> USE NoneAssumption DEF CloseNext, StartClose, IInv, tableVars, authVars
<1>1. stage[c] # "absent"
  BY DEF ReferencesExist
<1>2. TypeOK'
  <2>1. CASE Closed(c)
    BY <2>1 DEF TypeOK
  <2>2. CASE ~Closed(c)
    <3>1. /\ stage' = [stage EXCEPT ![c] = "closing"]
          /\ expired' = expired \ {c}
          /\ busy' = [busy EXCEPT ![t] = c]
          /\ todo' = [todo EXCEPT ![t] = @ \ {c}]
      BY <2>2
    <3>2. /\ busy' \in [Threads -> Conns \cup {None}]
          /\ todo' \in [Threads -> SUBSET Conns]
      BY <3>1 DEF TypeOK
    <3>3. QED
      BY <3>1, <3>2 DEF TypeOK
  <2>3. QED
    BY <2>1, <2>2
<1>3. BornInRoom'
  BY <1>1 DEF TypeOK, BornInRoom, BeforeInsert
<1>4. ReferencesExist'
  BY <1>1 DEF TypeOK, ReferencesExist
<1>5. SlotsHoldTheirOwn'
  BY DEF TypeOK, SlotsHoldTheirOwn
<1>6. IndexIsASlot' /\ RoomsAreOld' /\ RegisteredOnce' /\ NoEmptyImplicitRoom'
  BY DEF IndexIsASlot, RoomsAreOld, RegisteredOnce, NoEmptyImplicitRoom, Members
<1> QED
  BY <1>2, <1>3, <1>4, <1>5, <1>6

\* CloseRoom's critical section.
LEMMA CloseRoomPreserves ==
  ASSUME NEW i \in Rids, IInv, CloseRoom(i) PROVE IInv'
BY TokenTypes, NoneAssumption, BoundAssumption
DEF CloseRoom, Receive, IInv, TypeOK, RoomObjs, Threads,
    BornInRoom, ReferencesExist, SlotsHoldTheirOwn, IndexIsASlot,
    RoomsAreOld, RegisteredOnce, NoEmptyImplicitRoom, Members,
    connVars, tableVars, authVars, threadVars

\* DisconnectUser's snapshot.
LEMMA DisconnectUserPreserves ==
  ASSUME NEW i \in Rids, NEW u \in Uids, NEW s \in Sids \cup {None},
         IInv, DisconnectUser(i, u, s) PROVE IInv'
BY TokenTypes, NoneAssumption, BoundAssumption
DEF DisconnectUser, Targets, Receive, SidOf, IInv, TypeOK, RoomObjs, Threads,
    BornInRoom, ReferencesExist, SlotsHoldTheirOwn, IndexIsASlot,
    RoomsAreOld, RegisteredOnce, NoEmptyImplicitRoom, Members,
    connVars, tableVars, authVars, threadVars

\* MigrateParticipants EXECUTE.
LEMMA MigrateOutPreserves ==
  ASSUME NEW S \in SUBSET Sids, IInv, MigrateOut(S) PROVE IInv'
BY TokenTypes, NoneAssumption, BoundAssumption
DEF MigrateOut, Receive, IInv, TypeOK, RoomObjs, Threads,
    BornInRoom, ReferencesExist, SlotsHoldTheirOwn, IndexIsASlot,
    RoomsAreOld, RegisteredOnce, NoEmptyImplicitRoom, Members,
    connVars, tableVars, authVars, threadVars

\* Drain and its cancellation.
LEMMA SetDrainingPreserves ==
  ASSUME NEW v \in BOOLEAN, IInv, SetDraining(v) PROVE IInv'
BY TokenTypes, NoneAssumption, BoundAssumption
DEF SetDraining, Receive, IInv, TypeOK, RoomObjs, Threads,
    BornInRoom, ReferencesExist, SlotsHoldTheirOwn, IndexIsASlot,
    RoomsAreOld, RegisteredOnce, NoEmptyImplicitRoom, Members,
    connVars, tableVars, authVars, threadVars

\* A bulk closer returns from Close.
LEMMA CloseReturnsPreserves ==
  ASSUME NEW t \in Threads, IInv, CloseReturns(t) PROVE IInv'
BY TokenTypes, NoneAssumption, BoundAssumption
DEF CloseReturns, IInv, TypeOK, RoomObjs, Threads,
    BornInRoom, ReferencesExist, SlotsHoldTheirOwn, IndexIsASlot,
    RoomsAreOld, RegisteredOnce, NoEmptyImplicitRoom, Members,
    connVars, tableVars, authVars, threadVars

\* The shutdown sequence.
LEMMA ShutdownPreserves ==
  ASSUME IInv,
         \/ Terminate \/ CloseAll
  PROVE  IInv'
<1> USE TokenTypes, NoneAssumption, BoundAssumption
    DEF IInv, TypeOK, BeforeInsert, RoomObjs, Threads,
      BornInRoom, ReferencesExist, SlotsHoldTheirOwn, IndexIsASlot,
      RoomsAreOld, RegisteredOnce, NoEmptyImplicitRoom, Members,
      connVars, tableVars, authVars, threadVars
<1>1. CASE Terminate
  BY <1>1 DEF Terminate
<1>2. CASE CloseAll
  BY <1>2 DEF CloseAll, Users
<1> QED
  BY <1>1, <1>2

\* Every step preserves the invariant.
LEMMA NextPreserves == ASSUME IInv, [Next]_vars PROVE IInv'
<1>1. CASE \E c \in Conns : SessionStep(c)
  BY <1>1, QuietStepsPreserve, CloseStartsPreserve, LookupOldPreserves,
     SupersedePreserves, InsertPreserves DEF SessionStep
<1>2. CASE \E c \in Conns : CloseStep(c)
  BY <1>2, CloseStartsPreserve, RemoveParticipantPreserves DEF CloseStep
<1>3. CASE \E c \in Conns : ClientStep(c) \/ Expire(c)
  BY <1>3, QuietStepsPreserve, CloseStartsPreserve DEF ClientStep
<1>4. CASE \E s \in Sids : TokensSpent(s) \/ RevokeJanitor(s)
  BY <1>4, SidStepsPreserve
<1>5. CASE Command
  <2>1. CASE \E i \in Rids : EnsureKnownRoom(i) \/ EnsureNewRoom(i)
    BY <2>1, EnsureKnownRoomPreserves, EnsureNewRoomPreserves
  <2>2. CASE \E i \in Rids : CloseRoom(i)
    BY <2>2, CloseRoomPreserves
  <2>3. CASE \E i \in Rids, u \in Uids, s \in Sids \cup {None} : DisconnectUser(i, u, s)
    BY <2>3, DisconnectUserPreserves
  <2>4. CASE \E s \in Sids : RevokeSession(s)
    BY <2>4, SidStepsPreserve
  <2>5. CASE \E S \in SUBSET Sids : S # {} /\ MigrateOut(S)
    BY <2>5, MigrateOutPreserves
  <2>6. CASE \E v \in BOOLEAN : SetDraining(v)
    BY <2>6, SetDrainingPreserves
  <2>7. QED
    BY <1>5, <2>1, <2>2, <2>3, <2>4, <2>5, <2>6 DEF Command
<1>6. CASE Terminate \/ CloseAll
  BY <1>6, ShutdownPreserves
<1>7. CASE \E t \in Threads : ThreadStep(t)
  BY <1>7, CloseNextPreserves, CloseReturnsPreserves, CloseRoomDecPreserves,
     SidStepsPreserve DEF ThreadStep
<1>8. CASE AllOver \/ UNCHANGED vars
  BY <1>8 DEF AllOver, vars, connVars, tableVars, authVars, threadVars, IInv, TypeOK,
     BornInRoom, ReferencesExist, SlotsHoldTheirOwn, IndexIsASlot, RoomsAreOld,
     RegisteredOnce, NoEmptyImplicitRoom, Members
<1> QED
  BY <1>1, <1>2, <1>3, <1>4, <1>5, <1>6, <1>7, <1>8 DEF Next

\* The capacity bound needs only the types: Insert checks the size of the index
\* under the lock that it adds to it, and adds at most one.
LEMMA CapacityPreserved ==
  ASSUME TypeOK, CapacityBound, [Next]_vars PROVE CapacityBound'
<1> USE FiniteAssumption, NoneAssumption, BoundAssumption
<1>1. IsFiniteSet(Users) /\ IsFiniteSet(Users') /\ Cardinality(Users) \in Nat
  BY FS_Subset, FS_CardinalityType DEF Users
<1>2. CASE \E c \in Conns : Insert(c)
  <2> PICK c \in Conns : Insert(c)
    BY <1>2
  <2>1. Users' \subseteq Users \cup {SidOf(c)}
    BY DEF Insert, Users, TypeOK
  <2>2. IsFiniteSet(Users \cup {SidOf(c)}) /\ Cardinality(Users \cup {SidOf(c)}) <= Cardinality(Users) + 1
    BY <1>1, AddOne
  <2>3. Cardinality(Users') <= Cardinality(Users) + 1
    BY <1>1, <2>1, <2>2, FS_Subset, FS_CardinalityType
  <2>4. MaxUsers > 0 => Cardinality(Users) < MaxUsers
    BY <1>1 DEF Insert, AtCapacity
  <2>5. Cardinality(Users') \in Nat
    BY <1>1, FS_CardinalityType
  <2>6. QED
    BY <1>1, <2>3, <2>4, <2>5 DEF CapacityBound
<1>3. CASE \E c \in Conns : RemoveParticipant(c)
  <2>1. Users' \subseteq Users
    BY <1>3 DEF RemoveParticipant, Users, TypeOK
  <2>2. Cardinality(Users') <= Cardinality(Users) /\ Cardinality(Users') \in Nat
    BY <1>1, <2>1, FS_Subset, FS_CardinalityType
  <2>3. QED
    BY <1>1, <2>2 DEF CapacityBound
<1>4. CASE UNCHANGED bySID
  BY <1>4 DEF CapacityBound, Users
<1>5. (\E c \in Conns : Insert(c) \/ RemoveParticipant(c)) \/ UNCHANGED bySID
  BY DEF Next, SessionStep, CloseStep, ClientStep, Command, ThreadStep, AllOver, vars,
     tableVars, connVars, authVars, threadVars, Authenticate, AuthRejected, Expire,
     JoinBegin, LookupOld, Supersede, SupersedeReturns, EngineFails, InsertRefused, Wire,
     LoopExits, RefreshVerify, RefreshToken, SessionEnds, PeerFails, ExpiryWatchdog,
     RemoveNothing, ReportLeft, EnsureKnownRoom, EnsureNewRoom, CloseRoom, CloseRoomDec,
     DisconnectUser, RevokeSession, CloseSession, MigrateOut, SetDraining, Terminate,
     CloseAll, CloseNext, CloseReturns, TokensSpent, RevokeJanitor
<1> QED
  BY <1>2, <1>3, <1>4, <1>5

-----------------------------------------------------------------------------
(* The gauge of rooms                                                      *)

\* The participants that owe a decrement have left the tables, and owe it yet.
\* That finitely many rooms are registered is part of it: Rids need not be finite.
GaugeInv ==
  /\ RoomGaugeExact
  /\ \A c \in lastOne : stage[c] = "detached"
  /\ IsFiniteSet(RegisteredRooms)

LEMMA AddNew ==
  ASSUME NEW S, NEW x, IsFiniteSet(S), x \notin S
  PROVE  IsFiniteSet(S \cup {x}) /\ Cardinality(S \cup {x}) = Cardinality(S) + 1
BY FS_AddElement

LEMMA TakeOne ==
  ASSUME NEW S, NEW x, IsFiniteSet(S), x \in S
  PROVE  IsFiniteSet(S \ {x}) /\ Cardinality(S \ {x}) = Cardinality(S) - 1
BY FS_RemoveElement

\* What the gauge has to account for, in the terms of the invariant.
LEMMA GaugeTerms ==
  ASSUME TypeOK, \A c \in lastOne : stage[c] = "detached", IsFiniteSet(RegisteredRooms)
  PROVE  /\ {c \in lastOne : stage[c] = "detached"} = lastOne
         /\ IsFiniteSet(lastOne) /\ Cardinality(lastOne) \in Nat
         /\ Cardinality(RegisteredRooms) \in Nat
         /\ RoomGaugeExact <=>
              roomsGauge = Cardinality(RegisteredRooms) + Cardinality(lastOne)
                           + (IF owesDec THEN 1 ELSE 0)
<1>1. {c \in lastOne : stage[c] = "detached"} = lastOne
  OBVIOUS
<1>2. IsFiniteSet(lastOne)
  BY FiniteAssumption, FS_Subset DEF TypeOK
<1> QED
  BY <1>1, <1>2, FS_CardinalityType DEF RoomGaugeExact

\* The steps that matter to the gauge; the others leave it, and what it counts,
\* alone: a participant leaves the stage "detached" by ReportLeft only.
LEMMA GaugeSteps ==
  ASSUME IInv, [Next]_vars
  PROVE  \/ \E c \in Conns : Insert(c) \/ RemoveParticipant(c) \/ ReportLeft(c)
         \/ \E i \in Rids : EnsureNewRoom(i) \/ CloseRoom(i)
         \/ CloseRoomDec
         \/ /\ UNCHANGED <<roomsGauge, rooms, lastOne, owesDec>>
            /\ \A c \in Conns : stage[c] = "detached" => stage'[c] = "detached"
<1> DEFINE Quiet == /\ UNCHANGED <<roomsGauge, rooms, lastOne, owesDec>>
                    /\ \A c \in Conns : stage[c] = "detached" => stage'[c] = "detached"
<1> USE DEF connVars, tableVars, authVars, threadVars
<1>1. ASSUME NEW c \in Conns, SessionStep(c) PROVE Insert(c) \/ Quiet
  <2>1. CASE Supersede(c)
    BY <2>1 DEF IInv, TypeOK, Supersede, StartClose, Closed
  <2>2. CASE ExpiryWatchdog(c)
    BY <2>2 DEF IInv, TypeOK, ExpiryWatchdog, StartClose
  <2> QED
    BY <1>1, <2>1, <2>2 DEF SessionStep, JoinBegin, LookupOld, SupersedeReturns, InsertRefused,
       Wire, LoopExits, RefreshToken
<1>2. ASSUME NEW c \in Conns, CloseStep(c) PROVE RemoveParticipant(c) \/ ReportLeft(c) \/ Quiet
  BY <1>2 DEF CloseStep, RemoveNothing, IInv, TypeOK
<1>3. ASSUME NEW c \in Conns, ClientStep(c) \/ Expire(c) PROVE Quiet
  <2>1. CASE SessionEnds(c) \/ PeerFails(c)
    BY <2>1 DEF IInv, TypeOK, SessionEnds, PeerFails, StartClose
  <2> QED
    BY <1>3, <2>1 DEF ClientStep, Authenticate, AuthRejected, EngineFails, RefreshVerify, Expire
<1>4. ASSUME NEW s \in Sids, TokensSpent(s) \/ RevokeJanitor(s) PROVE Quiet
  BY <1>4 DEF TokensSpent, RevokeJanitor
<1>5. ASSUME Command PROVE (\E i \in Rids : EnsureNewRoom(i) \/ CloseRoom(i)) \/ Quiet
  BY <1>5 DEF Command, EnsureKnownRoom, DisconnectUser, RevokeSession, MigrateOut, SetDraining
<1>6. ASSUME Terminate \/ CloseAll PROVE Quiet
  BY <1>6 DEF Terminate, CloseAll
<1>7. ASSUME NEW t \in Threads, ThreadStep(t) PROVE CloseRoomDec \/ Quiet
  <2>1. ASSUME NEW c \in Conns, CloseNext(t, c) PROVE Quiet
    BY <2>1 DEF IInv, TypeOK, CloseNext, StartClose, Closed
  <2> QED
    BY <1>7, <2>1 DEF ThreadStep, CloseReturns, CloseSession
<1>8. ASSUME AllOver \/ UNCHANGED vars PROVE Quiet
  BY <1>8 DEF AllOver, vars
<1> HIDE DEF Quiet
<1>9. \/ \E c \in Conns : Insert(c) \/ RemoveParticipant(c) \/ ReportLeft(c)
      \/ \E i \in Rids : EnsureNewRoom(i) \/ CloseRoom(i)
      \/ CloseRoomDec
      \/ Quiet
  BY <1>1, <1>2, <1>3, <1>4, <1>5, <1>6, <1>7, <1>8 DEF Next
<1> QED
  BY <1>9 DEF Quiet

\* A room that is created, and one that is closed.
LEMMA RoomAdded ==
  ASSUME TypeOK, GaugeInv, NEW i \in Rids, rooms[i] = None, NEW r \in RoomObjs,
         rooms' = [rooms EXCEPT ![i] = r]
  PROVE  IsFiniteSet(RegisteredRooms)' /\ Cardinality(RegisteredRooms)' = Cardinality(RegisteredRooms) + 1
<1>1. r # None
  BY NoneAssumption DEF RoomObjs
<1>2. RegisteredRooms' = RegisteredRooms \cup {i} /\ i \notin RegisteredRooms
  BY <1>1 DEF RegisteredRooms, TypeOK
<1> QED
  BY <1>2, AddNew DEF GaugeInv

LEMMA RoomDropped ==
  ASSUME TypeOK, GaugeInv, NEW i \in Rids, rooms[i] # None,
         rooms' = [rooms EXCEPT ![i] = None]
  PROVE  IsFiniteSet(RegisteredRooms)' /\ Cardinality(RegisteredRooms)' = Cardinality(RegisteredRooms) - 1
<1>1. RegisteredRooms' = RegisteredRooms \ {i} /\ i \in RegisteredRooms
  BY DEF RegisteredRooms, TypeOK
<1> QED
  BY <1>1, TakeOne DEF GaugeInv

LEMMA GaugePreserved ==
  ASSUME IInv, IInv', GaugeInv, [Next]_vars PROVE GaugeInv'
<1> DEFINE C == Cardinality(RegisteredRooms)
           L == Cardinality(lastOne)
<1>1. /\ TypeOK /\ TypeOK' /\ C \in Nat /\ L \in Nat /\ IsFiniteSet(lastOne)
      /\ roomsGauge = C + L + (IF owesDec THEN 1 ELSE 0) /\ roomsGauge \in Int
      /\ IsFiniteSet(RegisteredRooms)
      /\ \A c \in lastOne : stage[c] = "detached"
  BY GaugeTerms DEF GaugeInv, IInv, TypeOK
<1>2. ASSUME \A c \in lastOne' : stage'[c] = "detached", IsFiniteSet(RegisteredRooms'),
             roomsGauge' = Cardinality(RegisteredRooms') + Cardinality(lastOne') + (IF owesDec' THEN 1 ELSE 0)
      PROVE  GaugeInv'
  <2>1. {c \in lastOne' : stage'[c] = "detached"} = lastOne'
    BY <1>2
  <2> QED
    BY <1>2, <2>1 DEF GaugeInv, RoomGaugeExact
<1>3. ASSUME NEW c \in Conns, Insert(c) PROVE GaugeInv'
  <2>1. /\ lastOne' = lastOne /\ owesDec' = owesDec /\ stage' = [stage EXCEPT ![c] = "live"]
        /\ rooms' = [rooms EXCEPT ![RidOf(c)] = RoomFor(c)] /\ RoomFor(c) \in RoomObjs
        /\ pc[c] = "insert" /\ RidOf(c) \in Rids
    BY <1>3, TokenTypes DEF Insert, threadVars
  <2>2. stage[c] = "absent"
    BY <2>1 DEF IInv, BornInRoom, BeforeInsert
  <2>3. \A d \in lastOne' : stage'[d] = "detached"
    BY <1>1, <2>1, <2>2 DEF TypeOK
  <2>4. CASE rooms[RidOf(c)] = None
    <3>1. roomsGauge' = roomsGauge + 1
      BY <1>3, <2>4 DEF Insert
    <3>2. IsFiniteSet(RegisteredRooms)' /\ Cardinality(RegisteredRooms)' = C + 1
      BY <1>1, <2>1, <2>4, RoomAdded
    <3> QED
      BY <1>1, <1>2, <2>1, <2>3, <3>1, <3>2
  <2>5. CASE rooms[RidOf(c)] # None
    <3>1. roomsGauge' = roomsGauge /\ rooms' = rooms
      BY <1>1, <1>3, <2>1, <2>5 DEF Insert, RoomFor, TypeOK
    <3>2. RegisteredRooms' = RegisteredRooms
      BY <3>1 DEF RegisteredRooms
    <3> QED
      BY <1>1, <1>2, <2>1, <2>3, <3>1, <3>2
  <2> QED
    BY <2>4, <2>5
<1>4. ASSUME NEW c \in Conns, RemoveParticipant(c) PROVE GaugeInv'
  <2>1. /\ roomsGauge' = roomsGauge /\ owesDec' = owesDec /\ stage[c] = "closing"
        /\ stage' = [stage EXCEPT ![c] = "detached"]
    BY <1>4 DEF RemoveParticipant, threadVars
  <2>2. c \notin lastOne
    BY <1>1, <2>1
  <2>3. CASE RoomGone(c)
    <3>1. rooms' = [rooms EXCEPT ![RidOf(c)] = None] /\ lastOne' = lastOne \cup {c}
      BY <1>4, <2>3 DEF RemoveParticipant
    <3>2. rooms[RidOf(c)] # None /\ RidOf(c) \in Rids
      BY <2>1, <2>3, TokenTypes, NoneAssumption DEF RoomGone, IInv, RegisteredOnce, BornInRoom
    <3>3. IsFiniteSet(RegisteredRooms)' /\ Cardinality(RegisteredRooms)' = C - 1
      BY <1>1, <3>1, <3>2, RoomDropped
    <3>4. Cardinality(lastOne') = L + 1
      BY <1>1, <2>2, <3>1, AddNew
    <3>5. \A d \in lastOne' : stage'[d] = "detached"
      BY <1>1, <2>1, <3>1 DEF TypeOK
    <3> QED
      BY <1>1, <1>2, <2>1, <3>3, <3>4, <3>5
  <2>4. CASE ~RoomGone(c)
    <3>1. rooms' = rooms /\ lastOne' = lastOne
      BY <1>4, <2>4 DEF RemoveParticipant
    <3>2. RegisteredRooms' = RegisteredRooms
      BY <3>1 DEF RegisteredRooms
    <3>3. \A d \in lastOne' : stage'[d] = "detached"
      BY <1>1, <2>1, <3>1 DEF TypeOK
    <3> QED
      BY <1>1, <1>2, <2>1, <3>1, <3>2, <3>3
  <2> QED
    BY <2>3, <2>4
<1>5. ASSUME NEW c \in Conns, ReportLeft(c) PROVE GaugeInv'
  <2>1. /\ owesDec' = owesDec /\ rooms' = rooms /\ lastOne' = lastOne \ {c}
        /\ stage' = [stage EXCEPT ![c] = "gone"]
        /\ roomsGauge' = IF c \in lastOne THEN roomsGauge - 1 ELSE roomsGauge
    BY <1>5 DEF ReportLeft, threadVars
  <2>2. RegisteredRooms' = RegisteredRooms
    BY <2>1 DEF RegisteredRooms
  <2>3. \A d \in lastOne' : stage'[d] = "detached"
    BY <1>1, <2>1 DEF TypeOK
  <2>4. CASE c \in lastOne
    <3>1. Cardinality(lastOne') = L - 1
      BY <1>1, <2>1, <2>4, TakeOne
    <3> QED
      BY <1>1, <1>2, <2>1, <2>2, <2>3, <2>4, <3>1
  <2>5. CASE c \notin lastOne
    <3>1. lastOne' = lastOne
      BY <2>1, <2>5
    <3> QED
      BY <1>1, <1>2, <2>1, <2>2, <2>3, <2>5, <3>1
  <2> QED
    BY <2>4, <2>5
<1>6. ASSUME NEW i \in Rids, EnsureNewRoom(i) \/ CloseRoom(i) PROVE GaugeInv'
  <2>1. lastOne' = lastOne /\ stage' = stage
    BY <1>6 DEF EnsureNewRoom, CloseRoom, connVars
  <2>2. CASE EnsureNewRoom(i)
    <3>1. /\ rooms[i] = None /\ rooms' = [rooms EXCEPT ![i] = nextRoom]
          /\ roomsGauge' = roomsGauge + 1 /\ owesDec' = owesDec
          /\ nextRoom + Cardinality(Conns) <= MaxRooms
      BY <2>2 DEF EnsureNewRoom
    <3>2. nextRoom \in RoomObjs
      BY <1>1, <3>1, FiniteAssumption, FS_CardinalityType, BoundAssumption DEF TypeOK, RoomObjs
    <3>3. IsFiniteSet(RegisteredRooms)' /\ Cardinality(RegisteredRooms)' = C + 1
      BY <1>1, <3>1, <3>2, RoomAdded
    <3> QED
      BY <1>1, <1>2, <2>1, <3>1, <3>3
  <2>3. CASE CloseRoom(i)
    <3>1. /\ rooms[i] # None /\ rooms' = [rooms EXCEPT ![i] = None]
          /\ roomsGauge' = roomsGauge /\ owesDec' = TRUE /\ owesDec = FALSE
      BY <1>1, <2>3 DEF CloseRoom, Receive, TypeOK
    <3>2. IsFiniteSet(RegisteredRooms)' /\ Cardinality(RegisteredRooms)' = C - 1
      BY <1>1, <3>1, RoomDropped
    <3> QED
      BY <1>1, <1>2, <2>1, <3>1, <3>2
  <2> QED
    BY <1>6, <2>2, <2>3
<1>7. ASSUME CloseRoomDec PROVE GaugeInv'
  <2>1. /\ lastOne' = lastOne /\ stage' = stage /\ rooms' = rooms
        /\ roomsGauge' = roomsGauge - 1 /\ owesDec' = FALSE /\ owesDec = TRUE
    BY <1>1, <1>7 DEF CloseRoomDec, connVars, TypeOK
  <2>2. RegisteredRooms' = RegisteredRooms
    BY <2>1 DEF RegisteredRooms
  <2> QED
    BY <1>1, <1>2, <2>1, <2>2
<1>8. ASSUME UNCHANGED <<roomsGauge, rooms, lastOne, owesDec>>,
             \A c \in Conns : stage[c] = "detached" => stage'[c] = "detached"
      PROVE  GaugeInv'
  <2>1. RegisteredRooms' = RegisteredRooms
    BY <1>8 DEF RegisteredRooms
  <2>2. \A d \in lastOne' : stage'[d] = "detached"
    BY <1>1, <1>8 DEF TypeOK
  <2> QED
    BY <1>1, <1>2, <1>8, <2>1, <2>2
<1> QED
  BY <1>3, <1>4, <1>5, <1>6, <1>7, <1>8, GaugeSteps

-----------------------------------------------------------------------------
(* Theorems                                                                *)

\* The inductive invariant is an invariant.
LEMMA Inductive == Spec => []IInv
<1>1. Init => IInv
  BY InitEstablishes
<1>2. IInv /\ [Next]_vars => IInv'
  BY NextPreserves
<1> QED
  BY <1>1, <1>2, PTL DEF Spec

\* Every variable has its type; a bulk closer only ever holds participants.
THEOREM TypeCorrect == Spec => []TypeOK
<1>1. IInv => TypeOK
  BY DEF IInv
<1> QED
  BY <1>1, Inductive, PTL

\* Manager.bySID only ever points to a participant its room lists.
THEOREM IndexSound == Spec => []IndexedIsListed
<1>1. IInv => IndexedIsListed
  BY DEF IInv, IndexIsASlot, IndexedIsListed
<1> QED
  BY <1>1, Inductive, PTL

\* A session whose removal has passed its critical section is listed neither
\* in the index nor in any room.
THEOREM DepartedUnlisted == Spec => []NoGhost
<1>1. IInv => NoGhost
  <2> SUFFICES ASSUME IInv, NEW c \in Conns, stage[c] \in {"detached", "gone"}
               PROVE  /\ bySID[SidOf(c)] # c
                      /\ \A r \in RoomObjs : parts[r][SidOf(c)] # c
    BY DEF NoGhost
  <2>1. \A r \in RoomObjs : parts[r][SidOf(c)] # c
    BY TokenTypes, NoneAssumption DEF IInv, SlotsHoldTheirOwn
  <2>2. bySID[SidOf(c)] # c
    BY <2>1, TokenTypes, NoneAssumption DEF IInv, TypeOK, IndexIsASlot
  <2>3. QED
    BY <2>1, <2>2
<1> QED
  BY <1>1, Inductive, PTL

\* A Room object is registered under its members' rid until it is removed, so
\* a late removal never unregisters the room that took over the id.
THEOREM RegistrationSound == Spec => []RegisteredUntilRemoved
<1>1. IInv => RegisteredUntilRemoved
  BY TokenTypes DEF IInv, RegisteredOnce, RegisteredUntilRemoved
<1> QED
  BY <1>1, Inductive, PTL

\* An implicit room is never left registered without a member.
THEOREM ImplicitRoomsReclaimed == Spec => []NoEmptyImplicitRoom
<1>1. IInv => NoEmptyImplicitRoom
  BY DEF IInv
<1> QED
  BY <1>1, Inductive, PTL

\* The node never indexes more sessions than max_users.
THEOREM CapacityHeld == Spec => []CapacityBound
<1>1. Init => CapacityBound
  <2> SUFFICES ASSUME Init PROVE CapacityBound
    OBVIOUS
  <2>1. Users = {}
    BY NoneAssumption DEF Init, Users
  <2>2. QED
    BY <2>1, FS_EmptySet, BoundAssumption DEF CapacityBound
<1>2. TypeOK /\ CapacityBound /\ [Next]_vars => CapacityBound'
  BY CapacityPreserved
<1> QED
  BY <1>1, <1>2, TypeCorrect, PTL DEF Spec

\* metrics.Rooms counts the registered rooms, but for the decrements that a
\* closer or CloseRoom has yet to make after the lock: none is lost or doubled,
\* whatever removals, closures and new rooms overlap.
THEOREM GaugeCounts == Spec => []RoomGaugeExact
<1>1. Init => GaugeInv
  <2> SUFFICES ASSUME Init PROVE GaugeInv
    OBVIOUS
  <2>1. RegisteredRooms = {} /\ lastOne = {} /\ {c \in lastOne : stage[c] = "detached"} = {}
    BY DEF Init, RegisteredRooms
  <2>2. IsFiniteSet({}) /\ Cardinality({}) = 0
    BY FS_EmptySet
  <2>3. RoomGaugeExact
    BY <2>1, <2>2 DEF Init, RoomGaugeExact
  <2> QED
    BY <2>1, <2>2, <2>3 DEF GaugeInv
<1>2. IInv /\ IInv' /\ GaugeInv /\ [Next]_vars => GaugeInv'
  BY GaugePreserved
<1>3. GaugeInv => RoomGaugeExact
  BY DEF GaugeInv
<1> QED
  BY <1>1, <1>2, <1>3, Inductive, PTL DEF Spec
=============================================================================
