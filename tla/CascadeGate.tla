----------------------------- MODULE CascadeGate -----------------------------
(***************************************************************************)
(* The right to forward across an edge, on one node (internal/cascade      *)
(* state.go, and recompute, watchdog and the sessions of manager.go): the  *)
(* anchor lease, the epoch of the edge set, and the gate of the registered *)
(* session, which the media path reads without a lock.                     *)
(*                                                                         *)
(* Leases and edge sets arrive separately; sessions of the edge come and   *)
(* go by themselves (how is the subject of CascadeLinks).  A recomputation *)
(* reads the clock before it takes the lock, so it may find a lease        *)
(* running that has run out since, and even one that was installed after   *)
(* the clock was read.                                                     *)
(***************************************************************************)
EXTENDS Naturals, FiniteSets, Sequences

CONSTANTS
  Sessions,   \* sessions of the edge, each of which lives once
  MaxEpoch,   \* bound: epochs the Server issues
  MaxOrders,  \* bound: commands, and leases that run out
  None

ASSUME SessionAssumption == None \notin Sessions
ASSUME BoundAssumption == MaxEpoch \in Nat /\ MaxOrders \in Nat

VARIABLES
  epoch,      \* roomState.epoch
  edge,       \* the edge is in roomState.edges
  leaseEpoch, \* roomState.lease.Epoch, 0 without a lease
  running,    \* the lease's end has not come
  allowed,    \* roomState.lastAllowed
  reg,        \* roomState.sessions: the edge's session, or None
  est,        \* edgeSession.established
  shut,       \* edgeSession.closed
  gate,       \* edgeSession.active
  used,       \* sessions that have been made
  job,        \* what each goroutine has left to do
  orders

rightVars == <<epoch, edge, leaseEpoch, running>>
sessVars == <<reg, est, shut, used>>
vars == <<rightVars, sessVars, allowed, gate, job, orders>>

Control == <<"control", None>>
Watchdog == <<"watchdog", None>>
Hook == <<"hook", None>>
Threads == {Control, Watchdog, Hook} \cup ({"session"} \X Sessions)

Do(op, s) == [op |-> op, session |-> s]
Recompute == Do("recompute", None)

At(t, op) == job[t] # <<>> /\ Head(job[t]).op = op
Start(t, steps) == job[t] = <<>> /\ job' = [job EXCEPT ![t] = steps]
Continue(t, steps) == job' = [job EXCEPT ![t] = steps \o Tail(@)] /\ UNCHANGED orders
Order == orders < MaxOrders /\ orders' = orders + 1

\* forwardingAllowed, by a clock reading that found the lease running or not.
ForwardingAllowed(run) == leaseEpoch # 0 /\ leaseEpoch = epoch /\ run = TRUE

Init ==
  /\ epoch = 0 /\ edge = FALSE /\ leaseEpoch = 0 /\ running = FALSE
  /\ allowed = FALSE /\ reg = None /\ est = {} /\ shut = {} /\ gate = {} /\ used = {}
  /\ job = [t \in Threads |-> <<>>] /\ orders = 0

-----------------------------------------------------------------------------
(* Commands                                                                *)

\* What the goroutines have left once a lease is installed: its end lies after
\* every clock reading that has been made.
LeaseSeen ==
  [t \in Threads |-> IF At(t, "gate") THEN [job[t] EXCEPT ![1].run = TRUE] ELSE job[t]]

\* SetAnchorLease, applyLease: the epoch of leases does not go back.
SetAnchorLease(e) ==
  /\ Order /\ job[Control] = <<>>
  /\ IF leaseEpoch # 0 /\ e < leaseEpoch
     THEN UNCHANGED <<leaseEpoch, running, job>>
     ELSE /\ leaseEpoch' = e /\ running' = TRUE
          /\ job' = [LeaseSeen EXCEPT ![Control] = <<Recompute>>]
  /\ UNCHANGED <<epoch, edge, sessVars, allowed, gate>>

\* SetCascadeEdges, applyEdges: an older epoch is refused; the session of an
\* edge that is kept stays, any other is taken out and closed.
SetCascadeEdges(e, listed, same) ==
  /\ Order
  /\ IF e < epoch
     THEN job[Control] = <<>> /\ UNCHANGED <<epoch, edge, reg, job>>
     ELSE LET removed == reg # None /\ ~(listed /\ same)
          IN  /\ epoch' = e /\ edge' = listed
              /\ reg' = IF removed THEN None ELSE reg
              /\ Start(Control, (IF removed THEN <<Do("close", reg)>> ELSE <<>>) \o <<Recompute>>)
  /\ UNCHANGED <<leaseEpoch, running, est, shut, used, allowed, gate>>

\* CloseRoom: the state of the room goes, with the epochs seen.
CloseRoom ==
  /\ Order
  /\ epoch' = 0 /\ edge' = FALSE /\ leaseEpoch' = 0 /\ running' = FALSE
  /\ allowed' = FALSE /\ reg' = None
  /\ Start(Control, IF reg = None THEN <<>> ELSE <<Do("close", reg)>>)
  /\ UNCHANGED <<est, shut, used, gate>>

\* The clock passes the lease's end.
LeaseEnds ==
  /\ Order /\ running
  /\ running' = FALSE
  /\ UNCHANGED <<epoch, edge, leaseEpoch, sessVars, allowed, gate, job>>

-----------------------------------------------------------------------------
(* Sessions                                                                *)

\* Mutant: the new session waits for the next recomputation.
EstablishedLater(s) ==
  /\ s \notin used /\ edge
  /\ used' = used \cup {s}
  /\ reg' = s
  /\ est' = (est \ {reg}) \cup {s}
  /\ Start(<<"session", s>>, IF reg = None THEN <<>> ELSE <<Do("close", reg)>>)
  /\ UNCHANGED <<rightVars, shut, allowed, gate, orders>>

\* Mutant: established is not stored.
EstablishedUnmarked(s) ==
  /\ s \notin used /\ edge
  /\ used' = used \cup {s}
  /\ reg' = s /\ est' = est \ {reg}
  /\ Start(<<"session", s>>, <<Recompute>>)
  /\ UNCHANGED <<rightVars, shut, allowed, gate, orders>>

\* edgeEstablished: a new session takes the place of an older one, sets its
\* gate by a recomputation, and the older one is closed at the end.
Established(s) ==
  /\ s \notin used /\ edge
  /\ used' = used \cup {s}
  /\ reg' = s
  /\ est' = (est \ {reg}) \cup {s}
  /\ Start(<<"session", s>>, <<Recompute>> \o (IF reg = None THEN <<>> ELSE <<Do("close", reg)>>))
  /\ UNCHANGED <<rightVars, shut, allowed, gate, orders>>

\* The session's connection ends, or a frame cannot be sent.
Breaks(s) ==
  /\ s \in used \ shut
  /\ Start(<<"session", s>>, <<Do("close", s)>>)
  /\ UNCHANGED <<rightVars, sessVars, allowed, gate, orders>>

\* edgeSession.close, once, ...
CloseSession(t) ==
  /\ At(t, "close")
  /\ LET s == Head(job[t]).session
     IN  /\ shut' = shut \cup {s}
         /\ gate' = IF s \in shut THEN gate ELSE gate \ {s}
         /\ Continue(t, IF s \in shut THEN <<>> ELSE <<Do("unregister", s), Recompute>>)
  /\ UNCHANGED <<rightVars, reg, est, used, allowed>>

\* ... and onEdgeClosed, the part under the lock and the one after it.
Unregister(t) ==
  /\ At(t, "unregister")
  /\ LET s == Head(job[t]).session
     IN  reg' = (IF reg = s THEN None ELSE reg) /\ est' = est \ {s}
  /\ Continue(t, <<>>)
  /\ UNCHANGED <<rightVars, shut, used, allowed, gate>>

-----------------------------------------------------------------------------
(* The gate                                                                *)

\* OnPublishChanged, OnDemandChanged, onPeerWant: recompute from anywhere.
Demand ==
  /\ Start(Hook, <<Recompute>>)
  /\ UNCHANGED <<rightVars, sessVars, allowed, gate, orders>>

\* recompute: the clock is read, ...
ReadClock(t) ==
  /\ At(t, "recompute")
  /\ Continue(t, <<[op |-> "gate", session |-> None, run |-> running]>>)
  /\ UNCHANGED <<rightVars, sessVars, allowed, gate>>

\* Mutant: the decision is made without the epoch of the lease.
SetGateByClock(t) ==
  /\ At(t, "gate")
  /\ allowed' = Head(job[t]).run
  /\ gate' = IF allowed' /\ reg \in est THEN gate \cup {reg} ELSE gate \ {reg}
  /\ Continue(t, <<>>)
  /\ UNCHANGED <<rightVars, sessVars>>

\* ... and under the lock the gate of the registered session is set by it.
SetGate(t) ==
  /\ At(t, "gate")
  /\ allowed' = ForwardingAllowed(Head(job[t]).run)
  /\ gate' = IF allowed' /\ reg \in est THEN gate \cup {reg} ELSE gate \ {reg}
  /\ Continue(t, <<>>)
  /\ UNCHANGED <<rightVars, sessVars>>

\* watchdog, every second: a room whose right has changed is recomputed.
Tick ==
  /\ ForwardingAllowed(running) # allowed
  /\ Start(Watchdog, <<Recompute>>)
  /\ UNCHANGED <<rightVars, sessVars, allowed, gate, orders>>

-----------------------------------------------------------------------------
Step(t) == CloseSession(t) \/ Unregister(t) \/ ReadClock(t) \/ SetGate(t)

Next ==
  \/ \E e \in 1..MaxEpoch : \/ SetAnchorLease(e)
                            \/ \E listed, same \in BOOLEAN : SetCascadeEdges(e, listed, same)
  \/ CloseRoom \/ LeaseEnds \/ Demand \/ Tick
  \/ \E s \in Sessions : Established(s) \/ Breaks(s)
  \/ \E t \in Threads : Step(t)

Spec == Init /\ [][Next]_vars

\* Goroutines are scheduled and the ticker ticks.
FairSpec == Spec /\ WF_vars(Tick) /\ \A t \in Threads : WF_vars(Step(t))

-----------------------------------------------------------------------------
(* Properties                                                              *)

Steps == [op : {"recompute"}, session : {None}]
         \cup [op : {"close", "unregister"}, session : Sessions]
         \cup [op : {"gate"}, session : {None}, run : BOOLEAN]

RightTypes == epoch \in Nat /\ leaseEpoch \in Nat /\ orders \in Nat
FlagTypes == edge \in BOOLEAN /\ running \in BOOLEAN /\ allowed \in BOOLEAN
SessTypes ==
  /\ reg \in Sessions \cup {None} /\ used \subseteq Sessions
  /\ est \subseteq used /\ shut \subseteq Sessions /\ gate \subseteq Sessions
JobTypes == job \in [Threads -> Seq(Steps)]

\* Type invariant; a registered session is established.
TypeOK ==
  /\ RightTypes /\ FlagTypes /\ SessTypes /\ JobTypes
  /\ reg # None => reg \in est

\* Nobody has a recomputation left to do.
Settled == \A t \in Threads : \A i \in 1..Len(job[t]) : job[t][i].op \notin {"recompute", "gate"}

\* What the watchdog compares the right with is what the gate really is: if
\* lastAllowed ever differed from the gate of the registered session with no
\* recomputation on its way, no tick would ever mend it.
WatchdogSees == Settled /\ reg # None => ((reg \in gate) = allowed)

\* The gate keeps the promise of LeaseGate: opened by right or by a decision
\* under way only, and shut again if left open without right.
Gate == INSTANCE LeaseGate WITH
  right <- ForwardingAllowed(running),
  late <- \E t \in Threads : At(t, "gate") /\ ForwardingAllowed(Head(job[t]).run),
  open <- gate \ shut # {}

GatePromise == Gate!Spec
=============================================================================
