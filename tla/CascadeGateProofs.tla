-------------------------- MODULE CascadeGateProofs --------------------------
(* The forwarding gate of an edge, for every set of sessions, every number *)
(* of epochs and every sequence of commands: the watchdog sees what the    *)
(* gate is, and each step of the node is one that LeaseGate allows.        *)
EXTENDS CascadeGate, SequenceTheorems, TLAPS

-----------------------------------------------------------------------------
\* LeaseGate without its fairness: how the gate may move at all.
GateSafety == Gate!Init /\ [][Gate!Next]_(Gate!vars)

\* Each step of the code maps to one of LeaseGate or to none: SetGate is the
\* only one that opens a gate, and it does so by the clock read before the lock.
LEMMA GateStep == [Next]_vars => [Gate!Next]_(Gate!vars)
<1> DEFINE right == ForwardingAllowed(running)
           late == \E t \in Threads : At(t, "gate") /\ ForwardingAllowed(Head(job[t]).run)
           open == gate \ shut # {}
<1>0. right' \in BOOLEAN /\ late' \in BOOLEAN /\ open' \in BOOLEAN
  BY DEF ForwardingAllowed
<1>1. ASSUME UNCHANGED <<gate, shut>> PROVE Gate!Change
  BY <1>0, <1>1 DEF Gate!Change
<1>2. ASSUME NEW t \in Threads, CloseSession(t) PROVE Gate!Change \/ Gate!Shut
  <2>1. UNCHANGED rightVars /\ gate' \ shut' \subseteq gate \ shut
    BY <1>2 DEF CloseSession
  <2>2. right' = right
    BY <2>1 DEF rightVars, ForwardingAllowed
  <2>3. CASE open' = open
    BY <1>0, <2>3 DEF Gate!Change
  <2>4. CASE open' # open
    BY <1>0, <2>1, <2>2, <2>4 DEF Gate!Shut
  <2> QED
    BY <2>3, <2>4
<1>3. ASSUME NEW t \in Threads, SetGate(t) PROVE Gate!Change \/ Gate!Shut \/ Gate!Open
  <2>1. UNCHANGED rightVars /\ shut' = shut /\ At(t, "gate")
    BY <1>3 DEF SetGate, sessVars
  <2>2. right' = right
    BY <2>1 DEF rightVars, ForwardingAllowed
  <2>3. CASE open' = open
    BY <1>0, <2>3 DEF Gate!Change
  <2>4. CASE open /\ ~open'
    BY <1>0, <2>2, <2>4 DEF Gate!Shut
  <2>5. CASE ~open /\ open'
    <3>1. allowed' = TRUE
      BY <1>3, <2>1, <2>5 DEF SetGate
    <3>2. right \/ late
      BY <1>3, <2>1, <3>1 DEF SetGate
    <3> QED
      BY <1>0, <2>2, <2>5, <3>2 DEF Gate!Open
  <2> QED
    BY <2>3, <2>4, <2>5
<1>4. ASSUME Next, \A t \in Threads : ~CloseSession(t) /\ ~SetGate(t) PROVE UNCHANGED <<gate, shut>>
  BY <1>4 DEF Next, Step, SetAnchorLease, SetCascadeEdges, CloseRoom, LeaseEnds, Demand, Tick,
     Established, Breaks, Unregister, ReadClock, sessVars
<1>5. ASSUME UNCHANGED vars PROVE UNCHANGED Gate!vars
  BY <1>5 DEF vars, rightVars, sessVars, Gate!vars, ForwardingAllowed, At
<1> QED
  BY <1>1, <1>2, <1>3, <1>4, <1>5 DEF Gate!Next

LEMMA GateInit == Init => Gate!Init
BY DEF Init, Gate!Init, ForwardingAllowed, At

\* The node implements LeaseGate, fairness aside: an edge forwards by the
\* current lease, or by a decision under way when it ended.
THEOREM GateRefines == Spec => GateSafety
BY GateInit, GateStep, PTL DEF Spec, GateSafety

-----------------------------------------------------------------------------
(* Types                                                                   *)

\* The steps that the code starts or goes on with.
LEMMA StepsTyped ==
  ASSUME NEW s \in Sessions, NEW r \in BOOLEAN
  PROVE  /\ Recompute \in Steps /\ Do("close", s) \in Steps /\ Do("unregister", s) \in Steps
         /\ [op |-> "gate", session |-> None, run |-> r] \in Steps
BY DEF Steps, Recompute, Do

LEMMA RecomputeTyped == <<Recompute>> \in Seq(Steps)
BY DEF Steps, Recompute, Do

LEMMA CloseTyped ==
  ASSUME NEW s \in Sessions
  PROVE  /\ <<Do("close", s)>> \in Seq(Steps)
         /\ <<Do("close", s)>> \o <<Recompute>> \in Seq(Steps)
         /\ <<Recompute>> \o <<Do("close", s)>> \in Seq(Steps)
         /\ <<Do("unregister", s), Recompute>> \in Seq(Steps)
<1>1. Recompute \in Steps /\ Do("close", s) \in Steps /\ Do("unregister", s) \in Steps
  BY StepsTyped
<1> HIDE DEF Steps, Recompute, Do
<1> QED
  BY <1>1

LEMMA StartTyped ==
  ASSUME JobTypes, NEW t \in Threads, NEW steps \in Seq(Steps), Start(t, steps)
  PROVE  JobTypes'
BY DEF JobTypes, Start

LEMMA ContinueTyped ==
  ASSUME JobTypes, NEW t \in Threads, job[t] # <<>>, NEW steps \in Seq(Steps), Continue(t, steps)
  PROVE  JobTypes' /\ orders' = orders
<1>1. Tail(job[t]) \in Seq(Steps)
  BY HeadTailProperties DEF JobTypes
<1>2. steps \o Tail(job[t]) \in Seq(Steps)
  BY <1>1, ConcatProperties
<1> QED
  BY <1>2 DEF JobTypes, Continue

\* A lease that is installed changes what the clock readings find, no more.
LEMMA LeaseSeenTyped ==
  ASSUME JobTypes
  PROVE  LeaseSeen \in [Threads -> Seq(Steps)]
<1> SUFFICES ASSUME NEW t \in Threads, At(t, "gate")
             PROVE  [job[t] EXCEPT ![1].run = TRUE] \in Seq(Steps)
  BY DEF LeaseSeen, JobTypes
<1>1. job[t] \in Seq(Steps) /\ job[t] # <<>> /\ Head(job[t]) = job[t][1] /\ 1 \in 1..Len(job[t])
  BY DEF JobTypes, At
<1>2. job[t][1] \in Steps /\ job[t][1].op = "gate"
  BY <1>1 DEF At
<1>3. [job[t][1] EXCEPT !.run = TRUE] \in Steps
  BY <1>2 DEF Steps
<1> HIDE DEF Steps
<1>4. [job[t] EXCEPT ![1] = [job[t][1] EXCEPT !.run = TRUE]] \in Seq(Steps)
  BY <1>1, <1>3, ExceptSeq
<1> QED
  BY <1>4

\* The sessions named by the steps are sessions.
LEMMA HeadTyped ==
  ASSUME JobTypes, NEW t \in Threads, At(t, "close") \/ At(t, "unregister")
  PROVE  Head(job[t]).session \in Sessions
<1>1. Head(job[t]) \in Steps
  BY HeadTailProperties DEF JobTypes, At
<1> QED
  BY <1>1 DEF At, Steps

LEMMA TypeStep == TypeOK /\ [Next]_vars => TypeOK'
<1> SUFFICES ASSUME TypeOK, [Next]_vars PROVE TypeOK'
  OBVIOUS
<1>t. Control \in Threads /\ Watchdog \in Threads /\ Hook \in Threads
      /\ \A s \in Sessions : <<"session", s>> \in Threads
  BY DEF Threads
<1>e. <<>> \in Seq(Steps)
  OBVIOUS
<1> USE DEF TypeOK
<1>1. ASSUME NEW e \in 1..MaxEpoch, SetAnchorLease(e) PROVE TypeOK'
  <2>1. JobTypes'
    BY <1>1, <1>t, RecomputeTyped, LeaseSeenTyped DEF SetAnchorLease, JobTypes
  <2>2. RightTypes'
    BY <1>1 DEF SetAnchorLease, RightTypes, Order
  <2>3. FlagTypes'
    BY <1>1 DEF SetAnchorLease, FlagTypes
  <2>4. SessTypes' /\ (reg # None => reg \in est)'
    BY <1>1 DEF SetAnchorLease, SessTypes, sessVars
  <2> QED
    BY <2>1, <2>2, <2>3, <2>4
<1>2. ASSUME NEW e \in 1..MaxEpoch, NEW listed \in BOOLEAN, NEW same \in BOOLEAN,
             SetCascadeEdges(e, listed, same)
      PROVE  TypeOK'
  <2>1. JobTypes'
    <3>1. reg # None => reg \in Sessions
      BY DEF SessTypes
    <3>2. reg # None => <<Do("close", reg)>> \o <<Recompute>> \in Seq(Steps)
      BY <3>1, CloseTyped
    <3>3. <<>> \o <<Recompute>> \in Seq(Steps)
      BY RecomputeTyped, ConcatEmptySeq
    <3> QED
      BY <1>2, <1>t, <3>2, <3>3, StartTyped DEF SetCascadeEdges, JobTypes
  <2>2. RightTypes'
    BY <1>2 DEF SetCascadeEdges, RightTypes, Order
  <2>3. FlagTypes'
    BY <1>2 DEF SetCascadeEdges, FlagTypes
  <2>4. SessTypes' /\ (reg # None => reg \in est)'
    BY <1>2 DEF SetCascadeEdges, SessTypes
  <2> QED
    BY <2>1, <2>2, <2>3, <2>4
<1>3. CASE CloseRoom
  <2>1. JobTypes'
    <3>1. reg # None => <<Do("close", reg)>> \in Seq(Steps)
      BY CloseTyped DEF SessTypes
    <3> QED
      BY <1>3, <1>t, <1>e, <3>1, StartTyped DEF CloseRoom
  <2>2. RightTypes'
    BY <1>3 DEF CloseRoom, RightTypes, Order
  <2>3. FlagTypes'
    BY <1>3 DEF CloseRoom, FlagTypes
  <2>4. SessTypes' /\ (reg # None => reg \in est)'
    BY <1>3 DEF CloseRoom, SessTypes
  <2> QED
    BY <2>1, <2>2, <2>3, <2>4
<1>4. CASE LeaseEnds
  <2>1. RightTypes'
    BY <1>4 DEF LeaseEnds, RightTypes, Order
  <2>2. FlagTypes'
    BY <1>4 DEF LeaseEnds, FlagTypes
  <2>3. JobTypes' /\ SessTypes' /\ (reg # None => reg \in est)'
    BY <1>4 DEF LeaseEnds, SessTypes, JobTypes, sessVars
  <2> QED
    BY <2>1, <2>2, <2>3
<1>5. CASE Demand \/ Tick
  <2>1. JobTypes'
    BY <1>5, <1>t, RecomputeTyped, StartTyped DEF Demand, Tick
  <2>2. RightTypes' /\ FlagTypes' /\ SessTypes' /\ (reg # None => reg \in est)'
    BY <1>5 DEF Demand, Tick, RightTypes, FlagTypes, SessTypes, rightVars, sessVars
  <2> QED
    BY <2>1, <2>2
<1>6. ASSUME NEW s \in Sessions, Established(s) PROVE TypeOK'
  <2>1. JobTypes'
    <3>1. reg # None => <<Recompute>> \o <<Do("close", reg)>> \in Seq(Steps)
      BY CloseTyped DEF SessTypes
    <3>2. <<Recompute>> \o <<>> \in Seq(Steps)
      BY RecomputeTyped, ConcatEmptySeq
    <3> QED
      BY <1>6, <1>t, <3>1, <3>2, StartTyped DEF Established
  <2>2. RightTypes' /\ FlagTypes'
    BY <1>6 DEF Established, RightTypes, FlagTypes, rightVars
  <2>3. SessTypes' /\ (reg # None => reg \in est)'
    BY <1>6 DEF Established, SessTypes
  <2> QED
    BY <2>1, <2>2, <2>3
<1>7. ASSUME NEW s \in Sessions, Breaks(s) PROVE TypeOK'
  <2>1. JobTypes'
    BY <1>7, <1>t, CloseTyped, StartTyped DEF Breaks
  <2>2. RightTypes' /\ FlagTypes' /\ SessTypes' /\ (reg # None => reg \in est)'
    BY <1>7 DEF Breaks, RightTypes, FlagTypes, SessTypes, rightVars, sessVars
  <2> QED
    BY <2>1, <2>2
<1>8. ASSUME NEW t \in Threads, CloseSession(t) PROVE TypeOK'
  <2>1. At(t, "close") /\ job[t] # <<>> /\ Head(job[t]).session \in Sessions
    BY <1>8, HeadTyped DEF CloseSession, At
  <2>2. JobTypes' /\ orders' = orders
    BY <1>8, <1>e, <2>1, CloseTyped, ContinueTyped DEF CloseSession
  <2>3. RightTypes' /\ FlagTypes'
    BY <1>8, <2>2 DEF CloseSession, RightTypes, FlagTypes, rightVars
  <2>4. SessTypes' /\ (reg # None => reg \in est)'
    BY <1>8, <2>1 DEF CloseSession, SessTypes
  <2> QED
    BY <2>2, <2>3, <2>4
<1>9. ASSUME NEW t \in Threads, Unregister(t) PROVE TypeOK'
  <2>1. JobTypes' /\ orders' = orders
    BY <1>9, <1>e, ContinueTyped DEF Unregister, At
  <2>2. RightTypes' /\ FlagTypes'
    BY <1>9, <2>1 DEF Unregister, RightTypes, FlagTypes, rightVars
  <2>3. SessTypes' /\ (reg # None => reg \in est)'
    BY <1>9 DEF Unregister, SessTypes
  <2> QED
    BY <2>1, <2>2, <2>3
<1>10. ASSUME NEW t \in Threads, ReadClock(t) PROVE TypeOK'
  <2>1. <<[op |-> "gate", session |-> None, run |-> running]>> \in Seq(Steps)
    BY DEF FlagTypes, Steps
  <2>2. JobTypes' /\ orders' = orders
    BY <1>10, <2>1, ContinueTyped DEF ReadClock, At
  <2>3. RightTypes' /\ FlagTypes' /\ SessTypes' /\ (reg # None => reg \in est)'
    BY <1>10, <2>2 DEF ReadClock, RightTypes, FlagTypes, SessTypes, rightVars, sessVars
  <2> QED
    BY <2>2, <2>3
<1>11. ASSUME NEW t \in Threads, SetGate(t) PROVE TypeOK'
  <2>1. JobTypes' /\ orders' = orders
    BY <1>11, <1>e, ContinueTyped DEF SetGate, At
  <2>2. allowed' \in BOOLEAN
    BY <1>11 DEF SetGate, ForwardingAllowed
  <2>3. RightTypes' /\ FlagTypes'
    BY <1>11, <2>1, <2>2 DEF SetGate, RightTypes, FlagTypes, rightVars
  <2>4. SessTypes' /\ (reg # None => reg \in est)'
    BY <1>11 DEF SetGate, SessTypes, sessVars
  <2> QED
    BY <2>1, <2>3, <2>4
<1>12. CASE UNCHANGED vars
  BY <1>12 DEF vars, RightTypes, FlagTypes, SessTypes, JobTypes, rightVars, sessVars
<1> QED
  BY <1>1, <1>2, <1>3, <1>4, <1>5, <1>6, <1>7, <1>8, <1>9, <1>10, <1>11, <1>12 DEF Next, Step

LEMMA InitTypes == Init => TypeOK
<1> SUFFICES ASSUME Init PROVE TypeOK
  OBVIOUS
<1>1. JobTypes
  BY DEF Init, JobTypes
<1>2. FlagTypes
  BY DEF Init, FlagTypes
<1>3. RightTypes /\ SessTypes /\ reg = None
  BY DEF Init, RightTypes, SessTypes
<1> QED
  BY <1>1, <1>2, <1>3 DEF TypeOK

\* The state of the room and of its sessions keeps its types, and the session
\* in roomState.sessions is always an established one.
THEOREM TypeCorrect == Spec => []TypeOK
BY InitTypes, TypeStep, PTL DEF Spec

-----------------------------------------------------------------------------
(* The watchdog                                                            *)

Decides(step) == step.op \in {"recompute", "gate"}

\* Whoever starts or goes on with a recomputation has one left to do.
LEMMA StartUnsettles ==
  ASSUME JobTypes, NEW t \in Threads, NEW steps \in Seq(Steps), Start(t, steps),
         NEW i \in 1..Len(steps), steps[i] = Recompute
  PROVE  ~Settled'
<1>1. job'[t] = steps
  BY DEF JobTypes, Start
<1>2. job'[t][i].op = "recompute"
  BY <1>1 DEF Recompute, Do
<1> QED
  BY <1>1, <1>2 DEF Settled

LEMMA ContinueUnsettles ==
  ASSUME JobTypes, NEW t \in Threads, job[t] # <<>>, NEW steps \in Seq(Steps), Continue(t, steps),
         NEW i \in 1..Len(steps), Decides(steps[i])
  PROVE  ~Settled'
<1>1. Tail(job[t]) \in Seq(Steps) /\ Len(Tail(job[t])) \in Nat
  BY HeadTailProperties DEF JobTypes
<1>2. job'[t] = steps \o Tail(job[t])
  BY DEF JobTypes, Continue
<1>3. job'[t][i] = steps[i] /\ i \in 1..Len(job'[t])
  BY <1>1, <1>2, ConcatProperties
<1> QED
  BY <1>3 DEF Settled, Decides

\* A goroutine that starts had nothing to do.
LEMMA StartWasSettled ==
  ASSUME JobTypes, NEW t \in Threads, NEW steps, Start(t, steps), Settled'
  PROVE  Settled
<1>1. \A u \in Threads : u # t => job'[u] = job[u]
  BY DEF JobTypes, Start
<1>2. Len(job[t]) = 0
  BY DEF Start
<1> QED
  BY <1>1, <1>2 DEF Settled

\* One that goes on from another step leaves its recomputations to come.
LEMMA ContinueWasSettled ==
  ASSUME JobTypes, NEW t \in Threads, job[t] # <<>>, ~Decides(Head(job[t])), Continue(t, <<>>), Settled'
  PROVE  Settled
<1>1. \A u \in Threads : u # t => job'[u] = job[u]
  BY DEF JobTypes, Continue
<1>2. /\ Tail(job[t]) \in Seq(Steps) /\ Len(Tail(job[t])) = Len(job[t]) - 1
      /\ \A i \in 1..Len(Tail(job[t])) : Tail(job[t])[i] = job[t][i+1]
  BY HeadTailProperties DEF JobTypes
<1>3. job'[t] = Tail(job[t])
  BY <1>2, ConcatEmptySeq DEF JobTypes, Continue
<1>4. ASSUME NEW i \in 1..Len(job[t]) PROVE ~Decides(job[t][i])
  <2>1. job[t] \in Seq(Steps) /\ Len(job[t]) \in Nat
    BY DEF JobTypes
  <2>2. CASE i = 1
    BY <2>1, <2>2 DEF JobTypes
  <2>3. CASE i # 1
    <3>1. i - 1 \in 1..Len(job'[t]) /\ job'[t][i-1] = job[t][i]
      BY <1>2, <1>3, <2>1, <2>3
    <3> QED
      BY <3>1 DEF Settled, Decides
  <2> QED
    BY <2>2, <2>3
<1> QED
  BY <1>1, <1>4 DEF Settled, Decides

LEMMA WatchdogStep == TypeOK /\ WatchdogSees /\ [Next]_vars => WatchdogSees'
<1> SUFFICES ASSUME TypeOK, WatchdogSees, [Next]_vars, Settled', reg' # None
             PROVE  ((reg \in gate) = allowed)'
  BY DEF WatchdogSees
<1>t. Control \in Threads /\ Watchdog \in Threads /\ Hook \in Threads
      /\ \A s \in Sessions : <<"session", s>> \in Threads
  BY DEF Threads
<1>j. JobTypes /\ (reg # None => reg \in Sessions /\ reg \in est)
  BY DEF TypeOK, SessTypes
<1>r. <<Recompute>> \in Seq(Steps) /\ Len(<<Recompute>>) = 1 /\ <<Recompute>>[1] = Recompute
  BY RecomputeTyped
<1>s. ASSUME NEW t \in Threads PROVE ~Start(t, <<Recompute>>)
  <2>1. 1 \in 1..Len(<<Recompute>>)
    BY <1>r
  <2> QED
    BY <1>j, <1>r, <2>1, StartUnsettles
\* A step that leaves the session, its gate and lastAllowed alone.
<1>u. ASSUME Settled, UNCHANGED <<reg, gate, allowed>> PROVE ((reg \in gate) = allowed)'
  BY <1>u DEF WatchdogSees
<1>1. ASSUME NEW e \in 1..MaxEpoch, SetAnchorLease(e) PROVE Settled /\ UNCHANGED <<reg, gate, allowed>>
  <2>1. job' = job
    <3> SUFFICES ASSUME job' = [LeaseSeen EXCEPT ![Control] = <<Recompute>>] PROVE FALSE
      BY <1>1 DEF SetAnchorLease
    <3>1. job'[Control] = <<Recompute>>
      BY <1>t DEF LeaseSeen
    <3>2. 1 \in 1..Len(job'[Control]) /\ job'[Control][1].op = "recompute"
      BY <1>r, <3>1 DEF Recompute, Do
    <3> QED
      BY <1>t, <3>2 DEF Settled
  <2> QED
    BY <1>1, <2>1 DEF SetAnchorLease, Settled, sessVars
<1>2. ASSUME NEW e \in 1..MaxEpoch, NEW listed \in BOOLEAN, NEW same \in BOOLEAN,
             SetCascadeEdges(e, listed, same)
      PROVE  Settled /\ UNCHANGED <<reg, gate, allowed>>
  <2>1. CASE e < epoch
    BY <1>2, <2>1 DEF SetCascadeEdges, Settled
  <2>2. CASE ~(e < epoch)
    <3>1. Start(Control, <<>> \o <<Recompute>>)
      BY <1>2, <2>2 DEF SetCascadeEdges
    <3>2. <<>> \o <<Recompute>> = <<Recompute>>
      BY <1>r, ConcatEmptySeq
    <3> QED
      BY <1>t, <1>s, <3>1, <3>2
  <2> QED
    BY <2>1, <2>2
<1>3. ~CloseRoom
  BY DEF CloseRoom
<1>4. ASSUME LeaseEnds \/ UNCHANGED vars PROVE Settled /\ UNCHANGED <<reg, gate, allowed>>
  BY <1>4 DEF LeaseEnds, vars, sessVars, Settled
<1>5. ~Demand /\ ~Tick
  BY <1>t, <1>s DEF Demand, Tick
<1>6. ASSUME NEW s \in Sessions PROVE ~Established(s)
  <2> SUFFICES ASSUME Established(s) PROVE FALSE
    OBVIOUS
  <2> DEFINE rest == IF reg = None THEN <<>> ELSE <<Do("close", reg)>>
  <2>1. rest \in Seq(Steps) /\ Len(rest) \in Nat
    BY <1>j, CloseTyped
  <2>2. Start(<<"session", s>>, <<Recompute>> \o rest)
    BY DEF Established
  <2> HIDE DEF rest
  <2>3. /\ <<Recompute>> \o rest \in Seq(Steps) /\ 1 \in 1..Len(<<Recompute>> \o rest)
        /\ (<<Recompute>> \o rest)[1] = Recompute
    BY <1>r, <2>1, ConcatProperties
  <2> QED
    BY <1>t, <1>j, <2>2, <2>3, StartUnsettles
<1>7. ASSUME NEW s \in Sessions, Breaks(s) PROVE Settled /\ UNCHANGED <<reg, gate, allowed>>
  BY <1>7, <1>t, <1>j, StartWasSettled DEF Breaks, sessVars
<1>8. ASSUME NEW t \in Threads, CloseSession(t) PROVE Settled /\ UNCHANGED <<reg, gate, allowed>>
  <2>1. At(t, "close") /\ job[t] # <<>> /\ Head(job[t]).session \in Sessions
    BY <1>8, <1>j, HeadTyped DEF CloseSession, At
  <2> DEFINE s == Head(job[t]).session
             more == <<Do("unregister", s), Recompute>>
  <2>2. more \in Seq(Steps) /\ Len(more) = 2 /\ Decides(more[2])
    BY <2>1, CloseTyped DEF Decides, Recompute, Do
  <2>3. s \in shut
    <3> SUFFICES ASSUME s \notin shut PROVE FALSE
      OBVIOUS
    <3>1. Continue(t, more)
      BY <1>8 DEF CloseSession
    <3> HIDE DEF more
    <3>2. 2 \in 1..Len(more)
      BY <2>2
    <3> QED
      BY <1>j, <2>1, <2>2, <3>1, <3>2, ContinueUnsettles
  <2> QED
    BY <1>8, <1>j, <2>1, <2>3, ContinueWasSettled DEF CloseSession, At, Decides
<1>9. ASSUME NEW t \in Threads, Unregister(t) PROVE Settled /\ UNCHANGED <<reg, gate, allowed>>
  <2>1. Settled
    BY <1>9, <1>j, ContinueWasSettled DEF Unregister, At, Decides
  <2> QED
    BY <1>9, <2>1 DEF Unregister
<1>10. ASSUME NEW t \in Threads PROVE ~ReadClock(t)
  <2> DEFINE decision == [op |-> "gate", session |-> None, run |-> running]
  <2>1. <<decision>> \in Seq(Steps) /\ Len(<<decision>>) = 1 /\ Decides(<<decision>>[1])
    BY DEF TypeOK, FlagTypes, Steps, Decides
  <2>2. 1 \in 1..Len(<<decision>>)
    BY <2>1
  <2>3. ReadClock(t) => job[t] # <<>> /\ Continue(t, <<decision>>)
    BY DEF ReadClock, At
  <2> HIDE DEF decision
  <2> QED
    BY <1>j, <2>1, <2>2, <2>3, ContinueUnsettles
<1>11. ASSUME NEW t \in Threads, SetGate(t) PROVE ((reg \in gate) = allowed)'
  <2>1. reg \in est /\ reg' = reg /\ allowed' \in BOOLEAN
    BY <1>11, <1>j DEF SetGate, sessVars, ForwardingAllowed
  <2>2. gate' = IF allowed' THEN gate \cup {reg} ELSE gate \ {reg}
    BY <1>11, <2>1 DEF SetGate
  <2> QED
    BY <2>1, <2>2
<1> QED
  BY <1>u, <1>1, <1>2, <1>3, <1>4, <1>5, <1>6, <1>7, <1>8, <1>9, <1>10, <1>11 DEF Next, Step

\* With no recomputation on its way, lastAllowed is the gate of the registered
\* session: a difference between them, which no tick would notice, never lasts.
THEOREM WatchdogIsRight == Spec => []WatchdogSees
<1>1. Init => WatchdogSees
  BY DEF Init, WatchdogSees
<1> QED
  BY <1>1, InitTypes, TypeStep, WatchdogStep, PTL DEF Spec
=============================================================================
