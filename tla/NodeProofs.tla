----------------------------- MODULE NodeProofs -----------------------------
(***************************************************************************)
(* A node towards the Server.  The control channel, for every capacity,    *)
(* every number of streams, messages and commands: no message is forgotten *)
(* or doubled between the outbox, the senders and the wire, and no command *)
(* is carried out twice.  The files from which the node starts, for every  *)
(* number of certificates, versions and faults: they survive a crash.      *)
(***************************************************************************)
EXTENDS ControlChannel, NodeFiles, SequenceTheorems, FiniteSetTheorems, TLAPS

-----------------------------------------------------------------------------
(* Sequences without repetition                                            *)

Inj(s) == \A i, j \in 1..Len(s) : s[i] = s[j] => i = j

\* What append puts into the outbox, onto the wire or into the ack cache.
LEMMA Appended ==
  ASSUME NEW S, NEW s \in Seq(S), NEW e \in S
  PROVE  /\ Append(s, e) \in Seq(S) /\ Len(Append(s, e)) = Len(s) + 1
         /\ Range(Append(s, e)) = Range(s) \cup {e}
         /\ Inj(s) /\ e \notin Range(s) => Inj(Append(s, e))
<1> DEFINE t == Append(s, e)
<1>1. /\ t \in Seq(S) /\ Len(t) = Len(s) + 1 /\ Len(s) \in Nat
      /\ \A i \in 1..Len(s) : t[i] = s[i]
      /\ t[Len(s) + 1] = e
      /\ DOMAIN t = 1..(Len(s) + 1) /\ DOMAIN s = 1..Len(s)
  BY AppendProperties, LenProperties
<1> HIDE DEF t
<1>2. Range(t) = Range(s) \cup {e}
  <2>1. \A i \in 1..(Len(s) + 1) : i \in 1..Len(s) \/ i = Len(s) + 1
    BY <1>1
  <2>2. Range(t) \subseteq Range(s) \cup {e}
    BY <1>1, <2>1 DEF Range
  <2>3. \A i \in 1..Len(s) : i \in 1..(Len(s) + 1)
    BY <1>1
  <2>4. Len(s) + 1 \in 1..(Len(s) + 1)
    BY <1>1
  <2> QED
    BY <1>1, <2>2, <2>3, <2>4 DEF Range
<1>3. ASSUME Inj(s), e \notin Range(s), NEW i \in 1..Len(t), NEW j \in 1..Len(t), t[i] = t[j]
      PROVE  i = j
  <2>1. \A k \in 1..Len(s) : s[k] # e
    BY <1>1, <1>3 DEF Range
  <2> QED
    BY <1>1, <1>3, <2>1 DEF Inj
<1> QED
  BY <1>1, <1>2, <1>3 DEF t, Inj

\* What taking the first element leaves.
LEMMA Taken ==
  ASSUME NEW S, NEW s \in Seq(S), s # <<>>
  PROVE  /\ Head(s) \in S /\ Tail(s) \in Seq(S) /\ Len(Tail(s)) = Len(s) - 1
         /\ Head(s) \in Range(s)
         /\ Range(s) = Range(Tail(s)) \cup {Head(s)}
         /\ Inj(s) => Inj(Tail(s)) /\ Head(s) \notin Range(Tail(s))
<1> DEFINE t == Tail(s)
<1>1. /\ Head(s) \in S /\ t \in Seq(S) /\ Len(t) = Len(s) - 1
      /\ \A i \in 1..Len(t) : t[i] = s[i + 1]
      /\ Len(s) \in Nat \ {0} /\ Head(s) = s[1]
      /\ DOMAIN s = 1..Len(s) /\ DOMAIN t = 1..Len(t)
  BY HeadTailProperties, LenProperties, EmptySeq
<1> HIDE DEF t
<1>2. \A i \in 1..Len(s) : i = 1 \/ i - 1 \in 1..Len(t)
  BY <1>1
<1>3. \A i \in 1..Len(t) : i + 1 \in 1..Len(s)
  BY <1>1
<1>4. 1 \in 1..Len(s)
  BY <1>1
<1>5. Range(s) \subseteq Range(t) \cup {Head(s)}
  <2> SUFFICES ASSUME NEW i \in 1..Len(s), i # 1 PROVE s[i] \in Range(t)
    BY <1>1 DEF Range
  <2>1. i - 1 \in 1..Len(t) /\ i = (i - 1) + 1
    BY <1>2
  <2>2. t[i - 1] = s[i]
    BY <1>1, <2>1
  <2> QED
    BY <1>1, <2>1, <2>2 DEF Range
<1>6. Range(t) \subseteq Range(s) /\ Head(s) \in Range(s)
  BY <1>1, <1>3, <1>4 DEF Range
<1>7. ASSUME Inj(s), NEW i \in 1..Len(t), NEW j \in 1..Len(t), t[i] = t[j] PROVE i = j
  <2>1. s[i + 1] = s[j + 1] /\ i + 1 \in 1..Len(s) /\ j + 1 \in 1..Len(s)
    BY <1>1, <1>3, <1>7
  <2>2. i + 1 = j + 1
    BY <2>1, <1>7 DEF Inj
  <2> QED
    BY <1>1, <2>2
<1>8. ASSUME Inj(s), NEW i \in 1..Len(t), t[i] = Head(s) PROVE FALSE
  <2>1. s[i + 1] = s[1] /\ i + 1 \in 1..Len(s) /\ i + 1 # 1
    BY <1>1, <1>3, <1>8
  <2> QED
    BY <1>4, <1>8, <2>1 DEF Inj
<1>9. Inj(s) => Head(s) \notin Range(t)
  BY <1>1, <1>8 DEF Range
<1> QED
  BY <1>1, <1>5, <1>6, <1>7, <1>9 DEF t, Inj

\* A sequence without repetition has as many elements as positions.
LEMMA Counted ==
  ASSUME NEW S, IsFiniteSet(S), NEW f, DOMAIN f = S,
         \A x, y \in S : f[x] = f[y] => x = y
  PROVE  IsFiniteSet({f[x] : x \in S}) /\ Cardinality({f[x] : x \in S}) = Cardinality(S)
<1> DEFINE T == {f[x] : x \in S}
           g == [x \in S |-> f[x]]
<1>1. g \in [S -> T]
  OBVIOUS
<1>2. IsInjective(g)
  BY DEF IsInjective
<1>3. \A t \in T : \E x \in S : g[x] = t
  OBVIOUS
<1>4. g \in Bijection(S, T)
  BY <1>1, <1>2, <1>3 DEF Bijection, Injection, Surjection
<1>5. ExistsBijection(S, T)
  BY <1>4 DEF ExistsBijection
<1> QED
  BY <1>5, FS_Bijection

-----------------------------------------------------------------------------
(* The inductive invariant                                                 *)

WireMsgs == [kind : {"event"}, id : Msgs] \cup [kind : {"ack"}, id : Cmds]

\* The six places of a message share none and hold every message made.
Partition(n, O, H, E, G, L, D) ==
  /\ 1..n = O \cup H \cup E \cup G \cup L \cup D
  /\ O \cap (H \cup E \cup G \cup L \cup D) = {}
  /\ H \cap (E \cup G \cup L \cup D) = {}
  /\ E \cap (G \cup L \cup D) = {}
  /\ G \cap (L \cup D) = {}
  /\ L \cap D = {}

HandInj == \A i, j \in Streams : hand[i] # 0 /\ hand[i] = hand[j] => i = j

\* No two positions of the outbox, the wire or the senders hold one message.
Placed ==
  /\ Inj(outbox) /\ Inj(wire) /\ HandInj
  /\ Partition(made, Range(outbox), InHand, EventsIn(wire), got, lost, dropped)

\* A command under way is in one place: on its way down, held by the receive
\* loop, or its ack on the way up.
UnderWay ==
  /\ Inj(toNode)
  /\ \A c \in Range(toNode) :
       c <= issued /\ c \notin acked /\ c # reply /\ Ack(c) \notin Range(wire)
  /\ reply # 0 => reply \notin acked /\ ran[reply] = 1 /\ Ack(reply) \notin Range(wire)
  /\ \A c \in Cmds : Ack(c) \in Range(wire) => c \notin acked /\ ran[c] = 1

\* The Server's pipeline: an unacked command is one of the last Pipeline.
Recent == \A c \in 1..issued : c \in acked \/ c + Pipeline > issued

Done ==
  /\ \A c \in Cmds : ran[c] <= 1 /\ (ran[c] = 1 => c <= issued)
  /\ \A c \in acked : ran[c] = 1
  /\ Inj(order) /\ \A i \in 1..Len(order) : ran[order[i]] = 1

\* c is in o, and whatever was carried out after it is of its age.
Kept(o, c) ==
  \E i \in 1..Len(o) :
    /\ o[i] = c
    /\ \A j \in (i + 1)..Len(o) : o[j] < c + Pipeline /\ c < o[j] + Pipeline

\* The ack of a command that may be repeated is in the cache.
Remembered == \A c \in Cmds : ran[c] = 1 /\ c \notin acked => Kept(order, c)

IInv == TypeOK /\ Placed /\ UnderWay /\ Recent /\ Done /\ Remembered

-----------------------------------------------------------------------------
(* Types                                                                   *)

LEMMA WireTyped ==
  /\ \A m \in Msgs : Event(m) \in WireMsgs /\ Event(m).kind = "event" /\ Event(m).id = m
  /\ \A c \in Cmds : Ack(c) \in WireMsgs /\ Ack(c).kind = "ack" /\ Ack(c).id = c
  /\ \A x \in WireMsgs : /\ x.kind = "event" => x.id \in Msgs /\ x = Event(x.id)
                         /\ x.kind # "event" => x.id \in Cmds /\ x = Ack(x.id)
BY DEF WireMsgs, Event, Ack

\* What enqueue leaves of the outbox.
LEMMA EnqueueTyped ==
  ASSUME TypeOK, NEW m \in Msgs, Enqueue(m)
  PROVE  outbox' \in Seq(Msgs) /\ Len(outbox') <= QueueSize /\ dropped' \subseteq Msgs
<1>1. outbox \in Seq(Msgs) /\ Len(outbox) \in Nat /\ Len(outbox) <= QueueSize /\ dropped \subseteq Msgs
  BY LenProperties DEF TypeOK
<1>2. CASE Len(outbox) < QueueSize
  <2>1. outbox' = Append(outbox, m) /\ dropped' = dropped
    BY <1>2 DEF Enqueue
  <2>2. outbox' \in Seq(Msgs) /\ Len(outbox') = Len(outbox) + 1
    BY <1>1, <2>1, Appended
  <2> QED
    BY <1>1, <1>2, <2>1, <2>2, QueueAssumption
<1>3. CASE ~(Len(outbox) < QueueSize)
  BY <1>1, <1>3 DEF Enqueue
<1> QED
  BY <1>2, <1>3

\* What ackCache.put keeps: everything, or all but the oldest ack.
LEMMA PutKeeps ==
  ASSUME TypeOK, NEW c \in Cmds
  PROVE  LET o == Append(order, c)
         IN  /\ Len(order) < AckWindow => Put(c) = o
             /\ Len(order) = AckWindow =>
                  Len(Put(c)) = AckWindow /\ \A i \in 1..AckWindow : Put(c)[i] = o[i + 1]
             /\ Put(c) \in Seq(Cmds) /\ Len(Put(c)) <= AckWindow
<1> DEFINE o == Append(order, c)
           w == AckWindow
<1>1. /\ order \in Seq(Cmds) /\ Len(order) \in Nat /\ Len(order) <= w
      /\ w \in Nat
  BY LenProperties, WindowAssumption DEF TypeOK
<1>2. o \in Seq(Cmds) /\ Len(o) = Len(order) + 1 /\ \A i \in 1..Len(o) : o[i] \in Cmds
  BY <1>1, Appended, ElementOfSeq
<1> HIDE DEF o
<1>3. CASE Len(order) < w
  <2>1. ~(Len(o) > w)
    BY <1>1, <1>2, <1>3
  <2>2. Put(c) = o
    BY <2>1 DEF Put, o
  <2> QED
    BY <1>1, <1>2, <1>3, <2>2 DEF o
<1>4. CASE Len(order) = w
  <2>1. Len(o) > w /\ Len(o) - w + 1 = 2 /\ Len(o) = w + 1
    BY <1>1, <1>2, <1>4
  <2>2. Put(c) = SubSeq(o, 2, Len(o))
    BY <2>1 DEF Put, o
  <2>3. /\ SubSeq(o, 2, Len(o)) \in Seq(Cmds)
        /\ Len(SubSeq(o, 2, Len(o))) = IF 2 <= Len(o) THEN Len(o) - 2 + 1 ELSE 0
        /\ \A i \in 1..(Len(o) - 2 + 1) : SubSeq(o, 2, Len(o))[i] = o[2 + i - 1]
    <3>1. \A i \in 2..Len(o) : o[i] \in Cmds
      BY <1>2, <2>1
    <3> QED
      BY <1>1, <2>1, <3>1, SubSeqProperties
  <2>4. /\ Put(c) \in Seq(Cmds) /\ Len(Put(c)) = w
        /\ \A i \in 1..w : Put(c)[i] = o[i + 1]
    <3>1. Len(o) - 2 + 1 = w /\ Len(SubSeq(o, 2, Len(o))) = w
      BY <1>1, <2>1, <2>3
    <3>2. \A i \in 1..w : 2 + i - 1 = i + 1
      BY <1>1
    <3> QED
      BY <2>2, <2>3, <3>1, <3>2
  <2> QED
    BY <1>1, <1>4, <2>4 DEF o
<1> QED
  BY <1>1, <1>3, <1>4

LEMMA TypeInit == Init => TypeOK
<1> SUFFICES ASSUME Init PROVE TypeOK
  OBVIOUS
<1>1. \A S : <<>> \in Seq(S) /\ Len(<<>>) = 0
  BY EmptySeq
<1>2. outbox \in Seq(Msgs) /\ Len(outbox) <= QueueSize /\ order \in Seq(Cmds) /\ Len(order) <= AckWindow
  BY <1>1, QueueAssumption, WindowAssumption DEF Init
<1>3. wire \in Seq([kind : {"event"}, id : Msgs] \cup [kind : {"ack"}, id : Cmds]) /\ toNode \in Seq(Cmds)
  BY <1>1 DEF Init
<1>4. /\ made \in 0..MaxMsgs /\ stream \in 0..MaxStreams /\ reply \in 0..MaxCmds /\ issued \in 0..MaxCmds
      /\ hand \in [Streams -> 0..MaxMsgs] /\ ran \in [Cmds -> Nat]
  BY BoundAssumption DEF Init
<1>5. sender \in [Streams -> {"off", "run", "done"}] /\ up \in BOOLEAN
  BY DEF Init
<1>6. dropped \subseteq Msgs /\ lost \subseteq Msgs /\ got \subseteq Msgs /\ acked \subseteq Cmds
  BY DEF Init
<1> QED
  BY <1>2, <1>3, <1>4, <1>5, <1>6 DEF TypeOK

LEMMA TypeStep == TypeOK /\ [Next]_vars => TypeOK'
<1> SUFFICES ASSUME TypeOK, [Next]_vars PROVE TypeOK'
  OBVIOUS
<1> USE BoundAssumption
<1>0. wire \in Seq(WireMsgs)
  BY DEF TypeOK, WireMsgs
<1>1. CASE Report
  <2>1. made + 1 \in Msgs
    BY <1>1 DEF Report, TypeOK, Msgs
  <2>2. outbox' \in Seq(Msgs) /\ Len(outbox') <= QueueSize /\ dropped' \subseteq Msgs
    BY <1>1, <2>1, EnqueueTyped DEF Report
  <2> QED
    BY <1>1, <2>1, <2>2 DEF Report, TypeOK, Msgs, streamVars, sendVars, cmdVars, serverVars
<1>2. ASSUME NEW k \in Streams, TakeMsg(k) PROVE TypeOK'
  <2>1. /\ Head(outbox) \in Msgs /\ Tail(outbox) \in Seq(Msgs)
        /\ Len(Tail(outbox)) = Len(outbox) - 1 /\ Len(outbox) \in Nat
    BY <1>2, Taken, LenProperties DEF TakeMsg, TypeOK
  <2>2. hand' \in [Streams -> 0..MaxMsgs]
    BY <1>2, <2>1 DEF TakeMsg, TypeOK, Msgs
  <2>3. Len(outbox') <= QueueSize
    BY <1>2, <2>1, QueueAssumption DEF TakeMsg, TypeOK
  <2> QED
    BY <1>2, <2>1, <2>2, <2>3 DEF TakeMsg, TypeOK, streamVars, cmdVars, serverVars
<1>3. ASSUME NEW k \in Streams, SendMsg(k) PROVE TypeOK'
  <2>1. hand[k] \in Msgs /\ hand' \in [Streams -> 0..MaxMsgs]
    BY <1>3 DEF SendMsg, TypeOK, Msgs
  <2>2. wire' \in Seq(WireMsgs)
    BY <1>0, <1>3, <2>1, WireTyped, Appended DEF SendMsg
  <2> QED
    BY <1>3, <2>1, <2>2 DEF SendMsg, TypeOK, WireMsgs, queueVars, streamVars, cmdVars, serverVars
<1>4. ASSUME NEW k \in Streams, SendFails(k) PROVE TypeOK'
  <2>1. hand[k] \in Msgs /\ hand' \in [Streams -> 0..MaxMsgs]
    BY <1>4 DEF SendFails, TypeOK, Msgs
  <2>2. outbox' \in Seq(Msgs) /\ Len(outbox') <= QueueSize /\ dropped' \subseteq Msgs
    BY <1>4, <2>1, EnqueueTyped DEF SendFails
  <2>3. sender' \in [Streams -> {"off", "run", "done"}]
    BY <1>4 DEF SendFails, TypeOK
  <2> QED
    BY <1>4, <2>1, <2>2, <2>3 DEF SendFails, TypeOK, streamVars, cmdVars, serverVars
<1>5. ASSUME NEW k \in Streams, SenderEnds(k) PROVE TypeOK'
  BY <1>5 DEF SenderEnds, TypeOK, queueVars, streamVars, cmdVars, serverVars
<1>6. CASE Register
  <2>1. stream' \in 0..MaxStreams /\ sender' \in [Streams -> {"off", "run", "done"}]
    BY <1>6 DEF Register, TypeOK, Streams
  <2> QED
    BY <1>6, <2>1 DEF Register, TypeOK, queueVars, cmdVars, serverVars
<1>7. CASE Break
  <2>1. EventsIn(wire) \subseteq Msgs
    <3>1. \A y \in Range(wire) : y \in WireMsgs
      BY <1>0, LenProperties, ElementOfSeq DEF Range
    <3> QED
      BY <3>1, WireTyped DEF EventsIn
  <2> QED
    BY <1>7, <2>1, EmptySeq DEF Break, TypeOK, queueVars, sendVars, cmdVars, serverVars
<1>8. CASE HandleCommand
  <2>1. Head(toNode) \in Cmds /\ Tail(toNode) \in Seq(Cmds)
    BY <1>8, Taken DEF HandleCommand, TypeOK
  <2>2. order' \in Seq(Cmds) /\ Len(order') <= AckWindow /\ ran' \in [Cmds -> Nat]
    <3>1. CASE Head(toNode) \in Range(order)
      BY <1>8, <3>1 DEF HandleCommand, TypeOK
    <3>2. CASE Head(toNode) \notin Range(order)
      <4>1. Put(Head(toNode)) \in Seq(Cmds) /\ Len(Put(Head(toNode))) <= AckWindow
        BY <2>1, PutKeeps
      <4>2. ran' \in [Cmds -> Nat]
        BY <1>8, <3>2, <2>1, SMTT(30) DEF HandleCommand, TypeOK
      <4> QED
        BY <1>8, <3>2, <4>1, <4>2 DEF HandleCommand
    <3> QED
      BY <3>1, <3>2
  <2>3. reply' \in 0..MaxCmds
    BY <1>8, <2>1 DEF HandleCommand, Cmds
  <2> QED
    BY <1>8, <2>1, <2>2, <2>3 DEF HandleCommand, TypeOK, queueVars, streamVars, sendVars, serverVars
<1>9. CASE SendAck
  <2>1. reply \in Cmds
    BY <1>9 DEF SendAck, TypeOK, Cmds
  <2>2. wire' \in Seq(WireMsgs)
    BY <1>0, <1>9, <2>1, WireTyped, Appended DEF SendAck
  <2> QED
    BY <1>9, <2>2 DEF SendAck, TypeOK, WireMsgs, queueVars, streamVars, sendVars, serverVars
<1>10. CASE Issue
  <2>1. issued + 1 \in Cmds
    BY <1>10 DEF Issue, TypeOK, Cmds
  <2>2. toNode' \in Seq(Cmds)
    BY <1>10, <2>1, Appended DEF Issue, TypeOK
  <2> QED
    BY <1>10, <2>1, <2>2 DEF Issue, TypeOK, Cmds, queueVars, streamVars, sendVars, cmdVars
<1>11. ASSUME NEW c \in Cmds, Repeat(c) PROVE TypeOK'
  <2>1. toNode' \in Seq(Cmds)
    BY <1>11, Appended DEF Repeat, TypeOK
  <2> QED
    BY <1>11, <2>1 DEF Repeat, TypeOK, queueVars, streamVars, sendVars, cmdVars, serverVars
<1>12. CASE ServerReceives
  <2>1. Head(wire) \in WireMsgs /\ Tail(wire) \in Seq(WireMsgs)
    BY <1>0, <1>12, Taken DEF ServerReceives
  <2>2. got' \subseteq Msgs /\ acked' \subseteq Cmds
    <3>1. CASE Head(wire).kind = "event"
      <4>1. Head(wire).id \in Msgs
        BY <2>1, <3>1, WireTyped
      <4>2. got' = got \cup {Head(wire).id} /\ acked' = acked
        BY <1>12, <3>1 DEF ServerReceives
      <4> QED
        BY <4>1, <4>2 DEF TypeOK
    <3>2. CASE Head(wire).kind # "event"
      <4>1. Head(wire).id \in Cmds
        BY <2>1, <3>2, WireTyped
      <4>2. acked' = acked \cup {Head(wire).id} /\ got' = got
        BY <1>12, <3>2 DEF ServerReceives
      <4> QED
        BY <4>1, <4>2 DEF TypeOK
    <3> QED
      BY <3>1, <3>2
  <2> QED
    BY <1>12, <2>1, <2>2, SMTT(30) DEF ServerReceives, TypeOK, WireMsgs, queueVars, streamVars, sendVars, cmdVars
<1>13. CASE UNCHANGED vars
  BY <1>13 DEF vars, TypeOK, queueVars, streamVars, sendVars, cmdVars, serverVars
<1> QED
  BY <1>1, <1>2, <1>3, <1>4, <1>5, <1>6, <1>7, <1>8, <1>9, <1>10, <1>11, <1>12, <1>13
     DEF Next, Sender, AtRest

\* The outbox and the ack cache never exceed their capacities, and every
\* variable keeps its type, whatever streams break and senders come late.
THEOREM TypeCorrect == Spec => []TypeOK
BY TypeInit, TypeStep, PTL DEF Spec

-----------------------------------------------------------------------------
(* Messages: where each one is                                             *)

LEMMA OnWire ==
  ASSUME NEW w \in Seq(WireMsgs), NEW m \in Msgs
  PROVE  m \in EventsIn(w) <=> Event(m) \in Range(w)
<1>1. \A y \in Range(w) : y \in WireMsgs
  BY LenProperties, ElementOfSeq DEF Range
<1> QED
  BY <1>1, WireTyped DEF EventsIn

LEMMA EventsAppended ==
  ASSUME NEW w \in Seq(WireMsgs), NEW x \in WireMsgs
  PROVE  /\ x.kind = "event" => EventsIn(Append(w, x)) = EventsIn(w) \cup {x.id}
         /\ x.kind # "event" => EventsIn(Append(w, x)) = EventsIn(w)
<1>1. Range(Append(w, x)) = Range(w) \cup {x}
  BY Appended
<1> QED
  BY <1>1 DEF EventsIn

LEMMA EventsTaken ==
  ASSUME NEW w \in Seq(WireMsgs), w # <<>>, Inj(w)
  PROVE  /\ Head(w).kind = "event" =>
              Head(w).id \in EventsIn(w) /\ EventsIn(Tail(w)) = EventsIn(w) \ {Head(w).id}
         /\ Head(w).kind # "event" => EventsIn(Tail(w)) = EventsIn(w)
<1>1. /\ Range(w) = Range(Tail(w)) \cup {Head(w)} /\ Head(w) \notin Range(Tail(w))
      /\ Head(w) \in WireMsgs /\ Tail(w) \in Seq(WireMsgs)
  BY Taken
<1>2. \A y \in Range(Tail(w)) : y \in WireMsgs
  BY <1>1, LenProperties, ElementOfSeq DEF Range
<1>3. CASE Head(w).kind = "event"
  <2>1. \A y \in Range(Tail(w)) : y.kind = "event" => y.id # Head(w).id
    BY <1>1, <1>2, <1>3, WireTyped
  <2> QED
    BY <1>1, <1>3, <2>1 DEF EventsIn
<1>4. CASE Head(w).kind # "event"
  BY <1>1, <1>4 DEF EventsIn
<1> QED
  BY <1>3, <1>4

LEMMA HandTakes ==
  ASSUME TypeOK, NEW k \in Streams, hand[k] = 0, NEW m \in Msgs,
         hand' = [hand EXCEPT ![k] = m]
  PROVE  /\ InHand' = InHand \cup {m}
         /\ HandInj /\ m \notin InHand => HandInj'
<1>1. m # 0 /\ hand \in [Streams -> 0..MaxMsgs]
  BY BoundAssumption DEF Msgs, TypeOK
<1>2. \A i \in Streams : hand'[i] = IF i = k THEN m ELSE hand[i]
  BY <1>1
<1> QED
  BY <1>1, <1>2 DEF InHand, HandInj

LEMMA HandGives ==
  ASSUME TypeOK, NEW k \in Streams, hand[k] # 0, HandInj,
         hand' = [hand EXCEPT ![k] = 0]
  PROVE  HandInj' /\ hand[k] \in InHand /\ InHand' = InHand \ {hand[k]}
<1>1. hand \in [Streams -> 0..MaxMsgs]
  BY DEF TypeOK
<1>2. \A i \in Streams : hand'[i] = IF i = k THEN 0 ELSE hand[i]
  BY <1>1
<1> QED
  BY <1>2 DEF InHand, HandInj

\* A message moves from one place to another.
LEMMA Moves ==
  ASSUME NEW n, NEW O, NEW H, NEW E, NEW G, NEW L, NEW D, NEW m,
         Partition(n, O, H, E, G, L, D)
  PROVE  /\ m \in O => Partition(n, O \ {m}, H \cup {m}, E, G, L, D)
         /\ m \in H => Partition(n, O, H \ {m}, E \cup {m}, G, L, D)
         /\ m \in H => Partition(n, O \cup {m}, H \ {m}, E, G, L, D)
         /\ m \in H => Partition(n, O, H \ {m}, E, G, L, D \cup {m})
         /\ m \in E => Partition(n, O, H, E \ {m}, G \cup {m}, L, D)
         /\ Partition(n, O, H, {}, G, L \cup E, D)
BY DEF Partition

\* A new message comes in.
LEMMA Comes ==
  ASSUME NEW n \in Nat, NEW O, NEW H, NEW E, NEW G, NEW L, NEW D,
         Partition(n, O, H, E, G, L, D)
  PROVE  /\ n + 1 \notin O
         /\ Partition(n + 1, O \cup {n + 1}, H, E, G, L, D)
         /\ Partition(n + 1, O, H, E, G, L, D \cup {n + 1})
<1> DEFINE m == n + 1
<1>1. 1..(n + 1) = (1..n) \cup {m} /\ m \notin 1..n
  OBVIOUS
<1> HIDE DEF m
<1>2. m \notin O \cup H \cup E \cup G \cup L \cup D
  BY <1>1 DEF Partition
<1>3. Partition(n + 1, O \cup {m}, H, E, G, L, D)
  BY <1>1, <1>2 DEF Partition
<1>4. Partition(n + 1, O, H, E, G, L, D \cup {m})
  BY <1>1, <1>2 DEF Partition
<1> QED
  BY <1>2, <1>3, <1>4 DEF m

LEMMA Enqueued ==
  ASSUME TypeOK, NEW m \in Msgs, m \notin Range(outbox), Inj(outbox), Enqueue(m)
  PROVE  /\ Inj(outbox')
         /\ \/ Range(outbox') = Range(outbox) \cup {m} /\ dropped' = dropped
            \/ Range(outbox') = Range(outbox) /\ dropped' = dropped \cup {m}
<1>1. outbox \in Seq(Msgs)
  BY DEF TypeOK
<1>2. CASE Len(outbox) < QueueSize
  <2>1. outbox' = Append(outbox, m) /\ dropped' = dropped
    BY <1>2 DEF Enqueue
  <2> QED
    BY <1>1, <2>1, Appended
<1>3. CASE ~(Len(outbox) < QueueSize)
  BY <1>3 DEF Enqueue
<1> QED
  BY <1>2, <1>3

\* The places a step leaves alone.
placeVars == <<outbox, made, dropped, hand, wire, got, lost>>

LEMMA PlacedSame == Placed /\ UNCHANGED placeVars => Placed'
BY DEF Placed, placeVars, HandInj, InHand

\* Each step moves one message, takes in one, or none: only the senders touch
\* what is in hand, and a message put back leaves the hand that held it.
LEMMA PlacedStep == TypeOK /\ Placed /\ UnderWay /\ [Next]_vars => Placed'
<1> SUFFICES ASSUME TypeOK, Placed, UnderWay, [Next]_vars PROVE Placed'
  OBVIOUS
<1> DEFINE P(n, O, H, E, G, L, D) == Partition(n, O, H, E, G, L, D)
           O == Range(outbox)
           E == EventsIn(wire)
<1>0. /\ wire \in Seq(WireMsgs) /\ outbox \in Seq(Msgs) /\ made \in Nat
      /\ hand \in [Streams -> 0..MaxMsgs]
      /\ Inj(outbox) /\ Inj(wire) /\ HandInj
      /\ P(made, O, InHand, E, got, lost, dropped)
  BY BoundAssumption DEF TypeOK, WireMsgs, Placed
<1>1. CASE Report
  <2>0. /\ made + 1 \notin O
        /\ P(made + 1, O \cup {made + 1}, InHand, E, got, lost, dropped)
        /\ P(made + 1, O, InHand, E, got, lost, dropped \cup {made + 1})
    BY <1>0, Comes
  <2>1. made + 1 \in Msgs
    BY <1>0, <1>1, BoundAssumption DEF Report, Msgs
  <2>2. Enqueue(made + 1) /\ made' = made + 1 /\ UNCHANGED <<hand, wire, got, lost>>
    BY <1>1 DEF Report, sendVars
  <2>3. /\ Inj(outbox')
        /\ \/ Range(outbox') = O \cup {made + 1} /\ dropped' = dropped
           \/ Range(outbox') = O /\ dropped' = dropped \cup {made + 1}
    BY <1>0, <2>0, <2>1, <2>2, Enqueued
  <2>4. P(made', Range(outbox'), InHand, E, got, lost, dropped')
    <3>1. CASE Range(outbox') = O \cup {made + 1} /\ dropped' = dropped
      BY <2>0, <2>2, <3>1
    <3>2. CASE Range(outbox') = O /\ dropped' = dropped \cup {made + 1}
      BY <2>0, <2>2, <3>2
    <3> QED
      BY <2>3, <3>1, <3>2
  <2> QED
    BY <1>0, <2>2, <2>3, <2>4 DEF Placed, HandInj, InHand
<1>2. ASSUME NEW k \in Streams, TakeMsg(k) PROVE Placed'
  <2> DEFINE m == Head(outbox)
  <2>1. /\ hand[k] = 0 /\ hand' = [hand EXCEPT ![k] = m] /\ outbox' = Tail(outbox)
        /\ outbox # <<>> /\ UNCHANGED <<made, dropped, wire, got, lost>>
    BY <1>2 DEF TakeMsg
  <2>2. m \in Msgs /\ m \in O /\ Range(outbox') = O \ {m} /\ Inj(outbox')
    BY <1>0, <2>1, Taken
  <2> HIDE DEF m
  <2>3. m \notin InHand
    BY <1>0, <2>2 DEF Partition
  <2>4. InHand' = InHand \cup {m} /\ HandInj'
    BY <1>0, <2>1, <2>2, <2>3, HandTakes
  <2>5. P(made, O \ {m}, InHand \cup {m}, E, got, lost, dropped)
    BY <1>0, <2>2, Moves
  <2> QED
    BY <1>0, <2>1, <2>2, <2>4, <2>5 DEF Placed
<1>3. ASSUME NEW k \in Streams, SendMsg(k) PROVE Placed'
  <2> DEFINE m == hand[k]
  <2>1. /\ m # 0 /\ hand' = [hand EXCEPT ![k] = 0] /\ wire' = Append(wire, Event(m))
        /\ UNCHANGED <<outbox, made, dropped, got, lost>>
    BY <1>3 DEF SendMsg, queueVars
  <2>2. m \in Msgs
    BY <1>0, <2>1, BoundAssumption DEF Msgs
  <2>3. HandInj' /\ m \in InHand /\ InHand' = InHand \ {m}
    BY <1>0, <2>1, HandGives
  <2>4. m \notin E
    BY <1>0, <2>3 DEF Partition
  <2>5. Event(m) \in WireMsgs /\ Event(m).kind = "event" /\ Event(m).id = m /\ Event(m) \notin Range(wire)
    BY <1>0, <2>2, <2>4, WireTyped, OnWire
  <2>6. Inj(wire')
    BY <1>0, <2>1, <2>5, Appended
  <2>7. EventsIn(wire') = E \cup {m}
    BY <1>0, <2>1, <2>5, EventsAppended
  <2>8. P(made, O, InHand \ {m}, E \cup {m}, got, lost, dropped)
    BY <1>0, <2>3, Moves
  <2> QED
    BY <1>0, <2>1, <2>3, <2>6, <2>7, <2>8 DEF Placed
<1>4. ASSUME NEW k \in Streams, SendFails(k) PROVE Placed'
  <2> DEFINE m == hand[k]
  <2>1. /\ m # 0 /\ hand' = [hand EXCEPT ![k] = 0] /\ Enqueue(m)
        /\ UNCHANGED <<made, wire, got, lost>>
    BY <1>4 DEF SendFails
  <2>2. m \in Msgs
    BY <1>0, <2>1, BoundAssumption DEF Msgs
  <2>3. HandInj' /\ m \in InHand /\ InHand' = InHand \ {m}
    BY <1>0, <2>1, HandGives
  <2>4. m \notin O
    BY <1>0, <2>3 DEF Partition
  <2>5. /\ Inj(outbox')
        /\ \/ Range(outbox') = O \cup {m} /\ dropped' = dropped
           \/ Range(outbox') = O /\ dropped' = dropped \cup {m}
    BY <1>0, <2>1, <2>2, <2>4, Enqueued
  <2>6. P(made, Range(outbox'), InHand \ {m}, E, got, lost, dropped')
    <3>1. /\ P(made, O \cup {m}, InHand \ {m}, E, got, lost, dropped)
          /\ P(made, O, InHand \ {m}, E, got, lost, dropped \cup {m})
      BY <1>0, <2>3, Moves
    <3>2. CASE Range(outbox') = O \cup {m} /\ dropped' = dropped
      BY <3>1, <3>2
    <3>3. CASE Range(outbox') = O /\ dropped' = dropped \cup {m}
      BY <3>1, <3>3
    <3> QED
      BY <2>5, <3>2, <3>3
  <2> QED
    BY <1>0, <2>1, <2>3, <2>5, <2>6 DEF Placed
<1>5. ASSUME NEW k \in Streams, SenderEnds(k) PROVE Placed'
  BY <1>5, PlacedSame DEF SenderEnds, placeVars, queueVars
<1>6. CASE Register
  BY <1>6, PlacedSame DEF Register, placeVars, queueVars
<1>7. CASE Break
  <2>1. wire' = <<>> /\ lost' = lost \cup E /\ UNCHANGED <<outbox, made, dropped, hand, got>>
    BY <1>7 DEF Break, queueVars, sendVars
  <2>2. Len(<<>>) = 0 /\ Range(<<>>) = {}
    BY EmptySeq DEF Range
  <2>3. Inj(wire') /\ EventsIn(wire') = {}
    BY <2>1, <2>2 DEF Inj, EventsIn
  <2>4. P(made, O, InHand, {}, got, lost \cup E, dropped)
    BY <1>0, Moves
  <2> QED
    BY <1>0, <2>1, <2>3, <2>4 DEF Placed, HandInj, InHand
<1>8. CASE HandleCommand
  BY <1>8, PlacedSame DEF HandleCommand, placeVars, queueVars, sendVars
<1>9. CASE SendAck
  <2>1. reply \in Cmds /\ Ack(reply) \notin Range(wire)
    BY <1>9, BoundAssumption DEF SendAck, TypeOK, Cmds, UnderWay
  <2>2. UNCHANGED <<outbox, made, dropped, hand, got, lost>>
    BY <1>9 DEF SendAck, queueVars, sendVars
  <2>3. CASE up
    <3>1. wire' = Append(wire, Ack(reply)) /\ Ack(reply) \in WireMsgs /\ Ack(reply).kind = "ack"
      BY <1>9, <2>1, <2>3, WireTyped DEF SendAck
    <3>2. Inj(wire') /\ EventsIn(wire') = E
      BY <1>0, <2>1, <3>1, Appended, EventsAppended
    <3> QED
      BY <1>0, <2>2, <3>2 DEF Placed, HandInj, InHand
  <2>4. CASE ~up
    BY <1>9, <2>2, <2>4, PlacedSame DEF SendAck, placeVars
  <2> QED
    BY <2>3, <2>4
<1>10. CASE Issue
  BY <1>10, PlacedSame DEF Issue, placeVars, queueVars, sendVars
<1>11. ASSUME NEW c \in Cmds, Repeat(c) PROVE Placed'
  BY <1>11, PlacedSame DEF Repeat, placeVars, queueVars, sendVars
<1>12. CASE ServerReceives
  <2> DEFINE x == Head(wire)
  <2>1. wire # <<>> /\ wire' = Tail(wire) /\ UNCHANGED <<outbox, made, dropped, hand, lost>>
    BY <1>12 DEF ServerReceives, queueVars, sendVars
  <2>2. Inj(wire')
    BY <1>0, <2>1, Taken
  <2>3. CASE x.kind = "event"
    <3>1. x.id \in E /\ EventsIn(wire') = E \ {x.id} /\ got' = got \cup {x.id}
      BY <1>0, <1>12, <2>1, <2>3, EventsTaken DEF ServerReceives
    <3>2. P(made, O, InHand, E \ {x.id}, got \cup {x.id}, lost, dropped)
      BY <1>0, <3>1, Moves
    <3> QED
      BY <1>0, <2>1, <2>2, <3>1, <3>2, ZenonT(30) DEF Placed, HandInj, InHand
  <2>4. CASE x.kind # "event"
    <3>1. EventsIn(wire') = E /\ got' = got
      BY <1>0, <1>12, <2>1, <2>4, EventsTaken DEF ServerReceives
    <3> QED
      BY <1>0, <2>1, <2>2, <3>1 DEF Placed, HandInj, InHand
  <2> QED
    BY <2>3, <2>4
<1>13. CASE UNCHANGED vars
  BY <1>13, PlacedSame DEF vars, placeVars, queueVars, sendVars
<1> QED
  BY <1>1, <1>2, <1>3, <1>4, <1>5, <1>6, <1>7, <1>8, <1>9, <1>10, <1>11, <1>12, <1>13
     DEF Next, Sender, AtRest

-----------------------------------------------------------------------------
(* Commands: the ack outlasts every repetition                             *)

\* The commands of the age of c, c aside, are fewer than the window: when the
\* oldest ack leaves the cache, its command has been acknowledged.
LEMMA OldestIsAcked ==
  ASSUME NEW o \in Seq(Cmds), Inj(o), Len(o) = AckWindow + 1, NEW c \in Cmds, o[1] = c,
         \A j \in 2..Len(o) : o[j] < c + Pipeline /\ c < o[j] + Pipeline
  PROVE  FALSE
<1> DEFINE S == 2..Len(o)
           A == (c - Pipeline + 1)..(c + Pipeline - 1)
           T == A \ {c}
           f == [j \in S |-> o[j]]
<1>1. AckWindow \in Nat /\ Pipeline \in Nat \ {0} /\ AckWindow >= 2 * Pipeline - 1 /\ c \in Nat
  BY WindowAssumption DEF Cmds
<1>2. IsFiniteSet(S) /\ Cardinality(S) = AckWindow
  <2>1. IsFiniteSet(S) /\ Cardinality(S) = IF 2 > Len(o) THEN 0 ELSE Len(o) - 2 + 1
    <3>1. 2 \in Int /\ Len(o) \in Int
      BY <1>1
    <3> QED
      BY <3>1, FS_Interval
  <2> QED
    BY <1>1, <2>1
<1>3. IsFiniteSet(A) /\ Cardinality(A) = 2 * Pipeline - 1
  <2>1. c - Pipeline + 1 \in Int /\ c + Pipeline - 1 \in Int
    BY <1>1
  <2>2. /\ IsFiniteSet(A)
        /\ Cardinality(A) = IF c - Pipeline + 1 > c + Pipeline - 1 THEN 0
                            ELSE (c + Pipeline - 1) - (c - Pipeline + 1) + 1
    BY <2>1, FS_Interval
  <2> QED
    BY <1>1, <2>2
<1>4. IsFiniteSet(T) /\ Cardinality(T) = 2 * Pipeline - 2
  <2>1. c \in A
    BY <1>1
  <2>2. IsFiniteSet(T) /\ Cardinality(T) = IF c \in A THEN Cardinality(A) - 1 ELSE Cardinality(A)
    BY <1>3, FS_RemoveElement
  <2> QED
    BY <1>1, <1>3, <2>1, <2>2
<1>5. Cardinality(T) < Cardinality(S)
  BY <1>1, <1>2, <1>4
<1>6. f \in [S -> T]
  <2> SUFFICES ASSUME NEW j \in S PROVE o[j] \in T
    OBVIOUS
  <2>1. j \in 1..Len(o) /\ 1 \in 1..Len(o) /\ j # 1
    BY <1>1
  <2>2. o[j] \in Cmds
    BY <2>1, ElementOfSeq
  <2>3. o[j] # c
    BY <2>1 DEF Inj
  <2>4. o[j] < c + Pipeline /\ c < o[j] + Pipeline
    OBVIOUS
  <2> QED
    BY <1>1, <2>2, <2>3, <2>4 DEF Cmds
<1>7. PICK x \in S, y \in S : x # y /\ f[x] = f[y]
  <2> HIDE DEF S, T, f
  <2> QED
    BY <1>2, <1>4, <1>5, <1>6, FS_PigeonHole
<1>8. x \in 1..Len(o) /\ y \in 1..Len(o) /\ o[x] = o[y]
  BY <1>1, <1>7
<1> QED
  BY <1>7, <1>8 DEF Inj

\* The steps that leave the commands alone; a message on the wire is no ack.
cmdState == <<toNode, reply, ran, order, issued, acked>>
CmdInv == UnderWay /\ Recent /\ Done /\ Remembered

LEMMA CmdSame ==
  ASSUME CmdInv, UNCHANGED cmdState,
         \A c \in Cmds : Ack(c) \in Range(wire') => Ack(c) \in Range(wire), TypeOK
  PROVE  CmdInv'
<1>1. toNode \in Seq(Cmds) /\ reply \in 0..MaxCmds
  BY DEF TypeOK
<1>2. \A c \in Range(toNode) : c \in Cmds
  BY <1>1, LenProperties, ElementOfSeq DEF Range
<1>3. reply # 0 => reply \in Cmds
  BY <1>1, BoundAssumption DEF Cmds
<1>4. UnderWay'
  BY <1>2, <1>3 DEF CmdInv, cmdState, UnderWay
<1>5. Recent' /\ Done' /\ Remembered'
  BY DEF CmdInv, cmdState, Recent, Done, Remembered, Kept
<1> QED
  BY <1>4, <1>5 DEF CmdInv

\* handleCommand on a command that is not in the cache: it was never carried
\* out, and the cache that put leaves still covers the unacked ones.
LEMMA FirstTime ==
  ASSUME TypeOK, CmdInv, HandleCommand, Head(toNode) \notin Range(order)
  PROVE  Done' /\ Remembered' /\ ran[Head(toNode)] = 0
<1> DEFINE d == Head(toNode)
           o == Append(order, d)
<1>1. /\ toNode # <<>> /\ order' = Put(d) /\ ran' = [ran EXCEPT ![d] = @ + 1]
      /\ UNCHANGED <<issued, acked>>
  BY DEF HandleCommand, serverVars
<1>2. /\ toNode \in Seq(Cmds) /\ order \in Seq(Cmds) /\ ran \in [Cmds -> Nat]
      /\ AckWindow \in Nat /\ Pipeline \in Nat \ {0} /\ Len(order) \in Nat
      /\ Len(order) <= AckWindow /\ issued \in Nat /\ acked \subseteq Cmds
  BY WindowAssumption, BoundAssumption, LenProperties DEF TypeOK
<1>3. d \in Cmds /\ d \in Range(toNode)
  BY <1>1, <1>2, Taken
<1>4. d <= issued /\ d \notin acked
  BY <1>3 DEF CmdInv, UnderWay
<1> HIDE DEF d
<1>5. ran[d] = 0
  <2>1. ~Kept(order, d)
    BY <1>2, LenProperties DEF Kept, Range, d
  <2>2. ran[d] # 1
    BY <1>3, <1>4, <2>1 DEF CmdInv, Remembered
  <2> QED
    BY <1>2, <1>3, <2>2 DEF CmdInv, Done
<1>6. \A c \in Cmds : ran'[c] = IF c = d THEN 1 ELSE ran[c]
  BY <1>1, <1>2, <1>3, <1>5
<1>7. /\ o \in Seq(Cmds) /\ Len(o) = Len(order) + 1 /\ Inj(o)
      /\ \A i \in 1..Len(order) : o[i] = order[i]
      /\ o[Len(order) + 1] = d
  BY <1>2, <1>3, Appended, AppendProperties DEF d, CmdInv, Done
<1> HIDE DEF o
<1>8. \A i \in 1..Len(o) : o[i] \in Cmds /\ ran'[o[i]] = 1
  <2> TAKE i \in 1..Len(o)
  <2>1. o[i] \in Cmds
    BY <1>7, ElementOfSeq
  <2>2. CASE i = Len(order) + 1
    BY <1>3, <1>6, <1>7, <2>2
  <2>3. CASE i # Len(order) + 1
    <3>1. i \in 1..Len(order)
      BY <1>2, <1>7, <2>3
    <3>2. o[i] = order[i] /\ ran[order[i]] = 1
      BY <1>7, <3>1 DEF CmdInv, Done
    <3> QED
      BY <1>6, <2>1, <3>2
  <2> QED
    BY <2>1, <2>2, <2>3
<1>9. ASSUME NEW c \in Cmds, ran'[c] = 1, c \notin acked PROVE Kept(o, c)
  <2>1. CASE c = d
    <3>1. Len(o) \in 1..Len(o) /\ o[Len(o)] = c
      BY <1>2, <1>7, <2>1
    <3>2. \A j \in (Len(o) + 1)..Len(o) : o[j] < c + Pipeline /\ c < o[j] + Pipeline
      BY <1>2, <1>7
    <3> QED
      BY <3>1, <3>2 DEF Kept
  <2>2. CASE c # d
    <3>1. ran[c] = 1
      BY <1>6, <1>9, <2>2
    <3>2. PICK i \in 1..Len(order) : order[i] = c
             /\ \A j \in (i + 1)..Len(order) : order[j] < c + Pipeline /\ c < order[j] + Pipeline
      BY <1>9, <3>1 DEF CmdInv, Remembered, Kept
    <3>3. c <= issued /\ c + Pipeline > issued /\ d + Pipeline > issued
      <4>1. c \in 1..issued /\ d \in 1..issued
        BY <1>2, <1>3, <1>4, <1>9, <3>1 DEF CmdInv, Done, Cmds
      <4> QED
        BY <1>2, <1>4, <1>9, <4>1 DEF CmdInv, Recent
    <3>4. d < c + Pipeline /\ c < d + Pipeline
      BY <1>2, <1>3, <1>4, <1>9, <3>3 DEF Cmds
    <3>5. i \in 1..Len(o) /\ o[i] = c
      BY <1>2, <1>7, <3>2
    <3>6. ASSUME NEW j \in (i + 1)..Len(o) PROVE o[j] < c + Pipeline /\ c < o[j] + Pipeline
      <4>0. Len(o) = Len(order) + 1 /\ Len(order) \in Nat
        BY <1>2, <1>7
      <4>1. CASE j = Len(order) + 1
        BY <1>7, <3>4, <4>1
      <4>2. CASE j # Len(order) + 1
        <5>1. j \in (i + 1)..Len(order) /\ j \in 1..Len(order)
          BY <4>0, <4>2
        <5> QED
          BY <1>7, <3>2, <5>1
      <4> QED
        BY <4>1, <4>2
    <3> QED
      BY <3>5, <3>6 DEF Kept
  <2> QED
    BY <2>1, <2>2
<1>10. \A c \in Cmds : ran'[c] <= 1 /\ (ran'[c] = 1 => c <= issued)
  BY <1>4, <1>6 DEF CmdInv, Done
<1>11. \A c \in acked : ran'[c] = 1
  BY <1>2, <1>6 DEF CmdInv, Done
<1>12. CASE Len(order) < AckWindow
  <2>1. order' = o
    BY <1>1, <1>3, <1>12, PutKeeps DEF o
  <2> QED
    BY <1>1, <1>5, <1>7, <1>8, <1>9, <1>10, <1>11, <2>1 DEF Done, Remembered, d
<1>13. CASE Len(order) = AckWindow
  <2>1. Len(order') = AckWindow /\ \A i \in 1..AckWindow : order'[i] = o[i + 1]
    BY <1>1, <1>3, <1>13, PutKeeps DEF o
  <2>2. Len(o) = AckWindow + 1 /\ \A i \in 1..AckWindow : i + 1 \in 1..Len(o)
    BY <1>2, <1>7, <1>13
  <2>3. Inj(order')
    <3> SUFFICES ASSUME NEW i \in 1..AckWindow, NEW j \in 1..AckWindow, order'[i] = order'[j] PROVE i = j
      BY <2>1 DEF Inj
    <3>1. i + 1 = j + 1
      BY <1>7, <2>1, <2>2 DEF Inj
    <3> QED
      BY <1>2, <3>1
  <2>4. \A i \in 1..Len(order') : ran'[order'[i]] = 1
    BY <1>8, <2>1, <2>2
  <2>5. ASSUME NEW c \in Cmds, ran'[c] = 1, c \notin acked PROVE Kept(order', c)
    <3>1. PICK i \in 1..Len(o) : o[i] = c
             /\ \A j \in (i + 1)..Len(o) : o[j] < c + Pipeline /\ c < o[j] + Pipeline
      BY <1>9, <2>5 DEF Kept
    <3>2. i # 1
      BY <1>7, <2>2, <3>1, OldestIsAcked
    <3>3. i - 1 \in 1..Len(order') /\ order'[i - 1] = c
      BY <1>2, <2>1, <2>2, <3>1, <3>2
    <3>4. ASSUME NEW j \in i..Len(order') PROVE order'[j] < c + Pipeline /\ c < order'[j] + Pipeline
      <4>1. j \in 1..AckWindow /\ j + 1 \in (i + 1)..Len(o)
        BY <1>2, <2>1, <2>2
      <4> QED
        BY <2>1, <3>1, <4>1
    <3>5. (i - 1) + 1 = i
      BY <3>1
    <3> QED
      BY <3>3, <3>4, <3>5 DEF Kept
  <2> QED
    BY <1>1, <1>5, <1>10, <1>11, <2>3, <2>4, <2>5 DEF Done, Remembered, d
<1> QED
  BY <1>2, <1>12, <1>13

\* Each step keeps a command in one place and its ack where a repetition will
\* find it.
LEMMA CmdStep == TypeOK /\ Placed /\ CmdInv /\ [Next]_vars => CmdInv'
<1> SUFFICES ASSUME TypeOK, Placed, CmdInv, [Next]_vars PROVE CmdInv'
  OBVIOUS
<1> DEFINE Same == UNCHANGED cmdState /\ wire' = wire
<1>0. /\ wire \in Seq(WireMsgs) /\ toNode \in Seq(Cmds) /\ ran \in [Cmds -> Nat]
      /\ order \in Seq(Cmds) /\ reply \in 0..MaxCmds /\ issued \in Nat /\ acked \subseteq Cmds
      /\ Inj(wire) /\ Pipeline \in Nat \ {0}
  BY BoundAssumption, WindowAssumption DEF TypeOK, WireMsgs, Placed
<1>a. (\A c \in Range(toNode) : c \in Cmds) /\ (reply # 0 => reply \in Cmds)
  BY <1>0, LenProperties, ElementOfSeq, BoundAssumption DEF Range, Cmds
<1>b. (\A c, d \in Cmds : Ack(c) = Ack(d) => c = d) /\ 0 \notin Cmds
  BY WireTyped DEF Cmds
<1>c. ASSUME Same PROVE CmdInv'
  BY <1>c, CmdSame
<1>1. CASE Report
  BY <1>1, <1>c DEF Report, cmdState, cmdVars, serverVars
<1>2. ASSUME NEW k \in Streams, TakeMsg(k) PROVE CmdInv'
  BY <1>2, <1>c DEF TakeMsg, cmdState, cmdVars, serverVars
<1>3. ASSUME NEW k \in Streams, SendMsg(k) PROVE CmdInv'
  <2>1. UNCHANGED cmdState /\ wire' = Append(wire, Event(hand[k])) /\ hand[k] \in Msgs
    BY <1>3, BoundAssumption DEF SendMsg, cmdState, cmdVars, serverVars, TypeOK, Msgs
  <2>2. Range(wire') = Range(wire) \cup {Event(hand[k])}
    BY <1>0, <2>1, WireTyped, Appended
  <2>3. \A c \in Cmds : Ack(c) # Event(hand[k])
    BY DEF Ack, Event
  <2> QED
    BY <2>1, <2>2, <2>3, CmdSame
<1>4. ASSUME NEW k \in Streams, SendFails(k) PROVE CmdInv'
  BY <1>4, <1>c DEF SendFails, cmdState, cmdVars, serverVars
<1>5. ASSUME NEW k \in Streams, SenderEnds(k) PROVE CmdInv'
  BY <1>5, <1>c DEF SenderEnds, cmdState, cmdVars, serverVars
<1>6. CASE Register
  BY <1>6, <1>c DEF Register, cmdState, cmdVars, serverVars
<1>7. CASE Break
  <2>1. toNode' = <<>> /\ wire' = <<>> /\ UNCHANGED <<reply, ran, order, issued, acked>>
    BY <1>7 DEF Break, cmdVars, serverVars
  <2>2. Len(<<>>) = 0 /\ Range(<<>>) = {}
    BY EmptySeq DEF Range
  <2>3. UnderWay'
    BY <2>1, <2>2 DEF UnderWay, Inj, CmdInv
  <2> QED
    BY <2>1, <2>3 DEF CmdInv, Recent, Done, Remembered, Kept
<1>8. CASE HandleCommand
  <2> DEFINE d == Head(toNode)
  <2>1. toNode # <<>> /\ toNode' = Tail(toNode) /\ reply' = d /\ UNCHANGED <<wire, issued, acked>>
    BY <1>8 DEF HandleCommand, serverVars
  <2>2. /\ d \in Cmds /\ d \in Range(toNode) /\ Range(toNode) = Range(toNode') \cup {d}
        /\ Inj(toNode') /\ d \notin Range(toNode')
    BY <1>0, <2>1, Taken DEF CmdInv, UnderWay
  <2>3. CASE d \in Range(order)
    <3>1. UNCHANGED <<order, ran>>
      BY <1>8, <2>3 DEF HandleCommand
    <3>2. ran[d] = 1
      <4>1. PICK i \in 1..Len(order) : order[i] = d
        BY <1>0, <2>3, LenProperties DEF Range
      <4> QED
        BY <4>1 DEF CmdInv, Done
    <3>3. UnderWay'
      BY <2>1, <2>2, <3>1, <3>2 DEF CmdInv, UnderWay
    <3> QED
      BY <2>1, <3>1, <3>3 DEF CmdInv, Recent, Done, Remembered, Kept
  <2>4. CASE d \notin Range(order)
    <3>1. Done' /\ Remembered' /\ ran[d] = 0
      BY <1>8, <2>4, FirstTime
    <3>2. ran' = [ran EXCEPT ![d] = @ + 1]
      BY <1>8, <2>4 DEF HandleCommand
    <3>3. \A c \in Cmds : ran'[c] = IF c = d THEN 1 ELSE ran[c]
      BY <1>0, <2>2, <3>1, <3>2
    <3>4. UnderWay'
      BY <2>1, <2>2, <3>3 DEF CmdInv, UnderWay
    <3>5. Recent'
      BY <2>1 DEF CmdInv, Recent
    <3> QED
      BY <3>1, <3>4, <3>5 DEF CmdInv
  <2> QED
    BY <2>3, <2>4
<1>9. CASE SendAck
  <2>1. reply # 0 /\ reply' = 0 /\ UNCHANGED <<order, ran, issued, acked, toNode>>
    BY <1>9 DEF SendAck, serverVars
  <2>3. UnderWay'
    <3>1. CASE up
      <4>1. Range(wire') = Range(wire) \cup {Ack(reply)}
        BY <1>0, <1>9, <1>a, <2>1, <3>1, WireTyped, Appended DEF SendAck
      <4> QED
        BY <1>a, <1>b, <2>1, <4>1 DEF CmdInv, UnderWay
    <3>2. CASE ~up
      <4>1. wire' = wire
        BY <1>9, <3>2 DEF SendAck
      <4> QED
        BY <1>a, <1>b, <2>1, <4>1 DEF CmdInv, UnderWay
    <3> QED
      BY <3>1, <3>2
  <2> QED
    BY <2>1, <2>3 DEF CmdInv, Recent, Done, Remembered, Kept
<1>10. CASE Issue
  <2> DEFINE d == issued + 1
  <2>1. /\ issued' = d /\ toNode' = Append(toNode, d) /\ UNCHANGED <<order, ran, reply, wire, acked>>
        /\ \A c \in 1..issued : c \in acked \/ c + Pipeline > issued + 1
    BY <1>10 DEF Issue, cmdVars
  <2>2. d \in Cmds /\ d > issued /\ issued < MaxCmds
    BY <1>0, <1>10, BoundAssumption DEF Issue, Cmds
  <2>3. ran[d] # 1
    BY <1>0, <2>2 DEF CmdInv, Done
  <2>4. d \notin Range(toNode)
    BY <1>0, <1>a, <2>2 DEF CmdInv, UnderWay, Cmds
  <2>5. Range(toNode') = Range(toNode) \cup {d} /\ Inj(toNode')
    BY <1>0, <2>1, <2>2, <2>4, Appended DEF CmdInv, UnderWay
  <2>6. d \notin acked /\ d # reply /\ Ack(d) \notin Range(wire)
    BY <1>a, <1>b, <2>2, <2>3 DEF CmdInv, UnderWay, Done
  <2>7. \A c \in Cmds : c <= issued => c <= d
    BY <1>0 DEF Cmds
  <2>8. UnderWay'
    BY <1>a, <2>1, <2>2, <2>5, <2>6, <2>7 DEF CmdInv, UnderWay
  <2>9. Recent'
    <3> SUFFICES ASSUME NEW c \in 1..(issued + 1) PROVE c \in acked \/ c + Pipeline > issued + 1
      BY <2>1 DEF Recent
    <3>1. CASE c = issued + 1
      BY <1>0, <3>1
    <3>2. CASE c # issued + 1
      <4>1. c \in 1..issued
        BY <1>0, <3>2
      <4> QED
        BY <2>1, <4>1
    <3> QED
      BY <3>1, <3>2
  <2>10. Done' /\ Remembered'
    BY <2>1, <2>7 DEF CmdInv, Done, Remembered, Kept
  <2> QED
    BY <2>8, <2>9, <2>10 DEF CmdInv
<1>11. ASSUME NEW c \in Cmds, Repeat(c) PROVE CmdInv'
  <2>1. /\ c \in 1..issued /\ c \notin acked
        /\ c \notin Range(toNode) /\ c # reply /\ Ack(c) \notin Range(wire)
        /\ toNode' = Append(toNode, c) /\ UNCHANGED <<order, ran, reply, wire, issued, acked>>
    BY <1>11 DEF Repeat, cmdVars, serverVars
  <2>2. c <= issued
    BY <1>0, <2>1
  <2>3. Range(toNode') = Range(toNode) \cup {c} /\ Inj(toNode')
    BY <1>0, <2>1, Appended DEF CmdInv, UnderWay
  <2>4. UnderWay'
    BY <2>1, <2>2, <2>3 DEF CmdInv, UnderWay
  <2> QED
    BY <2>1, <2>4 DEF CmdInv, Recent, Done, Remembered, Kept
<1>12. CASE ServerReceives
  <2> DEFINE x == Head(wire)
  <2>1. wire # <<>> /\ wire' = Tail(wire) /\ UNCHANGED <<order, ran, reply, issued, toNode>>
    BY <1>12 DEF ServerReceives, cmdVars
  <2>2. /\ Range(wire) = Range(wire') \cup {x} /\ x \notin Range(wire') /\ x \in WireMsgs
    BY <1>0, <2>1, Taken
  <2>3. CASE x.kind = "event"
    <3>1. acked' = acked
      BY <1>12, <2>3 DEF ServerReceives
    <3> QED
      BY <2>1, <2>2, <3>1, CmdSame DEF cmdState
  <2>4. CASE x.kind # "event"
    <3> DEFINE c == x.id
    <3>1. acked' = acked \cup {c}
      BY <1>12, <2>4 DEF ServerReceives
    <3>2. c \in Cmds /\ Ack(c) = x
      BY <2>2, <2>4, WireTyped
    <3> HIDE DEF c
    <3>3. ran[c] = 1 /\ c \notin Range(toNode) /\ c # reply
      BY <1>b, <2>2, <3>2 DEF CmdInv, UnderWay
    <3>4. UnderWay'
      BY <1>a, <1>b, <2>1, <2>2, <3>1, <3>2, <3>3 DEF CmdInv, UnderWay
    <3>5. Recent' /\ Done' /\ Remembered'
      BY <2>1, <3>1, <3>3 DEF CmdInv, Recent, Done, Remembered, Kept
    <3> QED
      BY <3>4, <3>5 DEF CmdInv
  <2> QED
    BY <2>3, <2>4
<1>13. CASE UNCHANGED vars
  BY <1>13, <1>c DEF vars, cmdState, cmdVars, serverVars
<1> QED
  BY <1>1, <1>2, <1>3, <1>4, <1>5, <1>6, <1>7, <1>8, <1>9, <1>10, <1>11, <1>12, <1>13
     DEF Next, Sender, AtRest

-----------------------------------------------------------------------------
(* The theorems                                                            *)

LEMMA InvInit == Init => IInv
<1> SUFFICES ASSUME Init PROVE IInv
  OBVIOUS
<1>1. Len(<<>>) = 0 /\ Range(<<>>) = {}
  BY EmptySeq DEF Range
<1>2. InHand = {} /\ HandInj /\ EventsIn(wire) = {} /\ 1..0 = {}
  BY <1>1 DEF Init, InHand, HandInj, EventsIn
<1>3. Placed
  BY <1>1, <1>2 DEF Init, Placed, Inj, Partition
<1>4. UnderWay /\ Recent /\ Done /\ Remembered
  BY <1>1 DEF Init, UnderWay, Recent, Done, Remembered, Inj, Range
<1> QED
  BY <1>3, <1>4, TypeInit DEF IInv

LEMMA InvStep == IInv /\ [Next]_vars => IInv'
BY TypeStep, PlacedStep, CmdStep DEF IInv, CmdInv

THEOREM Invariant == Spec => []IInv
BY InvInit, InvStep, PTL DEF Spec

LEMMA UpTo ==
  ASSUME NEW n \in Nat
  PROVE  IsFiniteSet(1..n) /\ Cardinality(1..n) = n
<1>1. IsFiniteSet(1..n) /\ Cardinality(1..n) = IF 1 > n THEN 0 ELSE n - 1 + 1
  BY FS_Interval
<1> QED
  BY <1>1

LEMMA Disjoint ==
  ASSUME NEW S, NEW T, IsFiniteSet(S), IsFiniteSet(T), S \cap T = {}
  PROVE  /\ IsFiniteSet(S \cup T) /\ Cardinality(S \cup T) = Cardinality(S) + Cardinality(T)
         /\ Cardinality(S) \in Nat /\ Cardinality(T) \in Nat
<1>1. Cardinality(S) \in Nat /\ Cardinality(T) \in Nat
  BY FS_CardinalityType
<1>2. Cardinality(S \cap T) = 0
  BY FS_EmptySet
<1>3. /\ IsFiniteSet(S \cup T)
      /\ Cardinality(S \cup T) = Cardinality(S) + Cardinality(T) - Cardinality(S \cap T)
  BY FS_Union
<1> QED
  BY <1>1, <1>2, <1>3

\* Places without repetition that share nothing add up.
LEMMA PlacesAddUp == TypeOK /\ Placed => Accounted
<1> SUFFICES ASSUME TypeOK, Placed PROVE Accounted
  OBVIOUS
<1> DEFINE O == Range(outbox)
           E == EventsIn(wire)
           K == {k \in Streams : hand[k] # 0}
           W == {i \in DOMAIN wire : wire[i].kind = "event"}
<1>0. /\ wire \in Seq(WireMsgs) /\ outbox \in Seq(Msgs) /\ made \in Nat
      /\ hand \in [Streams -> 0..MaxMsgs]
      /\ Partition(made, O, InHand, E, got, lost, dropped)
  BY BoundAssumption DEF TypeOK, WireMsgs, Placed
<1>1. IsFiniteSet(O) /\ Cardinality(O) = Len(outbox)
  <2>1. DOMAIN outbox = 1..Len(outbox) /\ Len(outbox) \in Nat
    BY <1>0, LenProperties
  <2>2. IsFiniteSet(1..Len(outbox)) /\ Cardinality(1..Len(outbox)) = Len(outbox)
    BY <2>1, UpTo
  <2>3. O = {outbox[i] : i \in 1..Len(outbox)}
    BY <2>1 DEF Range
  <2>4. \A i, j \in 1..Len(outbox) : outbox[i] = outbox[j] => i = j
    BY DEF Placed, Inj
  <2> DEFINE S == 1..Len(outbox)
  <2>5. IsFiniteSet(S) /\ DOMAIN outbox = S /\ \A i, j \in S : outbox[i] = outbox[j] => i = j
    BY <2>1, <2>2, <2>4
  <2> HIDE DEF S
  <2>6. Cardinality({outbox[i] : i \in S}) = Cardinality(S) /\ IsFiniteSet({outbox[i] : i \in S})
    BY <2>5, Counted
  <2> QED
    BY <2>2, <2>3, <2>6 DEF S
<1>2. IsFiniteSet(InHand) /\ Cardinality(InHand) = Cardinality(K)
  <2> DEFINE f == [k \in K |-> hand[k]]
  <2>1. IsFiniteSet(K)
    <3>1. IsFiniteSet(Streams)
      BY UpTo, BoundAssumption DEF Streams
    <3> QED
      BY <3>1, FS_Subset
  <2>2. InHand = {f[k] : k \in K}
    BY DEF InHand
  <2>3. \A i, j \in K : f[i] = f[j] => i = j
    BY DEF Placed, HandInj
  <2>4. DOMAIN f = K
    OBVIOUS
  <2> HIDE DEF f, K
  <2> QED
    BY <2>1, <2>2, <2>3, <2>4, Counted
<1>3. IsFiniteSet(E) /\ Cardinality(E) = Cardinality(W)
  <2> DEFINE f == [i \in W |-> wire[i].id]
  <2>0. DOMAIN wire = 1..Len(wire) /\ Len(wire) \in Nat
    BY <1>0, LenProperties
  <2>1. IsFiniteSet(W)
    <3>1. IsFiniteSet(1..Len(wire))
      BY <2>0, UpTo
    <3> QED
      BY <2>0, <3>1, FS_Subset
  <2>2. E = {f[i] : i \in W}
    BY <2>0 DEF EventsIn, Range
  <2>3. \A i, j \in W : f[i] = f[j] => i = j
    <3> SUFFICES ASSUME NEW i \in W, NEW j \in W, wire[i].id = wire[j].id PROVE i = j
      OBVIOUS
    <3>1. wire[i] \in WireMsgs /\ wire[j] \in WireMsgs
      BY <1>0, <2>0, ElementOfSeq
    <3>2. wire[i] = wire[j]
      BY <3>1, WireTyped
    <3> QED
      BY <2>0, <3>2 DEF Placed, Inj
  <2>4. DOMAIN f = W
    OBVIOUS
  <2> HIDE DEF f, W, E
  <2> QED
    BY <2>1, <2>2, <2>3, <2>4, Counted
<1>4. IsFiniteSet(got) /\ IsFiniteSet(lost) /\ IsFiniteSet(dropped)
  <2>1. IsFiniteSet(Msgs)
    BY UpTo, BoundAssumption DEF Msgs
  <2> QED
    BY <2>1, FS_Subset DEF TypeOK
<1>5. Cardinality(1..made) = made
  BY <1>0, UpTo
<1>6. /\ 1..made = O \cup InHand \cup E \cup got \cup lost \cup dropped
      /\ O \cap (InHand \cup E \cup got \cup lost \cup dropped) = {}
      /\ InHand \cap (E \cup got \cup lost \cup dropped) = {}
      /\ E \cap (got \cup lost \cup dropped) = {}
      /\ got \cap (lost \cup dropped) = {}
      /\ lost \cap dropped = {}
  BY <1>0 DEF Partition
<1> HIDE DEF O, E, K, W
<1>8. IsFiniteSet(lost \cup dropped) /\ Cardinality(lost \cup dropped) = Cardinality(lost) + Cardinality(dropped)
  BY <1>4, <1>6, Disjoint
<1>9. /\ IsFiniteSet(got \cup (lost \cup dropped))
      /\ Cardinality(got \cup (lost \cup dropped)) = Cardinality(got) + Cardinality(lost \cup dropped)
  BY <1>4, <1>6, Disjoint, <1>8
<1>10. /\ IsFiniteSet(E \cup (got \cup (lost \cup dropped)))
       /\ Cardinality(E \cup (got \cup (lost \cup dropped)))
            = Cardinality(E) + Cardinality(got \cup (lost \cup dropped))
  <2>1. E \cap (got \cup (lost \cup dropped)) = {}
    BY <1>6
  <2> QED
    BY <1>3, Disjoint, <1>9, <2>1
<1>11. /\ IsFiniteSet(InHand \cup (E \cup (got \cup (lost \cup dropped))))
       /\ Cardinality(InHand \cup (E \cup (got \cup (lost \cup dropped))))
            = Cardinality(InHand) + Cardinality(E \cup (got \cup (lost \cup dropped)))
  <2>1. InHand \cap (E \cup (got \cup (lost \cup dropped))) = {}
    BY <1>6
  <2> QED
    BY <1>2, Disjoint, <1>10, <2>1
<1>12. Cardinality(O \cup (InHand \cup (E \cup (got \cup (lost \cup dropped)))))
         = Cardinality(O) + Cardinality(InHand \cup (E \cup (got \cup (lost \cup dropped))))
  <2>1. O \cap (InHand \cup (E \cup (got \cup (lost \cup dropped)))) = {}
    BY <1>6
  <2> QED
    BY <1>1, Disjoint, <1>11, <2>1
<1>13. 1..made = O \cup (InHand \cup (E \cup (got \cup (lost \cup dropped))))
  BY <1>6
<1>14. /\ Cardinality(O) \in Nat /\ Cardinality(InHand) \in Nat /\ Cardinality(E) \in Nat
       /\ Cardinality(got) \in Nat /\ Cardinality(lost) \in Nat /\ Cardinality(dropped) \in Nat
  BY <1>1, <1>2, <1>3, <1>4, FS_CardinalityType
<1>15. Cardinality(1..made) = Cardinality(O) + (Cardinality(InHand) + (Cardinality(E)
              + (Cardinality(got) + (Cardinality(lost) + Cardinality(dropped)))))
  BY <1>8, <1>9, <1>10, <1>11, <1>12, <1>13
<1>16. made = Len(outbox) + Cardinality(K) + Cardinality(W) + Cardinality(got)
              + Cardinality(lost) + Cardinality(dropped)
  BY <1>1, <1>2, <1>3, <1>5, <1>14, <1>15, SMTT(30)
<1> QED
  BY <1>6, <1>16 DEF Accounted, O, E, K, W

\* Every message reported is in exactly one place: queued, with one sender, on
\* the wire, received, lost with a stream or refused, for any number of
\* senders of broken streams that put messages back late.
THEOREM MessagesAccounted == Spec => []Accounted
BY Invariant, PlacesAddUp, PTL DEF IInv

\* No command is carried out twice, however streams break and commands are
\* repeated, as long as the window of acks spans the Server's pipeline twice.
THEOREM CommandsRunOnce == Spec => []RunsOnce
<1>1. IInv => RunsOnce
  BY DEF IInv, Done, RunsOnce
<1> QED
  BY <1>1, Invariant, PTL

-----------------------------------------------------------------------------
(* The node's files: the inductive invariant                               *)

\* Nothing is on disk before the token is used.
Untouched == ~spent => ~idWindow /\ torn = {} /\ \A f \in Files : disk[f] = 0

\* What is on disk has been issued.
Issued == \A f \in Files : disk[f] # 0 => certs # 0

\* doEnroll: what has been written belongs to the certificate just issued.
Enrolling ==
  proc = "write" =>
    /\ spent /\ idWindow /\ certs # 0 /\ renew = "idle"
    /\ torn \subseteq todo
    /\ \A f \in Files \ todo : disk[f] = certs

\* A process that runs has loaded its files, and they are replaced whole.
Serving == proc = "up" => spent /\ certs # 0 /\ torn = {} /\ \A f \in Files : disk[f] # 0

\* How far a renewal has come.
Renewal ==
  /\ renew # "idle" => proc = "up"
  /\ renew = "cert" => disk["key"] = certs
  /\ renew \in {"ca", "set"} => ~idWindow

\* Outside the window the files can be loaded, or there are none.
IdentitySafe == ~idWindow => Loadable \/ ~spent

IdInv == FilesTypeOK /\ Untouched /\ Issued /\ Enrolling /\ Serving /\ Renewal /\ IdentitySafe

\* The binary is missing exactly between the renames, or after a rollback that
\* failed; before them the new one is complete, after the first the old one is
\* the backup.
BinInv ==
  /\ FilesTypeOK
  /\ binWindow <=> bin.exe = 0
  /\ bin.exe = 0 => bin.bak \in Versions
  /\ update \in {"download", "remove", "backup"} => bin.exe # 0
  /\ update \in {"remove", "backup", "swap"} => bin.new \in Versions
  /\ update = "swap" => bin.exe = 0
  /\ update # "idle" => inFlight
  /\ exiting => inFlight /\ update = "idle" /\ bin.exe # 0

-----------------------------------------------------------------------------
\* The actions, with the files of AtomicWrite and the parameters picked.
LEMMA Steps ==
  ASSUME [FilesNext]_filesVars
  PROVE  \/ EnsureIdentity \/ LoadIdentity \/ Enroll \/ EnrollFails
         \/ \E f \in Files : WriteBegin(f) \/ WriteEnd(f)
         \/ BecomesDue \/ RenewCall \/ RenewCallFails \/ WriteFails \/ SetSource \/ Written
         \/ \E v \in Versions, force, hashed \in BOOLEAN : Apply(v, force, hashed)
         \/ Download \/ DownloadFails \/ RemoveBackup \/ BackUp \/ Swap \/ SwapFails
         \/ ExitForRestart \/ Crash \/ UNCHANGED filesVars
BY DEF FilesNext

\* Only enrollment and renewal change the identity files.
LEMMA IdTypesStep == FilesTypeOK /\ [FilesNext]_filesVars => IdTypes'
<1> SUFFICES ASSUME FilesTypeOK, [FilesNext]_filesVars PROVE IdTypes'
  OBVIOUS
<1> USE FilesBoundAssumption DEF FilesTypeOK, IdTypes
<1>1. CASE Enroll
  <2>1. certs' \in 0..MaxIssued
    BY <1>1 DEF Enroll
  <2>2. todo' \in SUBSET Files
    BY <1>1 DEF Enroll
  <2>3. UNCHANGED <<disk, torn>>
    BY <1>1 DEF Enroll
  <2> QED
    BY <2>1, <2>2, <2>3
<1>2. CASE EnrollFails
  BY <1>2 DEF EnrollFails
<1>3. ASSUME NEW f \in Files, WriteBegin(f) \/ WriteEnd(f) PROVE IdTypes'
  BY <1>3 DEF WriteBegin, WriteEnd
<1>4. CASE RenewCall
  BY <1>4 DEF RenewCall
<1>5. CASE Written
  BY <1>5 DEF Written, AtomicWrite, Files
<1>6. CASE ExitForRestart \/ Crash
  BY <1>6 DEF ExitForRestart, Crash, Ends
<1>7. CASE UNCHANGED idVars
  BY <1>7 DEF idVars
<1>8. ASSUME EnsureIdentity \/ LoadIdentity \/ BecomesDue \/ RenewCallFails \/ WriteFails \/ SetSource
             \/ (\E v \in Versions, force, hashed \in BOOLEAN : Apply(v, force, hashed))
             \/ Download \/ DownloadFails \/ RemoveBackup \/ BackUp \/ Swap \/ SwapFails \/ UNCHANGED filesVars
      PROVE  UNCHANGED idVars
  BY <1>8 DEF EnsureIdentity, LoadIdentity, BecomesDue, RenewCallFails, WriteFails, SetSource, Apply,
     Download, DownloadFails, GiveUp, RemoveBackup, BackUp, Swap, SwapFails, filesVars
<1> QED
  BY Steps, <1>1, <1>2, <1>3, <1>4, <1>5, <1>6, <1>7, <1>8

\* Only an update moves binaries.
LEMMA BinUnchanged ==
  ASSUME \/ EnsureIdentity \/ LoadIdentity \/ Enroll \/ EnrollFails
         \/ \E f \in Files : WriteBegin(f) \/ WriteEnd(f)
         \/ BecomesDue \/ RenewCall \/ RenewCallFails \/ WriteFails \/ SetSource \/ Written
         \/ UNCHANGED filesVars
  PROVE  UNCHANGED binVars
BY DEF EnsureIdentity, LoadIdentity, Enroll, EnrollFails, WriteBegin, WriteEnd, BecomesDue,
   RenewCall, RenewCallFails, WriteFails, SetSource, Written, AtomicWrite, filesVars

LEMMA BinTypesStep == BinInv /\ [FilesNext]_filesVars => BinTypes'
<1> SUFFICES ASSUME BinInv, [FilesNext]_filesVars PROVE BinTypes'
  OBVIOUS
<1>0. BinTypes
  BY DEF BinInv, FilesTypeOK
<1> USE <1>0, FilesBoundAssumption DEF BinTypes, Versions, Partial
<1>1. ASSUME NEW v \in Versions, NEW force \in BOOLEAN, NEW hashed \in BOOLEAN, Apply(v, force, hashed) PROVE BinTypes'
  BY <1>1 DEF Apply
<1>2. CASE Download
  BY <1>2 DEF Download
<1>3. CASE DownloadFails
  BY <1>3 DEF DownloadFails, GiveUp
<1>4. CASE RemoveBackup
  BY <1>4 DEF RemoveBackup
<1>5. CASE BackUp
  BY <1>5 DEF BackUp
<1>6. CASE Swap
  <2>1. bin.new \in 0..MaxVersion
    BY <1>6 DEF Swap, BinInv
  <2>2. bin' = [exe |-> bin.new, new |-> 0, bak |-> bin.bak] /\ update' = "idle" /\ target' = target
    BY <1>6 DEF Swap
  <2> QED
    BY <2>1, <2>2
<1>7. CASE SwapFails
  BY <1>7 DEF SwapFails
<1>8. CASE ExitForRestart \/ Crash
  BY <1>8 DEF ExitForRestart, Crash, Ends
<1>9. CASE UNCHANGED binVars
  BY <1>9 DEF binVars
<1> QED
  BY Steps, BinUnchanged, <1>1, <1>2, <1>3, <1>4, <1>5, <1>6, <1>7, <1>8, <1>9

LEMMA ProcTypesStep == FilesTypeOK /\ [FilesNext]_filesVars => ProcTypes'
<1> SUFFICES ASSUME FilesTypeOK, [FilesNext]_filesVars PROVE ProcTypes'
  OBVIOUS
<1>0. ProcTypes /\ certs \in 0..MaxIssued /\ disk \in [Files -> 0..MaxIssued]
  BY DEF FilesTypeOK, IdTypes
<1> USE <1>0, FilesBoundAssumption DEF ProcTypes, Fault
<1>1. CASE EnsureIdentity
  BY <1>1 DEF EnsureIdentity, Versions
<1>2. CASE LoadIdentity
  BY <1>2 DEF LoadIdentity, Files
<1>3. CASE Enroll \/ EnrollFails
  BY <1>3 DEF Enroll, EnrollFails
<1>4. ASSUME NEW f \in Files, WriteBegin(f) \/ WriteEnd(f) PROVE ProcTypes'
  BY <1>4 DEF WriteBegin, WriteEnd, procVars
<1>5. CASE BecomesDue
  BY <1>5 DEF BecomesDue
<1>6. CASE RenewCall
  BY <1>6 DEF RenewCall, procVars, Files
<1>7. CASE RenewCallFails \/ WriteFails
  BY <1>7 DEF RenewCallFails, WriteFails, procVars
<1>8. CASE SetSource
  BY <1>8 DEF SetSource
<1>9. CASE Written
  BY <1>9 DEF Written, AtomicWrite, procVars, Files
<1>10. ASSUME NEW v \in Versions, NEW force \in BOOLEAN, NEW hashed \in BOOLEAN, Apply(v, force, hashed) PROVE ProcTypes'
  BY <1>10 DEF Apply, procVars
<1>11. CASE Download \/ RemoveBackup \/ BackUp \/ Swap
  BY <1>11 DEF Download, RemoveBackup, BackUp, Swap, procVars
<1>12. CASE DownloadFails \/ SwapFails
  BY <1>12 DEF DownloadFails, GiveUp, SwapFails, procVars
<1>13. CASE ExitForRestart \/ Crash
  BY <1>13 DEF ExitForRestart, Crash, Ends
<1>14. CASE UNCHANGED filesVars
  BY <1>14 DEF filesVars, procVars
<1> QED
  BY Steps, <1>1, <1>2, <1>3, <1>4, <1>5, <1>6, <1>7, <1>8, <1>9, <1>10, <1>11, <1>12, <1>13, <1>14

LEMMA FlagTypesStep == FlagTypes /\ [FilesNext]_filesVars => FlagTypes'
<1> SUFFICES ASSUME FlagTypes, [FilesNext]_filesVars PROVE FlagTypes'
  OBVIOUS
<1> USE DEF FlagTypes
<1>1. CASE EnsureIdentity \/ LoadIdentity
  BY <1>1 DEF EnsureIdentity, LoadIdentity, idVars, binVars
<1>2. CASE Enroll \/ EnrollFails
  BY <1>2 DEF Enroll, EnrollFails, binVars
<1>3. ASSUME NEW f \in Files, WriteBegin(f) \/ WriteEnd(f) PROVE FlagTypes'
  BY <1>3 DEF WriteBegin, WriteEnd, binVars, procVars
<1>4. CASE BecomesDue \/ SetSource
  BY <1>4 DEF BecomesDue, SetSource, idVars, binVars
<1>5. CASE RenewCall \/ RenewCallFails \/ WriteFails
  BY <1>5 DEF RenewCall, RenewCallFails, WriteFails, idVars, binVars, procVars
<1>6. CASE Written
  BY <1>6 DEF Written, AtomicWrite, binVars, procVars
<1>7. ASSUME NEW v \in Versions, NEW force \in BOOLEAN, NEW hashed \in BOOLEAN, Apply(v, force, hashed) PROVE FlagTypes'
  BY <1>7 DEF Apply, idVars, procVars
<1>8. CASE Download \/ RemoveBackup \/ BackUp \/ Swap
  BY <1>8 DEF Download, RemoveBackup, BackUp, Swap, idVars, procVars
<1>9. CASE DownloadFails \/ SwapFails
  BY <1>9 DEF DownloadFails, GiveUp, SwapFails, idVars, procVars
<1>10. CASE ExitForRestart \/ Crash
  BY <1>10 DEF ExitForRestart, Crash, Ends
<1>11. CASE UNCHANGED filesVars
  BY <1>11 DEF filesVars, idVars, binVars, procVars
<1> QED
  BY Steps, <1>1, <1>2, <1>3, <1>4, <1>5, <1>6, <1>7, <1>8, <1>9, <1>10, <1>11

\* The binary's part of the invariant: only the update moves binaries.
LEMMA BinStep == BinInv /\ [FilesNext]_filesVars => BinInv'
<1> SUFFICES ASSUME BinInv, [FilesNext]_filesVars PROVE BinInv'
  OBVIOUS
<1>0. FilesTypeOK /\ FilesTypeOK'
  BY IdTypesStep, BinTypesStep, ProcTypesStep, FlagTypesStep DEF BinInv, FilesTypeOK
<1> HIDE DEF FilesTypeOK
<1> USE <1>0 DEF BinInv
<1>a. BinTypes
  BY DEF FilesTypeOK
<1>1. ASSUME NEW v \in Versions, NEW force \in BOOLEAN, NEW hashed \in BOOLEAN, Apply(v, force, hashed) PROVE BinInv'
  BY <1>1, <1>a DEF Apply, BinTypes
<1>2. CASE Download
  BY <1>2, <1>a DEF Download, BinTypes
<1>3. CASE DownloadFails
  BY <1>3, <1>a DEF DownloadFails, GiveUp, BinTypes
<1>4. CASE RemoveBackup
  BY <1>4, <1>a DEF RemoveBackup, BinTypes
<1>5. CASE BackUp
  BY <1>5, <1>a, FilesBoundAssumption DEF BackUp, BinTypes, Versions
<1>6. CASE Swap
  BY <1>6, <1>a, FilesBoundAssumption DEF Swap, BinTypes, Versions
<1>7. CASE SwapFails
  BY <1>7, <1>a, FilesBoundAssumption DEF SwapFails, BinTypes, Versions
<1>8. CASE ExitForRestart \/ Crash
  BY <1>8 DEF ExitForRestart, Crash, Ends
<1>9. CASE UNCHANGED binVars
  BY <1>9 DEF binVars
<1> QED
  BY Steps, BinUnchanged, <1>1, <1>2, <1>3, <1>4, <1>5, <1>6, <1>7, <1>8, <1>9

-----------------------------------------------------------------------------
\* The identity's part of the invariant.
LEMMA IdStep == IdInv /\ FilesTypeOK' /\ [FilesNext]_filesVars => IdInv'
<1> SUFFICES ASSUME IdInv, FilesTypeOK', [FilesNext]_filesVars PROVE IdInv'
  OBVIOUS
<1> USE DEF IdInv, Untouched, Issued, Enrolling, Serving, Renewal, IdentitySafe
<1>0. disk \in [Files -> 0..MaxIssued] /\ torn \in SUBSET Files /\ todo \in SUBSET Files /\ certs \in Nat
  BY FilesBoundAssumption DEF FilesTypeOK, IdTypes
<1>1. CASE EnsureIdentity
  BY <1>1 DEF EnsureIdentity, Loadable, idVars
<1>2. CASE LoadIdentity
  <2>1. Serving'
    BY <1>0, <1>2 DEF LoadIdentity, Loadable, idVars, Files
  <2>2. Untouched' /\ Issued' /\ Enrolling' /\ Renewal' /\ IdentitySafe'
    BY <1>2 DEF LoadIdentity, Loadable, idVars
  <2> QED
    BY <2>1, <2>2
<1>3. CASE Enroll
  <2>1. Untouched' /\ IdentitySafe'
    BY <1>3 DEF Enroll, Loadable
  <2>2. Issued' /\ Enrolling'
    BY <1>0, <1>3 DEF Enroll
  <2>3. Serving' /\ Renewal'
    BY <1>3 DEF Enroll
  <2> QED
    BY <2>1, <2>2, <2>3
<1>4. CASE EnrollFails
  BY <1>4 DEF EnrollFails, Loadable
<1>5. ASSUME NEW f \in Files, WriteBegin(f) PROVE IdInv'
  BY <1>5 DEF WriteBegin, Loadable, procVars
<1>6. ASSUME NEW f \in Files, WriteEnd(f) PROVE IdInv'
  <2>1. /\ proc = "write" /\ f \in torn /\ disk' = [disk EXCEPT ![f] = certs]
        /\ torn' = {} /\ todo' = todo \ {f} /\ UNCHANGED <<spent, certs, renew>>
    BY <1>6 DEF WriteEnd
  <2>2. \A g \in Files \ todo' : disk'[g] = certs'
    BY <1>0, <2>1
  <2>3. Untouched' /\ Issued' /\ Serving' /\ Renewal'
    BY <1>0, <1>6, <2>1 DEF WriteEnd
  <2>4. Enrolling'
    <3>1. proc' = "write" => idWindow'
      BY <1>6 DEF WriteEnd
    <3> QED
      BY <2>1, <2>2, <3>1
  <2>5. IdentitySafe'
    <3> SUFFICES ASSUME ~idWindow' PROVE Loadable'
      OBVIOUS
    <3>1. todo = {f}
      BY <1>6 DEF WriteEnd
    <3>2. \A g \in Files : disk'[g] = certs' /\ g \notin torn'
      BY <2>1, <2>2, <3>1
    <3> QED
      BY <2>1, <3>2 DEF Loadable, Files
  <2> QED
    BY <2>3, <2>4, <2>5
<1>7. CASE BecomesDue \/ RenewCallFails \/ WriteFails \/ SetSource
  BY <1>7 DEF BecomesDue, RenewCallFails, WriteFails, SetSource, Loadable, idVars, procVars
<1>8. CASE RenewCall
  BY <1>0, <1>8 DEF RenewCall, Loadable, procVars
<1>9. CASE Written
  BY <1>0, <1>9 DEF Written, AtomicWrite, Loadable, procVars, Files
<1>10. CASE ExitForRestart \/ Crash
  BY <1>10 DEF ExitForRestart, Crash, Ends, Loadable
<1>11. CASE UNCHANGED <<idVars, procVars, renew>>
  BY <1>11 DEF Loadable, idVars, procVars
<1>12. ASSUME (\E v \in Versions, force, hashed \in BOOLEAN : Apply(v, force, hashed))
              \/ Download \/ DownloadFails \/ RemoveBackup \/ BackUp \/ Swap \/ SwapFails \/ UNCHANGED filesVars
       PROVE  UNCHANGED <<idVars, procVars, renew>>
  BY <1>12 DEF Apply, Download, DownloadFails, GiveUp, RemoveBackup, BackUp, Swap, SwapFails, filesVars
<1> QED
  BY Steps, <1>1, <1>2, <1>3, <1>4, <1>5, <1>6, <1>7, <1>8, <1>9, <1>10, <1>11, <1>12

\* A fresh node: no files, no token used, the installed binary in its place.
LEMMA InitHolds == FilesInit => IdInv /\ BinInv
<1> SUFFICES ASSUME FilesInit PROVE IdInv /\ BinInv
  OBVIOUS
<1> USE FilesBoundAssumption DEF FilesInit
<1>1. IdTypes /\ ProcTypes
  BY DEF IdTypes, ProcTypes, Files
<1>2. BinTypes
  BY DEF BinTypes, Partial
<1>3. FlagTypes
  BY DEF FlagTypes
<1>4. Untouched /\ Issued /\ Enrolling /\ Serving /\ Renewal /\ IdentitySafe
  BY DEF Untouched, Issued, Enrolling, Serving, Renewal, IdentitySafe, Files
<1> QED
  BY <1>1, <1>2, <1>3, <1>4 DEF IdInv, BinInv, FilesTypeOK

LEMMA Invariance == FilesSpec => [](IdInv /\ BinInv)
<1>1. IdInv /\ BinInv /\ [FilesNext]_filesVars => (IdInv /\ BinInv)'
  BY IdStep, BinStep DEF BinInv
<1> QED
  BY <1>1, InitHolds, PTL DEF FilesSpec

-----------------------------------------------------------------------------
\* FilesTypeOK is an invariant of the renewer, enrollment and update code together.
THEOREM FilesTyped == FilesSpec => []FilesTypeOK
<1>1. IdInv => FilesTypeOK
  BY DEF IdInv
<1> QED
  BY <1>1, Invariance, PTL

\* A crash at any point outside the named windows leaves a node that starts
\* again, and inside the window of an update the old binary is kept.
THEOREM CrashSurvived == FilesSpec => []CrashSafe
<1>1. IdInv /\ BinInv => CrashSafe
  <2> SUFFICES ASSUME IdInv, BinInv PROVE CrashSafe
    OBVIOUS
  <2>1. bin.exe \in Versions <=> bin.exe # 0
    BY FilesBoundAssumption DEF BinInv, FilesTypeOK, BinTypes, Versions
  <2>2. ~idWindow => Loadable \/ (~spent /\ ~(Exists("key") /\ Exists("cert")))
    BY DEF IdInv, IdentitySafe, Untouched, Exists, Files
  <2> QED
    BY <2>1, <2>2 DEF BinInv, CrashSafe, Startable
<1> QED
  BY <1>1, Invariance, PTL

\* An update ends the process only with a whole binary in its place: inFlight
\* stays set after a successful Apply, so that no second one moves it away.
THEOREM ExitIsSafe == FilesSpec => ExitLeavesBinary
<1>1. BinInv /\ [FilesNext]_filesVars => [ExitForRestart => bin.exe \in Versions]_filesVars
  BY FilesBoundAssumption DEF BinInv, FilesTypeOK, BinTypes, Versions, ExitForRestart
<1> QED
  BY <1>1, Invariance, PTL DEF FilesSpec, ExitLeavesBinary
=============================================================================
