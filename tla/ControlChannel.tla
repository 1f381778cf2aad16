--------------------------- MODULE ControlChannel ---------------------------
(***************************************************************************)
(* The control channel of the node (internal/control client.go, dedup.go): *)
(* a bidirectional gRPC stream that the node opens, registers on, and      *)
(* opens again when it breaks.  Upward go the messages of the outbox (room *)
(* events, edge status, drain requests) and the acks of commands; downward *)
(* come the Server's commands.  A broken stream loses what it carries; the *)
(* Server repeats a command until it has seen the ack, and the node keeps  *)
(* the last acks to answer a repetition without carrying it out again.     *)
(*                                                                         *)
(* Every stream has its own sender goroutine, and the sender of a broken   *)
(* stream may still be at work when the next one is registered.  Messages  *)
(* and commands are numbered in the order they are made; heartbeats and    *)
(* the backoff between attempts change no state kept here.                 *)
(***************************************************************************)
EXTENDS Naturals, Sequences, FiniteSets, Functions

CONSTANTS
  QueueSize,   \* eventQueueSize, capacity of the outbox
  AckWindow,   \* ackWindow, acks kept by ackCache
  Pipeline,    \* a new command waits until every unacked one is this recent
  MaxMsgs,     \* bound: messages enqueued
  MaxCmds,     \* bound: commands issued
  MaxStreams   \* bound: streams opened

ASSUME QueueAssumption == QueueSize \in Nat \ {0}
ASSUME BoundAssumption == MaxMsgs \in Nat /\ MaxCmds \in Nat /\ MaxStreams \in Nat

\* Commands may be carried out in another order than issued, so the window
\* must span the commands on both sides of a repeated one.
ASSUME WindowAssumption ==
  AckWindow \in Nat /\ Pipeline \in Nat \ {0} /\ AckWindow >= 2 * Pipeline - 1

VARIABLES
  outbox,    \* Client.outbox
  made,      \* messages enqueued so far
  dropped,   \* messages refused by a full outbox
  stream,    \* number of the current stream, 0 before the first
  up,        \* the current stream is registered and not broken
  sender,    \* the sender goroutine of each stream: off, run, done
  hand,      \* the message each sender has taken, 0 for none
  wire,      \* what the current stream carries upward, in order
  lost,      \* messages lost with a broken stream
  got,       \* messages the Server has received
  order,     \* ackCache.order; ackCache.m has the same keys
  reply,     \* the command the receive loop has yet to acknowledge, 0 for none
  ran,       \* how often each command was carried out
  issued,    \* commands issued by the Server so far
  toNode,    \* commands the current stream carries downward
  acked      \* commands of which the Server has seen the ack

queueVars == <<outbox, made, dropped>>
streamVars == <<stream, up>>
sendVars == <<sender, hand>>
cmdVars == <<order, reply, ran>>
serverVars == <<issued, acked>>
vars == <<queueVars, streamVars, sendVars, wire, lost, got, cmdVars, serverVars, toNode>>

Streams == 1..MaxStreams
Msgs == 1..MaxMsgs
Cmds == 1..MaxCmds

Event(m) == [kind |-> "event", id |-> m]
Ack(c)   == [kind |-> "ack", id |-> c]
EventsIn(s) == {x.id : x \in {y \in Range(s) : y.kind = "event"}}

Init ==
  /\ outbox = <<>> /\ made = 0 /\ dropped = {}
  /\ stream = 0 /\ up = FALSE
  /\ sender = [k \in Streams |-> "off"]
  /\ hand = [k \in Streams |-> 0]
  /\ wire = <<>> /\ lost = {} /\ got = {}
  /\ order = <<>> /\ reply = 0
  /\ ran = [c \in Cmds |-> 0]
  /\ issued = 0 /\ toNode = <<>> /\ acked = {}

-----------------------------------------------------------------------------
(* The outbox and its senders                                              *)

\* Mutant: one message too many is let in.
EnqueueOneMore(m) ==
  IF Len(outbox) <= QueueSize
  THEN outbox' = Append(outbox, m) /\ UNCHANGED dropped
  ELSE dropped' = dropped \cup {m} /\ UNCHANGED outbox

\* enqueue: a full outbox drops the message with a warning.
Enqueue(m) ==
  IF Len(outbox) < QueueSize
  THEN outbox' = Append(outbox, m) /\ UNCHANGED dropped
  ELSE dropped' = dropped \cup {m} /\ UNCHANGED outbox

\* ParticipantJoined, ParticipantLeft, ScreenTrackActive, ScreenTrackEnded,
\* ReportEdgeStatus or RequestDrain, from any goroutine.
Report ==
  /\ made < MaxMsgs
  /\ made' = made + 1
  /\ Enqueue(made + 1)
  /\ UNCHANGED <<streamVars, sendVars, wire, lost, got, cmdVars, serverVars, toNode>>

\* A sender's select takes the next message; select may do so even when the
\* stream's context is done.
TakeMsg(k) ==
  /\ sender[k] = "run" /\ hand[k] = 0
  /\ outbox # <<>>
  /\ hand' = [hand EXCEPT ![k] = Head(outbox)]
  /\ outbox' = Tail(outbox)
  /\ UNCHANGED <<made, dropped, sender, streamVars, wire, lost, got, cmdVars, serverVars, toNode>>

SendMsg(k) ==
  /\ hand[k] # 0
  /\ k = stream /\ up
  /\ wire' = Append(wire, Event(hand[k]))
  /\ hand' = [hand EXCEPT ![k] = 0]
  /\ UNCHANGED <<queueVars, sender, streamVars, lost, got, cmdVars, serverVars, toNode>>

\* Mutant: a message that cannot be sent is forgotten.
SendFailsSilently(k) ==
  /\ hand[k] # 0
  /\ ~(k = stream /\ up)
  /\ hand' = [hand EXCEPT ![k] = 0]
  /\ sender' = [sender EXCEPT ![k] = "done"]
  /\ UNCHANGED <<queueVars, streamVars, wire, lost, got, cmdVars, serverVars, toNode>>

\* send fails: the message goes back, behind the ones that came meanwhile, and
\* the sender ends.
SendFails(k) ==
  /\ hand[k] # 0
  /\ ~(k = stream /\ up)
  /\ Enqueue(hand[k])
  /\ hand' = [hand EXCEPT ![k] = 0]
  /\ sender' = [sender EXCEPT ![k] = "done"]
  /\ UNCHANGED <<made, streamVars, wire, lost, got, cmdVars, serverVars, toNode>>

\* The select sees streamCtx.Done.
SenderEnds(k) ==
  /\ sender[k] = "run" /\ hand[k] = 0
  /\ ~(k = stream /\ up)
  /\ sender' = [sender EXCEPT ![k] = "done"]
  /\ UNCHANGED <<queueVars, hand, streamVars, wire, lost, got, cmdVars, serverVars, toNode>>

-----------------------------------------------------------------------------
(* Run and runOnce                                                         *)

\* Mutant: the sender is started for the first stream only.
RegisterWithoutSender ==
  /\ ~up /\ reply = 0
  /\ stream < MaxStreams
  /\ stream' = stream + 1
  /\ up' = TRUE
  /\ sender' = IF stream = 0 THEN [sender EXCEPT ![1] = "run"] ELSE sender
  /\ UNCHANGED <<queueVars, hand, wire, lost, got, cmdVars, serverVars, toNode>>

\* runOnce has returned; after the backoff the next one registers and starts
\* its sender.
Register ==
  /\ ~up /\ reply = 0
  /\ stream < MaxStreams
  /\ stream' = stream + 1
  /\ up' = TRUE
  /\ sender' = [sender EXCEPT ![stream + 1] = "run"]
  /\ UNCHANGED <<queueVars, hand, wire, lost, got, cmdVars, serverVars, toNode>>

\* The stream breaks with what it carries.  Bound: not the last one.
Break ==
  /\ up /\ stream < MaxStreams
  /\ up' = FALSE
  /\ lost' = lost \cup EventsIn(wire)
  /\ wire' = <<>> /\ toNode' = <<>>
  /\ UNCHANGED <<queueVars, stream, sendVars, got, cmdVars, serverVars>>

-----------------------------------------------------------------------------
(* Commands: the receive loop, handleCommand and ackCache                  *)

\* Mutant: one ack fewer is kept.
PutShort(c) ==
  LET o == Append(order, c)
  IN  IF Len(o) >= AckWindow /\ Len(o) > 1 THEN Tail(o) ELSE o

\* ackCache.put of a new command: the oldest ack leaves a full window.
Put(c) ==
  LET o == Append(order, c)
  IN  IF Len(o) > AckWindow THEN SubSeq(o, Len(o) - AckWindow + 1, Len(o)) ELSE o

\* Mutant: a repetition is recognised but not answered.
HandleCommandOnce ==
  /\ up /\ reply = 0
  /\ toNode # <<>>
  /\ toNode' = Tail(toNode)
  /\ IF Head(toNode) \in Range(order)
     THEN UNCHANGED <<order, ran, reply>>
     ELSE /\ reply' = Head(toNode)
          /\ order' = Put(Head(toNode))
          /\ ran' = [ran EXCEPT ![Head(toNode)] = @ + 1]
  /\ UNCHANGED <<queueVars, streamVars, sendVars, wire, lost, got, serverVars>>

\* Recv and handleCommand: a command found in the cache is answered with its
\* ack, another one is carried out and its ack recorded.
HandleCommand ==
  /\ up /\ reply = 0
  /\ toNode # <<>>
  /\ toNode' = Tail(toNode)
  /\ reply' = Head(toNode)
  /\ IF Head(toNode) \in Range(order)
     THEN UNCHANGED <<order, ran>>
     ELSE /\ order' = Put(Head(toNode))
          /\ ran' = [ran EXCEPT ![Head(toNode)] = @ + 1]
  /\ UNCHANGED <<queueVars, streamVars, sendVars, wire, lost, got, serverVars>>

\* The ack is sent; on a broken stream runOnce returns with the error.
SendAck ==
  /\ reply # 0
  /\ reply' = 0
  /\ wire' = IF up THEN Append(wire, Ack(reply)) ELSE wire
  /\ UNCHANGED <<queueVars, streamVars, sendVars, lost, got, order, ran, serverVars, toNode>>

-----------------------------------------------------------------------------
(* The Server, external: what the node's code takes it to do               *)

\* A new command, unless one is unacked that was issued Pipeline ago.
Issue ==
  /\ up
  /\ issued < MaxCmds
  /\ \A c \in 1..issued : c \in acked \/ c + Pipeline > issued + 1
  /\ issued' = issued + 1
  /\ toNode' = Append(toNode, issued + 1)
  /\ UNCHANGED <<queueVars, streamVars, sendVars, wire, lost, got, cmdVars, acked>>

\* An unacked command is repeated when it is not on the way.
Repeat(c) ==
  /\ up
  /\ c \in (1..issued) \ acked
  /\ c \notin Range(toNode) /\ c # reply /\ Ack(c) \notin Range(wire)
  /\ toNode' = Append(toNode, c)
  /\ UNCHANGED <<queueVars, streamVars, sendVars, wire, lost, got, cmdVars, serverVars>>

ServerReceives ==
  /\ wire # <<>>
  /\ wire' = Tail(wire)
  /\ IF Head(wire).kind = "event"
     THEN got' = got \cup {Head(wire).id} /\ UNCHANGED acked
     ELSE acked' = acked \cup {Head(wire).id} /\ UNCHANGED got
  /\ UNCHANGED <<queueVars, streamVars, sendVars, lost, cmdVars, issued, toNode>>

-----------------------------------------------------------------------------
Sender(k) == TakeMsg(k) \/ SendMsg(k) \/ SendFails(k) \/ SenderEnds(k)

\* Nothing is under way on the last stream.
AtRest ==
  /\ up /\ stream = MaxStreams
  /\ made = MaxMsgs /\ outbox = <<>> /\ wire = <<>> /\ toNode = <<>> /\ reply = 0
  /\ issued = MaxCmds /\ acked = Cmds
  /\ UNCHANGED vars

Next ==
  \/ Report \/ Register \/ Break \/ HandleCommand \/ SendAck
  \/ \E k \in Streams : Sender(k)
  \/ Issue \/ ServerReceives \/ \E c \in Cmds : Repeat(c)
  \/ AtRest

\* Goroutines run, the node keeps reconnecting, and the stream carries; that it
\* breaks only finitely often is the bound on streams.
Fairness ==
  /\ WF_vars(Register)
  /\ WF_vars(HandleCommand) /\ WF_vars(SendAck)
  /\ WF_vars(ServerReceives)
  /\ \A c \in Cmds : WF_vars(Repeat(c))
  /\ \A k \in Streams : WF_vars(Sender(k))

Spec == Init /\ [][Next]_vars
FairSpec == Spec /\ Fairness

-----------------------------------------------------------------------------
(* Properties                                                              *)

\* Type invariant, with the capacities of the outbox and of the ack cache.
TypeOK ==
  /\ outbox \in Seq(Msgs) /\ Len(outbox) <= QueueSize
  /\ made \in 0..MaxMsgs /\ dropped \subseteq Msgs
  /\ stream \in 0..MaxStreams /\ up \in BOOLEAN
  /\ sender \in [Streams -> {"off", "run", "done"}]
  /\ hand \in [Streams -> 0..MaxMsgs]
  /\ wire \in Seq([kind : {"event"}, id : Msgs] \cup [kind : {"ack"}, id : Cmds])
  /\ lost \subseteq Msgs /\ got \subseteq Msgs
  /\ order \in Seq(Cmds) /\ Len(order) <= AckWindow
  /\ reply \in 0..MaxCmds
  /\ ran \in [Cmds -> Nat]
  /\ issued \in 0..MaxCmds /\ acked \subseteq Cmds
  /\ toNode \in Seq(Cmds)

InHand == {hand[k] : k \in Streams} \ {0}

\* Every message is somewhere, and in one place: queued, taken by a sender,
\* on the wire, received, lost with a stream or refused by a full outbox.  A
\* message that a late sender puts back is neither forgotten nor doubled.
Accounted ==
  /\ 1..made = Range(outbox) \cup InHand \cup EventsIn(wire) \cup got \cup lost \cup dropped
  /\ made = Len(outbox) + Cardinality({k \in Streams : hand[k] # 0})
            + Cardinality({i \in DOMAIN wire : wire[i].kind = "event"})
            + Cardinality(got) + Cardinality(lost) + Cardinality(dropped)

\* A command is carried out at most once, whatever streams break between the
\* command, its execution and its ack: the window of acks outlasts every
\* repetition a Server with this Pipeline makes.
RunsOnce == \A c \in Cmds : ran[c] <= 1

\* Once reconnected, the node delivers: what was reported while the channel
\* was down reaches the Server, unless a stream lost it or the outbox was full.
ReportsArrive == \A m \in Msgs : made >= m ~> m \in got \cup lost \cup dropped

\* A command is acknowledged in the end, and what is acknowledged was done.
CommandsAcked == \A c \in Cmds : issued >= c ~> (c \in acked /\ ran[c] > 0)
=============================================================================
