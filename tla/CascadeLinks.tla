---------------------------- MODULE CascadeLinks ----------------------------
(***************************************************************************)
(* One edge of the cascade in one room (internal/cascade state.go,         *)
(* server.go and the session part of manager.go and edge.go): the parent   *)
(* listens, the child dials.  Both get edge sets from the Server, each on  *)
(* its own control channel, delayed and repeated as it comes; connections  *)
(* break at any time.                                                      *)
(*                                                                         *)
(* job[t] is what goroutine t has left to do, one critical section or one  *)
(* shared access per step.  A connection names the session at each of its  *)
(* ends.  What recompute does to a session is the subject of CascadeGate   *)
(* and CascadeRoutes.  A report is made with the registration it follows.  *)
(* Process shutdown is left out.                                           *)
(***************************************************************************)
EXTENDS Naturals, FiniteSets, Sequences

CONSTANTS
  Orders,      \* edge sets the Server sends: epoch, endpoint (None: no edge), token
  MaxConns,    \* bound: connections at a time; they are numbered
  MaxOrders,   \* bound: commands handled by the two nodes
  MaxFaults,   \* bound: broken connections and tokens that expire
  None

ASSUME OrderAssumption ==
  \A o \in Orders : o.epoch \in Nat \ {0} /\ DOMAIN o = {"epoch", "endpoint", "token"}
ASSUME NameAssumption == None \notin 1..MaxConns /\ None \notin Orders
ASSUME BoundAssumption == MaxConns \in Nat /\ MaxOrders \in Nat /\ MaxFaults \in Nat

VARIABLES
  epoch,   \* roomState.epoch of each node
  edge,    \* roomState.edges: the order in force, None without the edge
  reg,     \* roomState.sessions: the registered connection, or None
  held,    \* edgeSession.edge at each end of a connection
  est,     \* edgeSession.established
  shut,    \* edgeSession.closed
  wire,    \* a connection: free, hello, accepted, refused, cut
  dialing, \* Manager.dialing of the child
  told,    \* the last EdgeStatus of each node
  expired, \* edge tokens whose time is over
  job, orders, faults

nodeVars == <<epoch, edge, reg>>
sessVars == <<held, est, shut>>
vars == <<nodeVars, sessVars, wire, dialing, told, job, orders, faults, expired>>

Parent == "parent"
Child == "child"
Nodes == {Parent, Child}
Conns == 1..MaxConns

Control(n) == <<n, "control", 0>>
Watchdog(n) == <<n, "watchdog", 0>>
DialLoop == <<Child, "dial", 0>>
Inbound(c) == <<Parent, "inbound", c>>
Threads == {Control(n) : n \in Nodes} \cup {Watchdog(n) : n \in Nodes} \cup {DialLoop}
           \cup {Inbound(c) : c \in Conns}

Do(op, c) == [op |-> op, conn |-> c]

At(t, op) == job[t] # <<>> /\ Head(job[t]).op = op
Idle(t) == job[t] = <<>>
Continue(t, steps) == job' = [job EXCEPT ![t] = steps \o Tail(@)] /\ UNCHANGED <<orders, faults, expired>>
Start(t, steps) == Idle(t) /\ job' = [job EXCEPT ![t] = steps]

Fault == faults < MaxFaults /\ faults' = faults + 1 /\ UNCHANGED orders
Command == orders < MaxOrders /\ orders' = orders + 1 /\ UNCHANGED <<faults, expired>>

Init ==
  /\ epoch = [n \in Nodes |-> 0] /\ edge = [n \in Nodes |-> None]
  /\ reg = [n \in Nodes |-> None]
  /\ held = [n \in Nodes |-> [c \in Conns |-> None]]
  /\ est = [n \in Nodes |-> {}] /\ shut = [n \in Nodes |-> {}]
  /\ wire = [c \in Conns |-> "free"] /\ dialing = FALSE
  /\ told = [n \in Nodes |-> "down"]
  /\ job = [t \in Threads |-> <<>>] /\ orders = 0 /\ faults = 0 /\ expired = {}

-----------------------------------------------------------------------------
(* Commands                                                                *)

\* sameEdge: another endpoint takes a new connection, a new token does not.
SameEdge(a, b) == a.endpoint = b.endpoint

\* The edge of an order, as far as this edge is concerned.
InForce(o) == IF o.endpoint = None THEN None ELSE o

\* Mutant: the sessions that applyEdges returns are dropped.
CloseNothing(n, new) == <<>>

\* The session that applyEdges removes, to be closed after the lock.
CloseRemoved(n, new) ==
  LET c == reg[n] IN
    IF c # None /\ (new = None \/ ~SameEdge(held[n][c], new)) THEN <<Do("close", c)>> ELSE <<>>

\* SetCascadeEdges, applyEdges: an older epoch is refused; the session stays
\* if its edge does, and takes over epoch and token; the child sees to a dial
\* loop; what was removed is closed after the lock.
SetCascadeEdges(n, o) ==
  /\ Command /\ Idle(Control(n))
  /\ IF o.epoch < epoch[n]
     THEN UNCHANGED <<epoch, edge, reg, held, dialing, job>>
     ELSE LET new == InForce(o)
              c == reg[n]
              removed == c # None /\ (new = None \/ ~SameEdge(held[n][c], new))
              dial == n = Child /\ new # None /\ ~dialing
          IN  /\ epoch' = [epoch EXCEPT ![n] = o.epoch]
              /\ edge' = [edge EXCEPT ![n] = new]
              /\ reg' = [reg EXCEPT ![n] = IF removed THEN None ELSE c]
              /\ held' = IF c = None \/ removed THEN held ELSE [held EXCEPT ![n][c] = new]
              /\ dialing' = (dialing \/ dial)
              /\ job' = [job EXCEPT ![Control(n)] = CloseRemoved(n, new),
                                    ![DialLoop] = IF dial THEN <<Do("top", None)>> ELSE @]
  /\ UNCHANGED <<est, shut, wire, told>>

\* CloseRoom: all that was known of the room goes, the epochs too.
CloseRoom(n) ==
  /\ Command
  /\ epoch' = [epoch EXCEPT ![n] = 0] /\ edge' = [edge EXCEPT ![n] = None]
  /\ reg' = [reg EXCEPT ![n] = None]
  /\ Start(Control(n), IF reg[n] = None THEN <<>> ELSE <<Do("close", reg[n])>>)
  /\ UNCHANGED <<sessVars, wire, dialing, told>>

-----------------------------------------------------------------------------
(* The child dials, the parent answers                                     *)

\* childDialLoop, the top: without the edge the loop returns, and its deferred
\* function takes it out of dialing in a critical section of its own.
DialTop(t) ==
  /\ At(t, "top")
  /\ IF edge[Child] = None
     THEN Continue(t, <<Do("exit", None)>>) /\ UNCHANGED <<held, wire>>
     ELSE \E c \in Conns :
            /\ wire[c] = "free" /\ \A d \in Conns : wire[d] = "free" => c <= d
            /\ wire' = [wire EXCEPT ![c] = "hello"]
            /\ held' = [held EXCEPT ![Child][c] = edge[Child]]
            /\ Continue(t, <<Do("answer", c), Do("top", None)>>)
  /\ UNCHANGED <<nodeVars, est, shut, dialing, told>>

DialExit(t) ==
  /\ At(t, "exit")
  /\ dialing' = FALSE
  /\ Continue(t, <<>>)
  /\ UNCHANGED <<nodeVars, sessVars, wire, told>>

\* Mutant: a refusal ends the loop.
DialGivesUp(t) ==
  /\ At(t, "answer")
  /\ LET c == Head(job[t]).conn
     IN  /\ wire[c] \in {"accepted", "refused", "cut"}
         /\ wire' = IF wire[c] = "refused" THEN [wire EXCEPT ![c] = "cut"] ELSE wire
         /\ job' = [job EXCEPT ![t] = IF wire[c] = "accepted" THEN <<Do("establish", c)>> \o Tail(@) ELSE <<>>]
  /\ UNCHANGED <<nodeVars, sessVars, dialing, told, orders, faults, expired>>

\* dialEdge returns: with a session, or with an error and a pause.
DialAnswer(t) ==
  /\ At(t, "answer")
  /\ LET c == Head(job[t]).conn
     IN  /\ wire[c] \in {"accepted", "refused", "cut"}
         /\ wire' = IF wire[c] = "refused" THEN [wire EXCEPT ![c] = "cut"] ELSE wire
         /\ Continue(t, IF wire[c] = "accepted" THEN <<Do("establish", c)>> ELSE <<>>)
  /\ UNCHANGED <<nodeVars, sessVars, dialing, told>>

\* VerifyToken: a token of the Server is signed and names the edge and the
\* epoch it was minted for, which are those of the order that carries it; it is
\* good for a short time only.
VerifyToken(tok) == tok \notin expired

\* handleInbound, authorizeInbound: the room and its epoch, the edge, the token,
\* which the parent must hold too, and VerifyToken; then the answer, and the
\* session with the parent's view of the edge.
Authorize(t) ==
  /\ At(t, "authorize")
  /\ LET c == Head(job[t]).conn
         hello == held[Child][c]
         granted == /\ edge[Parent] # None
                    /\ epoch[Parent] = hello.epoch
                    /\ edge[Parent].token = hello.token
                    /\ VerifyToken(hello.token)
         served == granted /\ wire[c] # "cut"
     IN  /\ wire' = IF wire[c] = "cut" THEN wire
                    ELSE [wire EXCEPT ![c] = IF granted THEN "accepted" ELSE "refused"]
         /\ held' = IF served THEN [held EXCEPT ![Parent][c] = edge[Parent]] ELSE held
         /\ Continue(t, IF served THEN <<Do("establish", c)>> ELSE <<>>)
  /\ UNCHANGED <<nodeVars, est, shut, dialing, told>>

Accept(c) ==
  /\ wire[c] = "hello"
  /\ Start(Inbound(c), <<Do("authorize", c)>>)
  /\ UNCHANGED <<nodeVars, sessVars, wire, dialing, told, orders, faults, expired>>

\* Mutant: it is enough that the edge is listed.
StillListed(n, c) == edge[n] # None

\* The session's edge is in force, at the same endpoint and epoch.
StillWanted(n, c) ==
  edge[n] # None /\ SameEdge(edge[n], held[n][c]) /\ edge[n].epoch = held[n][c].epoch

\* edgeEstablished: the edge is looked up again; an older session of the edge
\* gives way without a report, and is closed at the end.
Establish(t) ==
  /\ At(t, "establish")
  /\ LET n == t[1]
         c == Head(job[t]).conn
         old == reg[n]
     IN  IF StillWanted(n, c)
         THEN /\ reg' = [reg EXCEPT ![n] = c]
              /\ est' = [est EXCEPT ![n] = (@ \ {old}) \cup {c}]
              /\ told' = [told EXCEPT ![n] = "up"]
              /\ Continue(t, (IF old = None THEN <<>> ELSE <<Do("close", old)>>) \o <<Do("run", c)>>)
         ELSE /\ Continue(t, <<Do("close", c)>>)
              /\ UNCHANGED <<reg, est, told>>
  /\ UNCHANGED <<epoch, edge, held, shut, wire, dialing>>

\* runWith: the read fails once either end or the network has cut.
ReadFails(t) ==
  /\ At(t, "run") /\ wire[Head(job[t]).conn] = "cut"
  /\ Continue(t, <<Do("close", Head(job[t]).conn)>>)
  /\ UNCHANGED <<nodeVars, sessVars, wire, dialing, told>>

\* The network, a failed peer connection or the read limit.
Cut(c) ==
  /\ Fault /\ wire[c] \in {"hello", "accepted"}
  /\ wire' = [wire EXCEPT ![c] = "cut"]
  /\ UNCHANGED <<nodeVars, sessVars, dialing, told, job, expired>>

\* The token in force at the parent reaches its expiry time.
Expire ==
  /\ Fault /\ edge[Parent] # None
  /\ expired' = expired \cup {edge[Parent].token}
  /\ UNCHANGED <<nodeVars, sessVars, wire, dialing, told, job>>

-----------------------------------------------------------------------------
(* The end of a session                                                    *)

\* edgeSession.close, once ...
CloseSession(t) ==
  /\ At(t, "close")
  /\ LET n == t[1]
         c == Head(job[t]).conn
     IN  /\ shut' = [shut EXCEPT ![n] = @ \cup {c}]
         /\ wire' = IF c \in shut[n] THEN wire ELSE [wire EXCEPT ![c] = "cut"]
         /\ Continue(t, IF c \in shut[n] THEN <<>>
                        ELSE <<Do("unregister", c), Do("down", c)>>)
  /\ UNCHANGED <<nodeVars, held, est, dialing, told>>

\* ... onEdgeClosed: only this session's own entry goes, ...
Unregister(t) ==
  /\ At(t, "unregister")
  /\ LET n == t[1] IN
       reg' = [reg EXCEPT ![n] = IF @ = Head(job[t]).conn THEN None ELSE @]
  /\ Continue(t, <<>>)
  /\ UNCHANGED <<epoch, edge, sessVars, wire, dialing, told>>

\* ... and after the lock the end of an established one is reported.
ReportDown(t) ==
  /\ At(t, "down")
  /\ LET n == t[1]
         c == Head(job[t]).conn
     IN  /\ est' = [est EXCEPT ![n] = @ \ {c}]
         /\ told' = IF c \in est[n] THEN [told EXCEPT ![n] = "down"] ELSE told
  /\ Continue(t, <<>>)
  /\ UNCHANGED <<nodeVars, held, shut, wire, dialing>>

\* Mutant: sessions that are not established are reported instead.
TickOthers(n) ==
  /\ reg[n] # None /\ reg[n] \notin est[n]
  /\ Start(Watchdog(n), <<Do("up", reg[n])>>)
  /\ UNCHANGED <<nodeVars, sessVars, wire, dialing, told, orders, faults, expired>>

\* watchdog: every 15 s the established sessions are collected under the lock.
Tick(n) ==
  /\ reg[n] \in est[n]
  /\ Start(Watchdog(n), <<Do("up", reg[n])>>)
  /\ UNCHANGED <<nodeVars, sessVars, wire, dialing, told, orders, faults, expired>>

\* ... what the watchdog has collected it reports after the lock.
ReportUp(t) ==
  /\ At(t, "up")
  /\ told' = [told EXCEPT ![t[1]] = "up"]
  /\ Continue(t, <<>>)
  /\ UNCHANGED <<nodeVars, sessVars, wire, dialing>>

-----------------------------------------------------------------------------
\* Bookkeeping: the name of a connection that nobody refers to is free again.
Forget(c) ==
  /\ wire[c] = "cut"
  /\ \A t \in Threads : \A i \in 1..Len(job[t]) : job[t][i].conn # c
  /\ wire' = [wire EXCEPT ![c] = "free"]
  /\ held' = [n \in Nodes |-> [held[n] EXCEPT ![c] = None]]
  /\ shut' = [n \in Nodes |-> shut[n] \ {c}]
  /\ UNCHANGED <<nodeVars, est, dialing, told, job, orders, faults, expired>>

Step(t) ==
  \/ DialTop(t) \/ DialExit(t) \/ DialAnswer(t) \/ Authorize(t) \/ Establish(t)
  \/ ReportUp(t) \/ ReadFails(t) \/ CloseSession(t) \/ Unregister(t) \/ ReportDown(t)

Next ==
  \/ \E n \in Nodes : (\E o \in Orders : SetCascadeEdges(n, o)) \/ CloseRoom(n) \/ Tick(n)
  \/ \E t \in Threads : Step(t)
  \/ \E c \in Conns : Accept(c) \/ Cut(c) \/ Forget(c)
  \/ Expire

Spec == Init /\ [][Next]_vars

\* Goroutines are scheduled, the listener accepts, the ticker ticks; nothing
\* obliges the Server to command or the network to fail.
FairSpec ==
  /\ Spec
  /\ \A t \in Threads : WF_vars(Step(t))
  /\ \A n \in Nodes : WF_vars(Tick(n))
  /\ \A c \in Conns : WF_vars(Accept(c)) /\ WF_vars(Forget(c))

-----------------------------------------------------------------------------
(* Properties                                                              *)

\* Type invariant.
TypeOK ==
  /\ epoch \in [Nodes -> Nat]
  /\ \A n \in Nodes : edge[n] # None =>
       edge[n] \in Orders /\ edge[n].endpoint # None /\ edge[n].epoch = epoch[n]
  /\ reg \in [Nodes -> Conns \cup {None}]
  /\ \A n \in Nodes : est[n] \subseteq Conns /\ shut[n] \subseteq Conns
  /\ wire \in [Conns -> {"free", "hello", "accepted", "refused", "cut"}]
  /\ dialing \in BOOLEAN /\ told \in [Nodes -> {"up", "down"}]

\* A registered session is one of the edge set in force, at its endpoint and
\* epoch: orders that replace or withdraw the edge while a handshake, a session
\* or its end is under way never leave a session of an older order behind.
RegisteredInForce ==
  \A n \in Nodes : reg[n] # None =>
    /\ edge[n] # None
    /\ held[n][reg[n]].endpoint = edge[n].endpoint /\ held[n][reg[n]].epoch = edge[n].epoch
    /\ reg[n] \in est[n]

\* Nobody is at work on the connection.
Settled(c) == \A t \in Threads : \A i \in 1..Len(job[t]) :
                job[t][i].conn # c \/ job[t][i].op = "run"

\* No session is lost sight of: one that runs on with no registration, and so
\* beyond the reach of any order, is about to be closed.
NoOrphan ==
  \A n \in Nodes, c \in Conns :
    Settled(c) /\ held[n][c] # None /\ wire[c] = "accepted" => reg[n] = c

Agreed == edge[Parent] # None /\ edge[Parent] = edge[Child]
Connected == reg[Parent] # None /\ reg[Parent] = reg[Child]

\* If both nodes hold the same edge for good, with a token whose time is not
\* over, and the dial loop is alive, they end up connected, whatever was broken,
\* refused, superseded or replaced.  (Once the token has expired the dialler is
\* refused until an order brings another one.)
Relinked ==
  <>[](Agreed /\ dialing /\ VerifyToken(edge[Parent].token)) => <>[]Connected

\* The Server ends up knowing of an edge that stays up, although the report of
\* an older session's end may overtake the report of the new session.
RefreshHeals == \A n \in Nodes : <>[](reg[n] # None) => <>[](told[n] = "up")

\* "Child edges: ensure the dial goroutine is alive" (SetCascadeEdges).  No
\* invariant: a loop that has decided to leave is still in dialing (README,
\* findings), which is why Relinked asks for it.
DialLoopAlive == edge[Child] # None /\ Idle(Control(Child)) => dialing
=============================================================================
