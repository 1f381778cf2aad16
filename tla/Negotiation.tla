---------------------------- MODULE Negotiation ----------------------------
(***************************************************************************)
(* SDP negotiation between the SFU and one client (room/participant.go).   *)
(* Any goroutine that changes the down tracks of a participant calls       *)
(* negotiate(); the flags negotiating and negPending serialise the offers  *)
(* of the SFU; the websocket loop runs HandleOffer and HandleAnswer one    *)
(* frame at a time; sigMu is held for each SDP exchange.                   *)
(*                                                                         *)
(* version counts the changes of the down tracks.  An SFU offer carries    *)
(* the version it was created at, and known is what the client has applied.*)
(*                                                                         *)
(* The client is the other party: it answers an offer in the stable state. *)
(* Caught with an offer of its own outstanding, a polite client (the       *)
(* browsers' perfect negotiation) rolls its offer back, answers, and       *)
(* offers again; the client of cmd/loadbot logs an error and goes on.      *)
(*                                                                         *)
(* An SDP exchange with the peer connection may fail, before or after it   *)
(* has changed the signaling state: the code returns, and nobody takes the *)
(* connection back to where it was.                                        *)
(***************************************************************************)
EXTENDS Naturals, Sequences, FiniteSets

CONSTANTS
  Workers,       \* doNegotiate goroutines
  MaxVersion,    \* bound: changes of the down tracks
  MaxOffers,     \* bound: negotiations the client starts
  MaxFaults,     \* bound: SDP exchanges that fail in a live connection
  Polite         \* whether the client rolls back on glare

ASSUME NegBoundAssumption ==
  MaxVersion \in Nat /\ MaxOffers \in Nat /\ MaxFaults \in Nat /\ Polite \in BOOLEAN
ASSUME WorkersAssumption == IsFiniteSet(Workers)

VARIABLES
  sig,          \* pc.SignalingState of the SFU, outside sigMu
  negotiating,  \* Participant.negotiating
  negPending,   \* Participant.negPending
  closed,       \* Participant.closed
  torn,         \* Close has closed the websocket and the peer connection
  version,      \* changes of the down tracks so far
  callers,      \* goroutines that changed tracks and are about to negotiate()
  worker,       \* where each doNegotiate goroutine is
  carried,      \* the version in the offer a worker has created
  ws,           \* where the websocket loop is
  toClient,     \* frames on the way to the client, in order
  toServer,     \* frames on the way to the SFU, in order
  cSig,         \* signaling state of the client
  cWants,       \* the client has yet to see an offer of its own through
  offers,       \* negotiations the client has started
  known,        \* version of the last SFU offer the client applied
  faults        \* exchanges that have failed

flagVars == <<negotiating, negPending>>
sfuVars == <<sig, flagVars, closed, torn, version, callers, worker, carried, ws>>
clientVars == <<cSig, cWants, offers, known>>
netVars == <<toClient, toServer>>
negVars == <<sfuVars, clientVars, netVars, faults>>

NegInit ==
  /\ sig = "stable"
  /\ negotiating = FALSE /\ negPending = FALSE /\ closed = FALSE /\ torn = FALSE
  /\ version = 0 /\ callers = 0
  /\ worker = [w \in Workers |-> "off"]
  /\ carried = [w \in Workers |-> 0]
  /\ ws = "read"
  /\ toClient = <<>> /\ toServer = <<>>
  /\ cSig = "stable" /\ cWants = FALSE /\ offers = 0 /\ known = 0 /\ faults = 0

Offer(v) == [op |-> "offer", v |-> v]
Answer(v) == [op |-> "answer", v |-> v]

\* A call of the peer connection returns an error.
Fault == faults < MaxFaults /\ faults' = faults + 1

-----------------------------------------------------------------------------
(* negotiate() and doNegotiate()                                           *)

\* Mutant: a request made while an offer is in flight is forgotten.
RequestForgotten ==
  IF negotiating
  THEN UNCHANGED <<flagVars, worker>>
  ELSE /\ negotiating' = TRUE
       /\ UNCHANGED negPending
       /\ \E w \in Workers : /\ worker[w] = "off"
                             /\ worker' = [worker EXCEPT ![w] = "start"]

\* Mutant: a second offer is started while one is in flight.
RequestAnyway ==
  /\ negotiating' = TRUE
  /\ UNCHANGED negPending
  /\ \E w \in Workers : /\ worker[w] = "off"
                        /\ worker' = [worker EXCEPT ![w] = "start"]

\* The body of negotiate() under negMu: mark pending, or start a goroutine.
RequestOffer ==
  IF negotiating
  THEN negPending' = TRUE /\ UNCHANGED <<negotiating, worker>>
  ELSE /\ negotiating' = TRUE
       /\ UNCHANGED negPending
       /\ \E w \in Workers : /\ worker[w] = "off"
                             /\ worker' = [worker EXCEPT ![w] = "start"]

\* negotiate(): nothing for a closed participant.
Negotiate == IF closed THEN UNCHANGED <<flagVars, worker>> ELSE RequestOffer

\* Another goroutine adds or removes a down track ...
ChangeTracks ==
  /\ ~closed
  /\ version < MaxVersion
  /\ version' = version + 1
  /\ callers' = callers + 1
  /\ UNCHANGED <<sig, flagVars, closed, torn, worker, carried, ws, clientVars, netVars, faults>>

\* ... and calls negotiate().
CallNegotiate ==
  /\ callers > 0
  /\ callers' = callers - 1
  /\ Negotiate
  /\ UNCHANGED <<sig, closed, torn, version, carried, ws, clientVars, netVars, faults>>

SigMuFree == ws \notin {"answering", "retrying"}

\* doNegotiate under sigMu, in a state that admits no offer.
FindUnstable(w) ==
  /\ worker[w] = "start"
  /\ SigMuFree
  /\ closed \/ sig # "stable"
  /\ worker' = [worker EXCEPT ![w] = "suspend"]
  /\ UNCHANGED <<sig, flagVars, closed, torn, version, callers, carried, ws, clientVars, netVars, faults>>

\* ... after which it leaves the negotiation to the next offer or answer.
Suspend(w) ==
  /\ worker[w] = "suspend"
  /\ negotiating' = FALSE
  /\ negPending' = TRUE
  /\ worker' = [worker EXCEPT ![w] = "off"]
  /\ UNCHANGED <<sig, closed, torn, version, callers, carried, ws, clientVars, netVars, faults>>

\* doNegotiate under sigMu: CreateOffer and SetLocalDescription.
CreateOffer(w) ==
  /\ worker[w] = "start"
  /\ SigMuFree
  /\ ~closed /\ sig = "stable"
  /\ sig' = "haveLocalOffer"
  /\ carried' = [carried EXCEPT ![w] = version]
  /\ worker' = [worker EXCEPT ![w] = "send"]
  /\ UNCHANGED <<flagVars, closed, torn, version, callers, ws, clientVars, netVars, faults>>

\* CreateOffer or SetLocalDescription fails, because Close has passed the first
\* test by and closed the peer connection or for another reason: the request is
\* forgotten, and the connection may wait for the answer to an unsent offer.
OfferFails(w) ==
  /\ worker[w] = "start"
  /\ SigMuFree
  /\ torn \/ (~closed /\ sig = "stable")
  /\ IF torn THEN UNCHANGED <<sig, faults>> ELSE Fault /\ sig' \in {"stable", "haveLocalOffer"}
  /\ worker' = [worker EXCEPT ![w] = "failed"]
  /\ UNCHANGED <<flagVars, closed, torn, version, callers, carried, ws, clientVars, netVars>>

\* ... in a critical section of its own.
ForgetRequest(w) ==
  /\ worker[w] = "failed"
  /\ negotiating' = FALSE
  /\ worker' = [worker EXCEPT ![w] = "off"]
  /\ UNCHANGED <<sig, negPending, closed, torn, version, callers, carried, ws, clientVars, netVars, faults>>

\* msgr.Send("offer"); its error is only logged.
SendOffer(w) ==
  /\ worker[w] = "send"
  /\ toClient' = IF torn THEN toClient ELSE Append(toClient, Offer(carried[w]))
  /\ worker' = [worker EXCEPT ![w] = "off"]
  /\ carried' = [carried EXCEPT ![w] = 0]
  /\ UNCHANGED <<sig, flagVars, closed, torn, version, callers, ws, clientVars, toServer, faults>>

-----------------------------------------------------------------------------
(* The websocket loop                                                      *)

Reads(op) == ws = "read" /\ ~torn /\ toServer # <<>> /\ Head(toServer).op = op

\* HandleOffer in a state that admits no offer: SetRemoteDescription fails, the
\* loop logs it and no answer is sent.
RefuseOffer ==
  /\ Reads("offer")
  /\ sig # "stable"
  /\ toServer' = Tail(toServer)
  /\ UNCHANGED <<sfuVars, clientVars, toClient, faults>>

\* Mutant: the answer is not set as the local description.
ApplyOfferHalfway ==
  /\ Reads("offer")
  /\ sig = "stable"
  /\ toServer' = Tail(toServer)
  /\ sig' = "haveRemoteOffer"
  /\ ws' = "answering"
  /\ UNCHANGED <<flagVars, closed, torn, version, callers, worker, carried, clientVars, toClient, faults>>

\* HandleOffer: take sigMu, apply the offer and set the answer.
ApplyOffer ==
  /\ Reads("offer")
  /\ sig = "stable"
  /\ toServer' = Tail(toServer)
  /\ ws' = "answering"
  /\ UNCHANGED <<sig, flagVars, closed, torn, version, callers, worker, carried, clientVars, toClient, faults>>

\* HandleOffer returns an error: no answer, no retry of what is pending.  Once
\* the remote description is set, a CreateAnswer or SetLocalDescription that
\* fails leaves the connection between the offer and its answer.
AnswerFails ==
  /\ Reads("offer")
  /\ sig = "stable"
  /\ Fault
  /\ toServer' = Tail(toServer)
  /\ sig' \in {"stable", "haveRemoteOffer"}
  /\ UNCHANGED <<flagVars, closed, torn, version, callers, worker, carried, ws, clientVars, toClient>>

\* retryPendingNegotiation, under negMu, still inside sigMu.
RetryPending ==
  /\ ws = "answering"
  /\ IF negPending /\ ~negotiating
     THEN negPending' = FALSE /\ ws' = "retrying"
     ELSE UNCHANGED negPending /\ ws' = "reply"
  /\ UNCHANGED <<sig, negotiating, closed, torn, version, callers, worker, carried, clientVars, netVars, faults>>

RetryNegotiate ==
  /\ ws = "retrying"
  /\ Negotiate
  /\ ws' = "reply"
  /\ UNCHANGED <<sig, closed, torn, version, callers, carried, clientVars, netVars, faults>>

\* Mutant: the loop goes on without sending the answer.
AnswerForgotten ==
  /\ ws = "reply"
  /\ ws' = "read"
  /\ UNCHANGED <<sig, flagVars, closed, torn, version, callers, worker, carried, clientVars, netVars, faults>>

\* HandleOffer has returned and released sigMu: the loop sends the answer.
SendAnswer ==
  /\ ws = "reply"
  /\ toClient' = IF torn THEN toClient ELSE Append(toClient, Answer(0))
  /\ ws' = "read"
  /\ UNCHANGED <<sig, flagVars, closed, torn, version, callers, worker, carried, clientVars, toServer, faults>>

\* HandleAnswer under sigMu: an answer nobody asked for is an error.
ApplyAnswer ==
  /\ Reads("answer")
  /\ toServer' = Tail(toServer)
  /\ sig' = IF sig = "haveLocalOffer" THEN "stable" ELSE sig
  /\ ws' = "answered"
  /\ UNCHANGED <<flagVars, closed, torn, version, callers, worker, carried, clientVars, toClient, faults>>

\* ... SetRemoteDescription refuses the answer: HandleAnswer goes on as if it
\* had not, and the connection may wait for its answer for good.
AnswerRefused ==
  /\ Reads("answer")
  /\ sig = "haveLocalOffer"
  /\ Fault
  /\ toServer' = Tail(toServer)
  /\ sig' \in {"haveLocalOffer", "stable"}
  /\ ws' = "answered"
  /\ UNCHANGED <<flagVars, closed, torn, version, callers, worker, carried, clientVars, toClient>>

\* HandleAnswer under negMu: the offer is through; was another one asked for?
FinishAnswer ==
  /\ ws = "answered"
  /\ negotiating' = FALSE
  /\ negPending' = FALSE
  /\ ws' = IF negPending THEN "again" ELSE "read"
  /\ UNCHANGED <<sig, closed, torn, version, callers, worker, carried, clientVars, netVars, faults>>

NegotiateAgain ==
  /\ ws = "again"
  /\ Negotiate
  /\ ws' = "read"
  /\ UNCHANGED <<sig, closed, torn, version, callers, carried, clientVars, netVars, faults>>

\* Participant.Close, for any reason: the flag ...
SetClosed ==
  /\ ~closed
  /\ closed' = TRUE
  /\ UNCHANGED <<sig, flagVars, torn, version, callers, worker, carried, ws, clientVars, netVars, faults>>

\* ... then the websocket and the peer connection; until then the loop and the
\* goroutines that passed the flag by go on.
TearDown ==
  /\ closed /\ ~torn
  /\ torn' = TRUE
  /\ UNCHANGED <<sig, flagVars, closed, version, callers, worker, carried, ws, clientVars, netVars, faults>>

-----------------------------------------------------------------------------
(* The client                                                              *)

\* The client starts a negotiation: on ready, or to publish a track.
ClientWants ==
  /\ ~cWants
  /\ offers < MaxOffers
  /\ offers' = offers + 1
  /\ cWants' = TRUE
  /\ UNCHANGED <<sfuVars, cSig, known, netVars, faults>>

ClientOffer ==
  /\ cWants /\ cSig = "stable"
  /\ cSig' = "haveLocalOffer"
  /\ toServer' = Append(toServer, Offer(0))
  /\ UNCHANGED <<sfuVars, cWants, offers, known, toClient, faults>>

Receives(op) == toClient # <<>> /\ Head(toClient).op = op

\* The answer to its offer; one that comes after a rollback is an error.
ClientAnswered ==
  /\ Receives("answer")
  /\ toClient' = Tail(toClient)
  /\ cWants' = (cWants /\ cSig = "stable")
  /\ cSig' = "stable"
  /\ UNCHANGED <<sfuVars, offers, known, toServer, faults>>

\* An SFU offer: answered in the stable state, or after rolling the client's own
\* offer back; otherwise "set remote offer failed", and the client goes on.
ClientGetsOffer ==
  /\ Receives("offer")
  /\ toClient' = Tail(toClient)
  /\ IF cSig = "stable" \/ Polite
     THEN /\ toServer' = Append(toServer, Answer(Head(toClient).v))
          /\ cSig' = "stable"
          /\ known' = Head(toClient).v
     ELSE UNCHANGED <<toServer, cSig, known>>
  /\ UNCHANGED <<sfuVars, cWants, offers, faults>>

-----------------------------------------------------------------------------
Loop ==
  \/ RefuseOffer \/ ApplyOffer \/ AnswerFails \/ RetryPending \/ RetryNegotiate \/ SendAnswer
  \/ ApplyAnswer \/ AnswerRefused \/ FinishAnswer \/ NegotiateAgain

DoNegotiate(w) ==
  \/ FindUnstable(w) \/ Suspend(w) \/ CreateOffer(w) \/ OfferFails(w) \/ ForgetRequest(w) \/ SendOffer(w)

Client == ClientOffer \/ ClientAnswered \/ ClientGetsOffer

\* Nothing is under way: the client may stay silent and the room unchanged.
AtRest ==
  /\ callers = 0 /\ ws = "read" /\ \A w \in Workers : worker[w] = "off"
  /\ torn \/ (~closed /\ toClient = <<>> /\ toServer = <<>>)
  /\ UNCHANGED negVars

NegNext ==
  \/ ChangeTracks \/ CallNegotiate \/ Loop \/ SetClosed \/ TearDown
  \/ \E w \in Workers : DoNegotiate(w)
  \/ ClientWants \/ Client
  \/ AtRest

\* Goroutines run; the client reads its frames and makes its offers.
NegFairness ==
  /\ WF_negVars(CallNegotiate)
  /\ WF_negVars(Loop)
  /\ \A w \in Workers : WF_negVars(DoNegotiate(w))
  /\ WF_negVars(Client)

NegSpec == NegInit /\ [][NegNext]_negVars
NegFairSpec == NegSpec /\ NegFairness

-----------------------------------------------------------------------------
(* Properties                                                              *)

Count(s, op) == Cardinality({i \in DOMAIN s : s[i].op = op})

\* Type invariant.  Whoever holds sigMu gives it back with the connection
\* stable or waiting for an answer; between an offer and its answer only if
\* HandleOffer has returned an error there.
NegTypeOK ==
  /\ sig \in {"stable", "haveLocalOffer"} \cup (IF faults = 0 THEN {} ELSE {"haveRemoteOffer"})
  /\ cSig \in {"stable", "haveLocalOffer"}
  /\ negotiating \in BOOLEAN /\ negPending \in BOOLEAN /\ closed \in BOOLEAN /\ torn \in BOOLEAN
  /\ version \in 0..MaxVersion /\ known \in 0..MaxVersion /\ callers \in 0..MaxVersion
  /\ worker \in [Workers -> {"off", "start", "suspend", "failed", "send"}]
  /\ carried \in [Workers -> 0..MaxVersion]
  /\ ws \in {"read", "answering", "retrying", "reply", "answered", "again"}
  /\ cWants \in BOOLEAN /\ offers \in 0..MaxOffers /\ faults \in 0..MaxFaults
  /\ toClient \in Seq([op : {"offer", "answer"}, v : 0..MaxVersion])
  /\ toServer \in Seq([op : {"offer", "answer"}, v : 0..MaxVersion])

\* The SFU never has two offers outstanding, whatever fails: counted from the
\* goroutine that will create one to the answer that is being applied there is
\* at most one, and it is the one negotiating stands for.  With a client that
\* answers every offer negotiating is not left set without one; and as long as
\* no exchange has failed the peer connection waits for an answer only while
\* negotiating is set.  (After a refused answer it may do so for good.)
OneOfferOutstanding ==
  LET inFlight == Cardinality({w \in Workers : worker[w] # "off"})
                  + Count(toClient, "offer") + Count(toServer, "answer")
                  + (IF ws = "answered" THEN 1 ELSE 0)
  IN  ~closed => /\ inFlight <= 1
                 /\ inFlight = 1 => negotiating
                 /\ negotiating /\ Polite => inFlight = 1
                 /\ sig # "stable" => negotiating \/ faults > 0

\* Every change of the down tracks reaches the client in some SFU offer,
\* whatever requests, offers of the client and answers crossed it, unless an
\* exchange has failed: a failed CreateOffer forgets the request, and after a
\* refused answer every further negotiation is suspended.
ChangesReachClient == <>[](closed \/ faults > 0 \/ known = version)

\* A negotiation the client starts comes to an end, unless an exchange fails.
ClientOfferSettles == cWants ~> (closed \/ faults > 0 \/ ~cWants)
=============================================================================
