----------------------------- MODULE RoomProofs -----------------------------
(***************************************************************************)
(* A participant of a room.  SDP negotiation, for every number of          *)
(* goroutines, track changes and client offers, and for a client of either *)
(* kind: the flags negotiating and negPending let one offer of the SFU out *)
(* at a time, whichever exchanges fail.  Audio forwarding, for every set   *)
(* of participants and publishers and all bounds: nobody misses the down   *)
(* track of a publisher's first track, a publisher with the room to itself *)
(* is heard by exactly those that should hear it, and one whose right to   *)
(* publish is revoked falls silent.                                        *)
(***************************************************************************)
EXTENDS Negotiation, Forwarding, FiniteSetTheorems, SequenceTheorems, TLAPS

-----------------------------------------------------------------------------
(* Negotiation: counting frames and goroutines                             *)

Frames == [op : {"offer", "answer"}, v : 0..MaxVersion]

LEMMA FrameTyped ==
  ASSUME NEW v \in 0..MaxVersion
  PROVE  /\ Offer(v) \in Frames /\ Offer(v).op = "offer"
         /\ Answer(v) \in Frames /\ Answer(v).op = "answer"
BY DEF Frames, Offer, Answer

LEMMA CountType ==
  ASSUME NEW s \in Seq(Frames), NEW op
  PROVE  IsFiniteSet({i \in DOMAIN s : s[i].op = op}) /\ Count(s, op) \in Nat
<1>1. DOMAIN s = 1..Len(s) /\ Len(s) \in Nat
  BY LenProperties
<1>2. IsFiniteSet(1..Len(s))
  BY <1>1, FS_Interval
<1>3. IsFiniteSet({i \in DOMAIN s : s[i].op = op})
  BY <1>1, <1>2, FS_Subset
<1> QED
  BY <1>3, FS_CardinalityType DEF Count

\* A frame sent counts once more for its kind.
LEMMA CountSent ==
  ASSUME NEW s \in Seq(Frames), NEW e \in Frames, NEW op
  PROVE  Count(Append(s, e), op) = IF e.op = op THEN Count(s, op) + 1 ELSE Count(s, op)
<1> DEFINE t == Append(s, e)
           S == {i \in DOMAIN s : s[i].op = op}
           T == {i \in DOMAIN t : t[i].op = op}
           n == Len(s) + 1
<1>1. /\ DOMAIN s = 1..Len(s) /\ Len(s) \in Nat /\ DOMAIN t = 1..n
      /\ \A i \in 1..Len(s) : t[i] = s[i]
      /\ t[n] = e
  BY AppendProperties, LenProperties
<1>2. IsFiniteSet(S)
  BY CountType
<1> HIDE DEF t
<1>3. n \notin S /\ \A i \in 1..n : i \in 1..Len(s) \/ i = n
  BY <1>1
<1>4. (1..Len(s)) \subseteq 1..n /\ n \in 1..n
  BY <1>1
<1>5. CASE e.op = op
  <2>1. T = S \cup {n}
    BY <1>1, <1>3, <1>4, <1>5
  <2>2. Cardinality(S \cup {n}) = Cardinality(S) + 1
    BY <1>2, <1>3, FS_AddElement
  <2> QED
    BY <1>5, <2>1, <2>2 DEF Count, t
<1>6. CASE e.op # op
  <2>1. T = S
    BY <1>1, <1>3, <1>4, <1>6
  <2> QED
    BY <1>6, <2>1 DEF Count, t
<1> QED
  BY <1>5, <1>6

\* A frame read counts once less for its kind.
LEMMA CountRead ==
  ASSUME NEW s \in Seq(Frames), s # <<>>, NEW op
  PROVE  Count(s, op) = IF Head(s).op = op THEN Count(Tail(s), op) + 1 ELSE Count(Tail(s), op)
<1> DEFINE t == Tail(s)
           S == {i \in DOMAIN s : s[i].op = op}
           T == {i \in DOMAIN t : t[i].op = op}
           U == {i \in 2..Len(s) : s[i].op = op}
           f == [i \in T |-> i + 1]
<1>1. /\ t \in Seq(Frames) /\ Len(t) = Len(s) - 1 /\ Head(s) = s[1]
      /\ \A i \in 1..Len(t) : t[i] = s[i + 1]
      /\ Len(s) \in Nat \ {0}
      /\ DOMAIN s = 1..Len(s) /\ DOMAIN t = 1..Len(t)
  BY HeadTailProperties, LenProperties, EmptySeq
<1>2. IsFiniteSet(T)
  BY <1>1, CountType
<1> HIDE DEF t
<1>3. f \in [T -> U]
  <2> SUFFICES ASSUME NEW i \in T PROVE i + 1 \in U
    OBVIOUS
  <2>1. i \in 1..Len(t) /\ t[i].op = op
    BY <1>1
  <2> QED
    BY <1>1, <2>1
<1>4. IsInjective(f)
  BY <1>1 DEF IsInjective
<1>5. \A u \in U : \E i \in T : f[i] = u
  <2> TAKE u \in U
  <2>1. u - 1 \in 1..Len(t) /\ (u - 1) + 1 = u
    BY <1>1
  <2>2. t[u - 1] = s[u]
    BY <1>1, <2>1
  <2>3. u - 1 \in T /\ f[u - 1] = u
    BY <1>1, <2>1, <2>2
  <2> QED
    BY <2>3
<1>6. ExistsBijection(T, U)
  <2> HIDE DEF f, T, U
  <2> QED
    BY <1>3, <1>4, <1>5 DEF ExistsBijection, Bijection, Injection, Surjection
<1>7. IsFiniteSet(U) /\ Cardinality(U) = Cardinality(T)
  BY <1>2, <1>6, FS_Bijection
<1>8. 1 \notin U /\ 1 \in 1..Len(s) /\ \A i \in 1..Len(s) : i = 1 \/ i \in 2..Len(s)
  BY <1>1
<1>9. (2..Len(s)) \subseteq 1..Len(s)
  BY <1>1
<1>10. CASE Head(s).op = op
  <2>1. S = U \cup {1}
    BY <1>1, <1>8, <1>9, <1>10
  <2>2. Cardinality(U \cup {1}) = Cardinality(U) + 1
    BY <1>7, <1>8, FS_AddElement
  <2> QED
    BY <1>7, <1>10, <2>1, <2>2 DEF Count, t
<1>11. CASE Head(s).op # op
  <2>1. S = U
    BY <1>1, <1>8, <1>9, <1>11
  <2> QED
    BY <1>7, <1>11, <2>1 DEF Count, t
<1> QED
  BY <1>10, <1>11

\* The goroutines that have not ended.
AtWork == {w \in Workers : worker[w] # "off"}

LEMMA AtWorkType == IsFiniteSet(AtWork) /\ Cardinality(AtWork) \in Nat
<1>1. IsFiniteSet(AtWork)
  BY WorkersAssumption, FS_Subset DEF AtWork
<1> QED
  BY <1>1, FS_CardinalityType

\* A goroutine starts, goes on or ends.
LEMMA WorkerMoves ==
  ASSUME NegTypeOK, NEW w \in Workers, NEW x \in {"off", "start", "suspend", "failed", "send"},
         worker' = [worker EXCEPT ![w] = x]
  PROVE  /\ worker[w] = "off" /\ x # "off" => Cardinality(AtWork') = Cardinality(AtWork) + 1
         /\ worker[w] # "off" /\ x # "off" => Cardinality(AtWork') = Cardinality(AtWork)
         /\ worker[w] # "off" /\ x = "off" =>
              Cardinality(AtWork') = Cardinality(AtWork) - 1 /\ Cardinality(AtWork) > 0
<1>1. \A v \in Workers : worker'[v] = IF v = w THEN x ELSE worker[v]
  BY DEF NegTypeOK
<1>2. CASE worker[w] = "off" /\ x # "off"
  <2>1. AtWork' = AtWork \cup {w} /\ w \notin AtWork
    BY <1>1, <1>2 DEF AtWork
  <2> QED
    BY <1>2, <2>1, AtWorkType, FS_AddElement
<1>3. CASE worker[w] # "off" /\ x # "off"
  <2>1. AtWork' = AtWork
    BY <1>1, <1>3 DEF AtWork
  <2> QED
    BY <1>3, <2>1
<1>4. CASE worker[w] # "off" /\ x = "off"
  <2>1. AtWork' = AtWork \ {w} /\ w \in AtWork
    BY <1>1, <1>4 DEF AtWork
  <2>2. Cardinality(AtWork') = Cardinality(AtWork) - 1 /\ IsFiniteSet(AtWork')
    BY <2>1, AtWorkType, FS_RemoveElement
  <2>3. Cardinality(AtWork') \in Nat
    BY <2>2, FS_CardinalityType
  <2> QED
    BY <1>4, <2>2, <2>3, AtWorkType
<1> QED
  BY <1>2, <1>3, <1>4

-----------------------------------------------------------------------------
(* The inductive invariant                                                 *)

InFlight ==
  Cardinality(AtWork) + Count(toClient, "offer") + Count(toServer, "answer")
  + (IF ws = "answered" THEN 1 ELSE 0)

\* Whoever changed a track calls negotiate() once.
Called == callers <= version

\* A goroutine that has yet to create its offer finds the connection stable, so
\* that it never has to suspend.
Smooth ==
  /\ sig # "stable" => negotiating
  /\ \A w \in Workers : worker[w] \notin {"suspend", "failed"} /\ (worker[w] = "start" => sig = "stable")
  /\ ws = "answered" => sig = "stable"

\* Until the participant is closed, an offer under way is the one negotiating
\* stands for, and until an exchange fails negotiation goes smoothly.
OneAtATime ==
  /\ InFlight <= 1
  /\ InFlight = 1 => negotiating
  /\ negotiating /\ Polite => InFlight = 1
  /\ faults = 0 => Smooth

NegInv == NegTypeOK /\ Called /\ (torn => closed) /\ (~closed => OneAtATime)

-----------------------------------------------------------------------------
(* Types                                                                   *)

LEMMA NegotiateTyped ==
  ASSUME NegTypeOK, Negotiate
  PROVE  /\ negotiating' \in BOOLEAN /\ negPending' \in BOOLEAN
         /\ worker' \in [Workers -> {"off", "start", "suspend", "failed", "send"}]
<1>1. CASE closed \/ negotiating
  BY <1>1 DEF NegTypeOK, Negotiate, RequestOffer, flagVars
<1>2. CASE ~closed /\ ~negotiating
  BY <1>2 DEF NegTypeOK, Negotiate, RequestOffer
<1> QED
  BY <1>1, <1>2

LEMMA TypeStep == NegTypeOK /\ Called /\ [NegNext]_negVars => NegTypeOK' /\ Called'
<1> SUFFICES ASSUME NegTypeOK, Called, [NegNext]_negVars PROVE NegTypeOK' /\ Called'
  OBVIOUS
<1> USE NegBoundAssumption
<1>0. /\ toClient \in Seq(Frames) /\ toServer \in Seq(Frames)
      /\ version \in 0..MaxVersion /\ callers \in 0..MaxVersion
      /\ carried \in [Workers -> 0..MaxVersion] /\ 0 \in 0..MaxVersion
  BY DEF NegTypeOK, Frames
<1>1. CASE ChangeTracks
  <2>1. version' \in 0..MaxVersion /\ callers' \in 0..MaxVersion /\ callers' <= version'
    BY <1>0, <1>1 DEF ChangeTracks, Called
  <2> QED
    BY <1>1, <2>1 DEF ChangeTracks, NegTypeOK, Called, flagVars, clientVars, netVars
<1>2. CASE CallNegotiate
  <2>1. callers' \in 0..MaxVersion /\ callers' <= version /\ version' = version
    BY <1>0, <1>2 DEF CallNegotiate, Called
  <2> QED
    BY <1>2, <2>1, NegotiateTyped DEF CallNegotiate, NegTypeOK, Called, clientVars, netVars
<1>3. CASE RefuseOffer
  <2>1. toServer' \in Seq(Frames)
    BY <1>0, <1>3, HeadTailProperties DEF RefuseOffer, Reads
  <2> QED
    BY <1>3, <2>1 DEF RefuseOffer, NegTypeOK, Called, Frames, sfuVars, flagVars, clientVars
<1>4. CASE ApplyOffer
  <2>1. toServer' \in Seq(Frames)
    BY <1>0, <1>4, HeadTailProperties DEF ApplyOffer, Reads
  <2> QED
    BY <1>4, <2>1 DEF ApplyOffer, NegTypeOK, Called, Frames, flagVars, clientVars
<1>23. CASE AnswerFails
  <2>1. toServer' \in Seq(Frames)
    BY <1>0, <1>23, HeadTailProperties DEF AnswerFails, Reads
  <2>2. faults' \in 0..MaxFaults /\ faults' # 0
    BY <1>23 DEF AnswerFails, Fault, NegTypeOK
  <2> QED
    BY <1>23, <2>1, <2>2 DEF AnswerFails, NegTypeOK, Called, Frames, flagVars, clientVars
<1>24. CASE AnswerRefused
  <2>1. toServer' \in Seq(Frames)
    BY <1>0, <1>24, HeadTailProperties DEF AnswerRefused, Reads
  <2>2. faults' \in 0..MaxFaults
    BY <1>24 DEF AnswerRefused, Fault, NegTypeOK
  <2> QED
    BY <1>24, <2>1, <2>2 DEF AnswerRefused, NegTypeOK, Called, Frames, flagVars, clientVars
<1>5. CASE RetryPending
  BY <1>5 DEF RetryPending, NegTypeOK, Called, clientVars, netVars
<1>6. CASE RetryNegotiate
  BY <1>6, NegotiateTyped DEF RetryNegotiate, NegTypeOK, Called, clientVars, netVars
<1>7. CASE SendAnswer
  <2>1. toClient' \in Seq(Frames)
    BY <1>0, <1>7, FrameTyped, AppendProperties DEF SendAnswer
  <2> QED
    BY <1>7, <2>1 DEF SendAnswer, NegTypeOK, Called, Frames, flagVars, clientVars
<1>8. CASE ApplyAnswer
  <2>1. toServer' \in Seq(Frames)
    BY <1>0, <1>8, HeadTailProperties DEF ApplyAnswer, Reads
  <2> QED
    BY <1>8, <2>1 DEF ApplyAnswer, NegTypeOK, Called, Frames, flagVars, clientVars
<1>9. CASE FinishAnswer
  BY <1>9 DEF FinishAnswer, NegTypeOK, Called, clientVars, netVars
<1>10. CASE NegotiateAgain
  BY <1>10, NegotiateTyped DEF NegotiateAgain, NegTypeOK, Called, clientVars, netVars
<1>11. CASE SetClosed
  BY <1>11 DEF SetClosed, NegTypeOK, Called, flagVars, clientVars, netVars
<1>12. CASE TearDown
  BY <1>12 DEF TearDown, NegTypeOK, Called, flagVars, clientVars, netVars
<1>13. ASSUME NEW w \in Workers, FindUnstable(w) PROVE NegTypeOK' /\ Called'
  BY <1>13 DEF FindUnstable, NegTypeOK, Called, flagVars, clientVars, netVars
<1>14. ASSUME NEW w \in Workers, Suspend(w) PROVE NegTypeOK' /\ Called'
  BY <1>14 DEF Suspend, NegTypeOK, Called, clientVars, netVars
<1>15. ASSUME NEW w \in Workers, CreateOffer(w) PROVE NegTypeOK' /\ Called'
  BY <1>15 DEF CreateOffer, NegTypeOK, Called, flagVars, clientVars, netVars
<1>16. ASSUME NEW w \in Workers, OfferFails(w) PROVE NegTypeOK' /\ Called'
  <2>1. faults' \in 0..MaxFaults /\ sig' \in {"stable", "haveLocalOffer", sig} /\ (faults' = 0 => faults = 0)
    BY <1>16 DEF OfferFails, Fault, NegTypeOK
  <2> QED
    BY <1>16, <2>1 DEF OfferFails, NegTypeOK, Called, flagVars, clientVars, netVars
<1>25. ASSUME NEW w \in Workers, ForgetRequest(w) PROVE NegTypeOK' /\ Called'
  BY <1>25 DEF ForgetRequest, NegTypeOK, Called, clientVars, netVars
<1>17. ASSUME NEW w \in Workers, SendOffer(w) PROVE NegTypeOK' /\ Called'
  <2>1. toClient' \in Seq(Frames)
    BY <1>0, <1>17, FrameTyped, AppendProperties DEF SendOffer
  <2>2. carried' \in [Workers -> 0..MaxVersion]
    BY <1>0, <1>17 DEF SendOffer
  <2> QED
    BY <1>17, <2>1, <2>2 DEF SendOffer, NegTypeOK, Called, Frames, flagVars, clientVars
<1>18. CASE ClientWants
  BY <1>18 DEF ClientWants, NegTypeOK, Called, sfuVars, flagVars, netVars
<1>19. CASE ClientOffer
  <2>1. toServer' \in Seq(Frames)
    BY <1>0, <1>19, FrameTyped, AppendProperties DEF ClientOffer
  <2> QED
    BY <1>19, <2>1 DEF ClientOffer, NegTypeOK, Called, Frames, sfuVars, flagVars
<1>20. CASE ClientAnswered
  <2>1. toClient' \in Seq(Frames)
    BY <1>0, <1>20, HeadTailProperties DEF ClientAnswered, Receives
  <2> QED
    BY <1>20, <2>1 DEF ClientAnswered, NegTypeOK, Called, Frames, sfuVars, flagVars
<1>21. CASE ClientGetsOffer
  <2>1. Head(toClient) \in Frames /\ toClient' \in Seq(Frames)
    BY <1>0, <1>21, HeadTailProperties DEF ClientGetsOffer, Receives
  <2>2. Head(toClient).v \in 0..MaxVersion
    BY <2>1 DEF Frames
  <2>3. Append(toServer, Answer(Head(toClient).v)) \in Seq(Frames)
    BY <1>0, <2>2, FrameTyped, AppendProperties
  <2>4. toServer' \in Seq(Frames) /\ known' \in 0..MaxVersion /\ cSig' \in {"stable", "haveLocalOffer"}
    BY <1>0, <1>21, <2>2, <2>3 DEF ClientGetsOffer, NegTypeOK
  <2> QED
    BY <1>21, <2>1, <2>4 DEF ClientGetsOffer, NegTypeOK, Called, Frames, sfuVars, flagVars
<1>22. CASE UNCHANGED negVars
  BY <1>22 DEF negVars, sfuVars, flagVars, clientVars, netVars, NegTypeOK, Called
<1> QED
  BY <1>1, <1>2, <1>3, <1>4, <1>5, <1>6, <1>7, <1>8, <1>9, <1>10, <1>11, <1>12, <1>13, <1>14,
     <1>15, <1>16, <1>17, <1>18, <1>19, <1>20, <1>21, <1>22, <1>23, <1>24, <1>25
     DEF NegNext, Loop, DoNegotiate, Client, AtRest

LEMMA TypeInit == NegInit => NegTypeOK /\ Called
<1> SUFFICES ASSUME NegInit PROVE NegTypeOK /\ Called
  OBVIOUS
<1>1. <<>> \in Seq([op : {"offer", "answer"}, v : 0..MaxVersion])
  BY EmptySeq
<1>2. /\ version \in 0..MaxVersion /\ known \in 0..MaxVersion /\ callers \in 0..MaxVersion
      /\ offers \in 0..MaxOffers /\ faults \in 0..MaxFaults /\ callers <= version /\ carried \in [Workers -> 0..MaxVersion]
  BY NegBoundAssumption DEF NegInit
<1>3. /\ negotiating \in BOOLEAN /\ negPending \in BOOLEAN /\ closed \in BOOLEAN /\ torn \in BOOLEAN
      /\ cWants \in BOOLEAN /\ worker \in [Workers -> {"off", "start", "suspend", "failed", "send"}]
  BY DEF NegInit
<1> QED
  BY <1>1, <1>2, <1>3 DEF NegInit, NegTypeOK, Called

\* The flags, the frames and the states of both peer connections keep their
\* types; outside sigMu the SFU's is stable or waiting for an answer, and
\* between an offer and its answer only after an exchange that failed.
THEOREM NegTypeCorrect == NegSpec => []NegTypeOK
BY TypeInit, TypeStep, PTL DEF NegSpec

-----------------------------------------------------------------------------
(* One offer at a time                                                     *)

\* While no two offers are under way, no two goroutines are.
LEMMA OnlyOne ==
  ASSUME NegTypeOK, NEW w \in Workers, worker[w] # "off", Cardinality(AtWork) <= 1
  PROVE  Cardinality(AtWork) = 1 /\ AtWork = {w}
<1>1. {w} \subseteq AtWork
  BY DEF AtWork
<1>2. IsFiniteSet({w}) /\ Cardinality({w}) = 1
  BY FS_Singleton
<1>3. Cardinality({w}) <= Cardinality(AtWork) /\ (Cardinality(AtWork) = Cardinality({w}) => AtWork = {w})
  BY <1>1, AtWorkType, FS_Subset
<1> QED
  BY <1>2, <1>3, AtWorkType

\* What the counts and the flags say before a step of an open participant.
LEMMA Before ==
  ASSUME NegTypeOK, OneAtATime
  PROVE  /\ Cardinality(AtWork) \in Nat /\ Count(toClient, "offer") \in Nat
         /\ Count(toServer, "answer") \in Nat /\ InFlight \in Nat /\ Cardinality(AtWork) <= 1
         /\ ~negotiating => InFlight = 0
         /\ \A w \in Workers : worker[w] # "off" => Cardinality(AtWork) = 1 /\ AtWork = {w}
<1>1. /\ Cardinality(AtWork) \in Nat /\ Count(toClient, "offer") \in Nat
      /\ Count(toServer, "answer") \in Nat
  BY AtWorkType, CountType DEF NegTypeOK, Frames
<1>2. InFlight <= 1 /\ (InFlight = 1 => negotiating)
  BY DEF OneAtATime
<1>3. InFlight \in Nat /\ Cardinality(AtWork) <= InFlight
  BY <1>1 DEF InFlight
<1>4. Cardinality(AtWork) <= 1 /\ (~negotiating => InFlight = 0)
  BY <1>1, <1>2, <1>3
<1> QED
  BY <1>1, <1>3, <1>4, OnlyOne

\* A step that moves no token keeps the invariant.
LEMMA SameTokens ==
  ASSUME OneAtATime, UNCHANGED <<worker, negotiating, sig, faults>>,
         Count(toClient', "offer") = Count(toClient, "offer"),
         Count(toServer', "answer") = Count(toServer, "answer"),
         ws' = "answered" <=> ws = "answered"
  PROVE  OneAtATime'
<1>1. InFlight' = InFlight
  BY DEF InFlight, AtWork
<1> QED
  BY <1>1 DEF OneAtATime, Smooth

\* negotiate() starts a goroutine only when no offer is under way.
LEMMA NegotiateOne ==
  ASSUME NegTypeOK, ~closed, OneAtATime, Negotiate, UNCHANGED <<sig, toClient, toServer, faults>>,
         ws # "answered", ws' # "answered"
  PROVE  OneAtATime'
<1>1. CASE negotiating
  <2>1. UNCHANGED <<negotiating, worker>>
    BY <1>1 DEF Negotiate, RequestOffer
  <2> QED
    BY <2>1, SameTokens
<1>2. CASE ~negotiating
  <2>1. PICK w \in Workers : worker[w] = "off" /\ worker' = [worker EXCEPT ![w] = "start"]
    BY <1>2 DEF Negotiate, RequestOffer
  <2>2. negotiating' = TRUE
    BY <1>2 DEF Negotiate, RequestOffer
  <2>3. Cardinality(AtWork') = Cardinality(AtWork) + 1
    BY <2>1, WorkerMoves
  <2>4. InFlight = 0
    BY <1>2, Before DEF OneAtATime
  <2>5. InFlight' = InFlight + 1
    BY <2>3, Before DEF InFlight
  <2>6. ASSUME faults' = 0 PROVE Smooth'
    <3>1. Smooth /\ sig = "stable"
      BY <1>2, <2>6 DEF OneAtATime, Smooth
    <3>2. \A v \in Workers : worker'[v] \notin {"suspend", "failed"}
      BY <2>1, <3>1 DEF NegTypeOK, Smooth
    <3> QED
      BY <2>2, <3>1, <3>2 DEF Smooth
  <2> QED
    BY <2>2, <2>4, <2>5, <2>6 DEF OneAtATime
<1> QED
  BY <1>1, <1>2

LEMMA OneStep ==
  NegInv /\ [NegNext]_negVars => (torn => closed)' /\ (~closed => OneAtATime)'
<1> SUFFICES ASSUME NegInv, [NegNext]_negVars PROVE (torn => closed)' /\ (~closed => OneAtATime)'
  OBVIOUS
<1>a. (torn => closed)' /\ (~closed' => ~closed)
  BY DEF NegInv, NegTypeOK, NegNext, Loop, DoNegotiate, Client, AtRest, negVars, sfuVars, ChangeTracks, CallNegotiate,
     RefuseOffer, ApplyOffer, RetryPending, RetryNegotiate, SendAnswer, ApplyAnswer, FinishAnswer,
     NegotiateAgain, SetClosed, TearDown, FindUnstable, Suspend, CreateOffer, OfferFails, SendOffer,
     AnswerFails, AnswerRefused, ForgetRequest,
     ClientWants, ClientOffer, ClientAnswered, ClientGetsOffer
<1> SUFFICES ASSUME ~closed, ~closed', ~torn, OneAtATime PROVE OneAtATime'
  BY <1>a DEF NegInv
<1> DEFINE W == Cardinality(AtWork)
           O == Count(toClient, "offer")
           A == Count(toServer, "answer")
<1>0. NegTypeOK /\ toClient \in Seq(Frames) /\ toServer \in Seq(Frames) /\ 0 \in 0..MaxVersion
  BY NegBoundAssumption DEF NegInv, NegTypeOK, Frames
<1>b. /\ W \in Nat /\ O \in Nat /\ A \in Nat /\ InFlight \in Nat /\ W <= 1
      /\ ~negotiating => InFlight = 0
      /\ \A w \in Workers : worker[w] # "off" => W = 1 /\ AtWork = {w}
  BY <1>0, Before
<1>1. CASE ChangeTracks
  BY <1>1, SameTokens DEF ChangeTracks, flagVars, netVars
<1>2. CASE CallNegotiate
  <2>1. CASE ws = "answered"
    <3>1. negotiating
      BY <1>b, <2>1 DEF InFlight, OneAtATime
    <3>2. UNCHANGED <<worker, negotiating, sig, toClient, toServer, ws, faults>>
      BY <1>2, <3>1 DEF CallNegotiate, Negotiate, RequestOffer, netVars
    <3> QED
      BY <3>2, SameTokens
  <2>2. CASE ws # "answered"
    BY <1>0, <1>2, <2>2, NegotiateOne DEF CallNegotiate, netVars
  <2> QED
    BY <2>1, <2>2
<1>3. CASE RefuseOffer
  <2>1. A = Count(toServer', "answer")
    BY <1>0, <1>3, CountRead DEF RefuseOffer, Reads
  <2> QED
    BY <1>3, <2>1, SameTokens DEF RefuseOffer, sfuVars, flagVars
<1>4. CASE ApplyOffer
  <2>1. A = Count(toServer', "answer")
    BY <1>0, <1>4, CountRead DEF ApplyOffer, Reads
  <2> QED
    BY <1>4, <2>1, SameTokens DEF ApplyOffer, Reads, flagVars
<1>23. CASE AnswerFails
  <2>1. A = Count(toServer', "answer")
    BY <1>0, <1>23, CountRead DEF AnswerFails, Reads
  <2>2. InFlight' = InFlight /\ UNCHANGED negotiating
    BY <1>23, <2>1 DEF AnswerFails, InFlight, AtWork, flagVars
  <2>3. faults' # 0
    BY <1>23 DEF AnswerFails, Fault, NegInv, NegTypeOK
  <2> QED
    BY <2>2, <2>3 DEF OneAtATime
<1>5. CASE RetryPending
  BY <1>5, SameTokens DEF RetryPending, netVars
<1>6. CASE RetryNegotiate
  BY <1>0, <1>6, NegotiateOne DEF RetryNegotiate, netVars
<1>7. CASE SendAnswer
  <2>1. toClient' = Append(toClient, Answer(0)) /\ Answer(0) \in Frames /\ Answer(0).op = "answer"
    BY <1>0, <1>7, FrameTyped DEF SendAnswer
  <2>2. Count(toClient', "offer") = O
    BY <1>0, <2>1, CountSent
  <2> QED
    BY <1>7, <2>2, SameTokens DEF SendAnswer, flagVars
<1>8. CASE ApplyAnswer \/ AnswerRefused
  <2>1. /\ toServer # <<>> /\ Head(toServer).op = "answer" /\ toServer' = Tail(toServer)
        /\ ws = "read" /\ ws' = "answered" /\ UNCHANGED <<worker, negotiating, toClient>>
    BY <1>8 DEF ApplyAnswer, AnswerRefused, Reads, flagVars
  <2>2. A = Count(toServer', "answer") + 1 /\ toServer' \in Seq(Frames)
    BY <1>0, <2>1, CountRead, HeadTailProperties
  <2>3. Count(toServer', "answer") \in Nat
    BY <2>2, CountType
  <2>4. InFlight' = InFlight
    BY <1>b, <2>1, <2>2, <2>3 DEF InFlight, AtWork
  <2>6. ASSUME faults' = 0 PROVE Smooth'
    <3>1. faults = 0 /\ ApplyAnswer
      BY <1>0, <1>8, <2>6 DEF ApplyAnswer, AnswerRefused, Fault, NegTypeOK
    <3>2. sig' = "stable" /\ Smooth
      BY <1>0, <3>1 DEF ApplyAnswer, NegTypeOK, OneAtATime
    <3> QED
      BY <2>1, <3>2 DEF Smooth
  <2> QED
    BY <2>1, <2>4, <2>6 DEF OneAtATime
<1>9. CASE FinishAnswer
  <2>1. /\ ws = "answered" /\ ws' # "answered" /\ negotiating' = FALSE
        /\ UNCHANGED <<sig, worker, toClient, toServer, faults>>
    BY <1>9 DEF FinishAnswer, netVars
  <2>2. W + O + A + 1 <= 1
    BY <2>1 DEF InFlight, OneAtATime
  <2>3. W = 0 /\ O = 0 /\ A = 0
    BY <1>b, <2>2
  <2>4. InFlight' = 0
    BY <2>1, <2>3 DEF InFlight, AtWork
  <2> QED
    BY <2>1, <2>4 DEF OneAtATime, Smooth
<1>10. CASE NegotiateAgain
  BY <1>0, <1>10, NegotiateOne DEF NegotiateAgain, netVars
<1>11. CASE SetClosed
  BY <1>11 DEF SetClosed
<1>12. CASE TearDown
  BY <1>12 DEF TearDown
<1>13. ASSUME NEW w \in Workers, FindUnstable(w) PROVE OneAtATime'
  <2>1. /\ worker[w] = "start" /\ worker' = [worker EXCEPT ![w] = "suspend"]
        /\ sig # "stable" /\ UNCHANGED <<negotiating, ws, toClient, toServer, faults>>
    BY <1>13 DEF FindUnstable, flagVars, netVars
  <2>2. Cardinality(AtWork') = W
    BY <1>0, <2>1, WorkerMoves
  <2>3. InFlight' = InFlight
    BY <2>1, <2>2 DEF InFlight
  <2>4. faults # 0
    BY <2>1 DEF OneAtATime, Smooth
  <2> QED
    BY <2>1, <2>3, <2>4 DEF OneAtATime
<1>14. ASSUME NEW w \in Workers, Suspend(w) \/ ForgetRequest(w) PROVE OneAtATime'
  <2>1. /\ worker[w] \in {"suspend", "failed"} /\ worker' = [worker EXCEPT ![w] = "off"]
        /\ negotiating' = FALSE /\ UNCHANGED <<sig, ws, toClient, toServer, faults>>
    BY <1>14 DEF Suspend, ForgetRequest, netVars
  <2>2. Cardinality(AtWork') = W - 1 /\ W = 1
    BY <1>0, <1>b, <2>1, WorkerMoves
  <2>3. InFlight' = 0
    BY <1>b, <2>1, <2>2 DEF InFlight, OneAtATime
  <2>4. faults # 0
    BY <1>0, <2>1 DEF OneAtATime, Smooth, NegTypeOK
  <2> QED
    BY <2>1, <2>3, <2>4 DEF OneAtATime
<1>15. ASSUME NEW w \in Workers, CreateOffer(w) PROVE OneAtATime'
  <2>1. /\ worker[w] = "start" /\ worker' = [worker EXCEPT ![w] = "send"]
        /\ UNCHANGED <<negotiating, ws, toClient, toServer, faults>>
    BY <1>15 DEF CreateOffer, flagVars, netVars
  <2>2. Cardinality(AtWork') = W
    BY <1>0, <2>1, WorkerMoves
  <2>3. InFlight' = InFlight
    BY <2>1, <2>2 DEF InFlight
  <2>4. W = 1 /\ AtWork = {w}
    BY <1>b, <2>1
  <2>5. InFlight = 1 /\ ws # "answered"
    BY <1>b, <2>4 DEF InFlight, OneAtATime
  <2>6. \A v \in Workers : worker'[v] \notin {"suspend", "failed"} /\ worker'[v] # "start"
    BY <1>0, <2>1, <2>4 DEF NegTypeOK, AtWork
  <2> QED
    BY <2>1, <2>3, <2>5, <2>6 DEF OneAtATime, Smooth
<1>16. ASSUME NEW w \in Workers, OfferFails(w) PROVE OneAtATime'
  <2>1. /\ worker[w] = "start" /\ worker' = [worker EXCEPT ![w] = "failed"]
        /\ UNCHANGED <<negotiating, ws, toClient, toServer>> /\ faults' # 0
    BY <1>0, <1>16 DEF OfferFails, Fault, flagVars, netVars, NegTypeOK
  <2>2. Cardinality(AtWork') = W
    BY <1>0, <2>1, WorkerMoves
  <2>3. InFlight' = InFlight
    BY <2>1, <2>2 DEF InFlight
  <2> QED
    BY <2>1, <2>3 DEF OneAtATime
<1>17. ASSUME NEW w \in Workers, SendOffer(w) PROVE OneAtATime'
  <2>1. /\ worker[w] = "send" /\ worker' = [worker EXCEPT ![w] = "off"]
        /\ toClient' = Append(toClient, Offer(carried[w]))
        /\ UNCHANGED <<negotiating, sig, ws, toServer, faults>>
    BY <1>17 DEF SendOffer, flagVars
  <2>2. Cardinality(AtWork') = W - 1
    BY <1>0, <2>1, WorkerMoves
  <2>3. carried[w] \in 0..MaxVersion
    BY <1>0 DEF NegTypeOK
  <2>4. Count(toClient', "offer") = O + 1
    BY <1>0, <2>1, <2>3, FrameTyped, CountSent
  <2>5. InFlight' = InFlight
    BY <1>b, <2>1, <2>2, <2>4 DEF InFlight
  <2>6. faults' = 0 => \A v \in Workers : worker'[v] \notin {"suspend", "failed"} /\ (worker'[v] = "start" => sig = "stable")
    BY <1>0, <2>1 DEF NegTypeOK, OneAtATime, Smooth
  <2> QED
    BY <2>1, <2>5, <2>6 DEF OneAtATime, Smooth
<1>18. CASE ClientWants
  BY <1>18, SameTokens DEF ClientWants, sfuVars, flagVars, netVars
<1>19. CASE ClientOffer
  <2>1. Count(toServer', "answer") = A
    BY <1>0, <1>19, FrameTyped, CountSent DEF ClientOffer
  <2> QED
    BY <1>19, <2>1, SameTokens DEF ClientOffer, sfuVars, flagVars
<1>20. CASE ClientAnswered
  <2>1. Count(toClient', "offer") = O
    BY <1>0, <1>20, CountRead DEF ClientAnswered, Receives
  <2> QED
    BY <1>20, <2>1, SameTokens DEF ClientAnswered, sfuVars, flagVars
<1>21. CASE ClientGetsOffer
  <2> DEFINE x == Head(toClient)
  <2>1. /\ toClient # <<>> /\ x.op = "offer" /\ toClient' = Tail(toClient)
        /\ UNCHANGED <<worker, negotiating, sig, ws, faults>>
    BY <1>21 DEF ClientGetsOffer, Receives, sfuVars, flagVars
  <2>2. O = Count(toClient', "offer") + 1
    BY <1>0, <2>1, CountRead
  <2>3. x \in Frames /\ toClient' \in Seq(Frames)
    BY <1>0, <2>1, HeadTailProperties
  <2>4. Count(toClient', "offer") \in Nat /\ x.v \in 0..MaxVersion
    BY <2>3, CountType DEF Frames
  <2>5. InFlight = 1 /\ negotiating
    BY <1>b, <2>2, <2>4 DEF InFlight, OneAtATime
  <2>6. CASE cSig = "stable" \/ Polite
    <3>1. toServer' = Append(toServer, Answer(x.v))
      BY <1>21, <2>6 DEF ClientGetsOffer
    <3>2. Count(toServer', "answer") = A + 1
      BY <1>0, <2>4, <3>1, FrameTyped, CountSent
    <3>3. InFlight' = InFlight
      BY <1>b, <2>1, <2>2, <2>4, <3>2 DEF InFlight, AtWork
    <3> QED
      BY <2>1, <3>3 DEF OneAtATime, Smooth
  <2>7. CASE ~(cSig = "stable" \/ Polite)
    <3>1. toServer' = toServer
      BY <1>21, <2>7 DEF ClientGetsOffer
    <3>2. InFlight' = 0
      BY <1>b, <2>1, <2>2, <2>4, <2>5, <3>1 DEF InFlight, AtWork
    <3> QED
      BY <2>1, <2>5, <2>7, <3>2 DEF OneAtATime, Smooth
  <2> QED
    BY <2>6, <2>7
<1>22. CASE UNCHANGED negVars
  BY <1>22, SameTokens DEF negVars, sfuVars, flagVars, netVars
<1> QED
  BY <1>1, <1>2, <1>3, <1>4, <1>5, <1>6, <1>7, <1>8, <1>9, <1>10, <1>11, <1>12, <1>13, <1>14,
     <1>15, <1>16, <1>17, <1>18, <1>19, <1>20, <1>21, <1>22, <1>23
     DEF NegNext, Loop, DoNegotiate, Client, AtRest

LEMMA InvInit == NegInit => NegInv
<1> SUFFICES ASSUME NegInit PROVE NegInv
  OBVIOUS
<1>1. AtWork = {} /\ DOMAIN <<>> = {}
  BY EmptySeq DEF NegInit, AtWork
<1>2. Cardinality(AtWork) = 0 /\ Count(<<>>, "offer") = 0 /\ Count(<<>>, "answer") = 0
  BY <1>1, FS_EmptySet DEF Count
<1>3. InFlight = 0
  BY <1>2 DEF NegInit, InFlight
<1>4. OneAtATime /\ (torn => closed)
  BY <1>3 DEF NegInit, OneAtATime, Smooth
<1> QED
  BY <1>4, TypeInit DEF NegInv

\* NegSpec keeps NegInv: a participant that is not closed has one token, from the
\* goroutine that will create an offer to the answer that is being applied.
THEOREM NegInvariant == NegSpec => []NegInv
<1>1. NegInv /\ [NegNext]_negVars => NegInv'
  BY TypeStep, OneStep DEF NegInv
<1> QED
  BY <1>1, InvInit, PTL DEF NegSpec

\* The SFU has at most one offer outstanding, from the goroutine that will
\* create it to the answer being applied, whatever requests, offers of the
\* client and answers cross it, whichever exchanges with the peer connection
\* fail, and however the client treats glare.
THEOREM OneOffer == NegSpec => []OneOfferOutstanding
<1>1. NegInv => OneOfferOutstanding
  BY DEF NegInv, NegTypeOK, OneAtATime, Smooth, InFlight, AtWork, OneOfferOutstanding
<1> QED
  BY <1>1, NegInvariant, PTL

-----------------------------------------------------------------------------
(* Audio forwarding: what is under way in a room                           *)

Dts == Publishers \X Parts \X (Nat \ {0})
PairOps == {"ensure", "create", "remove", "follow"}
PubOps == {"rebuild", "attach", "detach", "announce"}
TaskOps == {"attachPubs", "unlist", "trackEnded", "publishLost", "publishGained", "subscribeLost", "rebuildAll"}
Steps == [op : PairOps, pub : Parts, sub : Parts]
         \cup [op : PubOps, pub : Parts]
         \cup [op : TaskOps, p : Parts]
         \cup [op : {"apply"}, pub : Parts, sub : Parts, want : BOOLEAN]
         \cup [op : {"collect"}, pub : Parts, may : BOOLEAN, rest : SUBSET Parts, list : SUBSET Dts]

Members(s) == {s[i] : i \in 1..Len(s)}
Left(t) == Members(job[t])
Todo == UNION {Left(t) : t \in Threads}

Types ==
  /\ life \in [Parts -> {"out", "in", "connected", "closed", "left"}]
  /\ caps \in [Parts -> SUBSET Caps] /\ unsub \in [Parts -> SUBSET Parts]
  /\ publishing \subseteq Publishers /\ tracks \in [Parts -> 0..MaxTracks]
  /\ down \in [Parts -> [Parts -> Nat]]
  /\ bound \subseteq Dts /\ IsFiniteSet(bound)
  /\ fanout \in [Parts -> SUBSET Dts] /\ (\A p \in Parts : IsFiniteSet(fanout[p]))
  /\ job \in [Threads -> Seq(Steps)]
  /\ orders \in 0..MaxOrders /\ overlapped \in BOOLEAN
  /\ pkt \in [Parts -> {"none", "read", "passed"}] /\ held \in [Parts -> BOOLEAN]

\* The order of the steps of a goroutine: a rebuild under way and a down track
\* about to be made come first, what makes a down track is followed by a
\* rebuild, and who leaves the room has nothing else to do before.
Tidy(s) ==
  \A i \in 1..Len(s) :
    /\ s[i].op \in {"collect", "create"} => i = 1
    /\ s[i].op = "unlist" => Len(s) = 1
    /\ s[i].op \in {"ensure", "create"} =>
         \E j \in (i + 1)..Len(s) : s[j] = Rebuild(s[i].pub)

\* What the steps are about.
Apart(x) ==
  /\ x.op \in {"ensure", "create", "follow", "apply"} => x.pub # x.sub
  /\ x.op = "create" => x.pub \in Publishers
  /\ x.op = "collect" => /\ IsFiniteSet(x.list) /\ x.pub \notin x.rest
                         /\ \A dt \in x.list : dt[1] = x.pub

Regular == Types /\ \A t \in Threads : Tidy(job[t]) /\ \A x \in Left(t) : Apart(x)

\* The maps of down tracks, the connections, the fanouts and the lists of
\* rebuilds under way.
Known(x) == x.op = "collect" => \A dt \in x.list : dt[2] # x.pub /\ life[dt[2]] # "out"
Mapped ==
  /\ \A s, p \in Parts : down[s][p] # 0 =>
       /\ s # p /\ life[s] # "out"
       /\ Live(s) => <<p, s, down[s][p]>> \in bound
  /\ \A dt \in bound : dt[2] # dt[1] /\ life[dt[2]] # "out"
  /\ \A p \in Parts : \A dt \in fanout[p] : dt[1] = p /\ dt[2] # p /\ life[dt[2]] # "out"
  /\ \A x \in Todo : Known(x)

\* Nobody publishes before having joined.
Joined == \A p \in Parts : /\ p \in publishing => life[p] # "out" /\ tracks[p] >= 1
                           /\ pkt[p] # "none" => p \in publishing

-----------------------------------------------------------------------------
(* Packets                                                                 *)

Gated == \A p \in Parts : /\ pkt[p] = "passed" => held[p]
                          /\ pkt[p] = "read" /\ "publish" \in caps[p] => held[p]

-----------------------------------------------------------------------------
(* Down tracks                                                             *)

\* The end of a track may be carried out after the next one has begun, but
\* then there is a next one, and the two overlap.
First(pub) == tracks[pub] <= 1 \/ ~overlapped

Silenced(t, pub) ==
  \/ t = Control /\ life[pub] # "out" /\ "publish" \notin caps[pub]
  \/ t = <<"ended", pub>> /\ tracks[pub] >= 1 /\ (pub \in publishing => ~First(pub))
  \/ t = <<"close", pub>> /\ life[pub] = "left"
Deaf(t, sub) == t = Control /\ life[sub] # "out" /\ "subscribe" \notin caps[sub]

\* Down tracks are removed for a reason that lasts as long as the removal.
Reasons(t, x) ==
  /\ x.op = "remove" => Silenced(t, x.pub) \/ Deaf(t, x.sub)
  /\ x.op = "detach" => Silenced(t, x.pub)
  /\ x.op = "trackEnded" => Silenced(t, x.p)
  /\ x.op = "publishLost" => t = Control /\ Silenced(t, x.p)
  /\ x.op = "subscribeLost" => Deaf(t, x.p)
  /\ x.op = "unlist" => t = <<"close", x.p>> /\ life[x.p] = "closed"
Removals == \A t \in Threads : \A x \in Left(t) : Reasons(t, x)

\* Who is to hear a publisher has a down track or is going to have one.
Serves(x, pub, sub) ==
  \/ x \in {Ensure(pub, sub), Create(pub, sub), Follow(pub, sub), Attach(pub), Announce(pub)}
  \/ x \in {Task("publishGained", pub), Task("attachPubs", sub)}
  \/ x = [op |-> "apply", pub |-> pub, sub |-> sub, want |-> TRUE]
Owed == \A pub, sub \in Parts :
  Eligible(pub, sub) /\ First(pub) => down[sub][pub] # 0 \/ \E x \in Todo : Serves(x, pub, sub)

-----------------------------------------------------------------------------
(* Operations one after the other                                          *)

Lone == \A t, u \in Active : t = u

\* Only publishers in the room are served.
Here(x) ==
  /\ x.op \in {"ensure", "create", "follow", "attach", "announce", "rebuild", "collect"} => x.pub \in Listed
  /\ x.op = "publishGained" => x.p \in Listed
Present == \A x \in Todo : Here(x)

\* The down tracks of one who has left are removed.
Cleared == \A p, s \in Parts :
  life[p] = "left" /\ Live(s) /\ down[s][p] # 0 => Drop(p, s) \in Todo \/ Detach(p) \in Todo

InService(pub) == pub \in publishing /\ "publish" \in caps[pub] /\ Live(pub)
Wanted(pub) ==
  {<<pub, s, down[s][pub]>> :
     s \in {q \in Parts \ {pub} : down[q][pub] # 0 /\ Live(q) /\ ShouldForward(pub, q)}}
Heard(S) == {dt \in S : Live(dt[2])}

\* A fanout is as it should be, or is going to be rebuilt.
Refills(x, pub) ==
  \/ x.op \in {"rebuild", "attach", "announce", "collect", "apply"} /\ x.pub = pub
  \/ x.op = "rebuildAll"
Filled == \A pub \in Parts :
  InService(pub) => Heard(fanout[pub]) = Wanted(pub) \/ \E x \in Todo : Refills(x, pub)

\* A rebuild that is under way has the members right that it has looked at.
Right(x) == x.op = "collect" =>
  /\ x.may <=> "publish" \in caps[x.pub]
  /\ Heard(x.list) = {dt \in Wanted(x.pub) : dt[2] \notin x.rest}
Collecting == \A x \in Todo : Right(x)

Sequential == Present /\ Cleared /\ Filled /\ Collecting
Alone == ~overlapped => Lone /\ Sequential

IInv == Regular /\ Mapped /\ Joined /\ Gated /\ Removals /\ Owed /\ Alone

-----------------------------------------------------------------------------
(* Steps and sequences of them                                             *)

Apply(pub, sub, want) == [op |-> "apply", pub |-> pub, sub |-> sub, want |-> want]

LEMMA StepFacts ==
  /\ \A p, q \in Parts :
       /\ Ensure(p, q) \in Steps /\ Ensure(p, q).op = "ensure" /\ Ensure(p, q).pub = p /\ Ensure(p, q).sub = q
       /\ Create(p, q) \in Steps /\ Create(p, q).op = "create" /\ Create(p, q).pub = p /\ Create(p, q).sub = q
       /\ Drop(p, q) \in Steps /\ Drop(p, q).op = "remove" /\ Drop(p, q).pub = p /\ Drop(p, q).sub = q
       /\ Follow(p, q) \in Steps /\ Follow(p, q).op = "follow" /\ Follow(p, q).pub = p /\ Follow(p, q).sub = q
  /\ \A p \in Parts :
       /\ Rebuild(p) \in Steps /\ Rebuild(p).op = "rebuild" /\ Rebuild(p).pub = p
       /\ Attach(p) \in Steps /\ Attach(p).op = "attach" /\ Attach(p).pub = p
       /\ Detach(p) \in Steps /\ Detach(p).op = "detach" /\ Detach(p).pub = p
       /\ Announce(p) \in Steps /\ Announce(p).op = "announce" /\ Announce(p).pub = p
       /\ \A op \in TaskOps : Task(op, p) \in Steps /\ Task(op, p).op = op /\ Task(op, p).p = p
  /\ \A p, q \in Parts, want \in BOOLEAN :
       /\ Apply(p, q, want) \in Steps /\ Apply(p, q, want).op = "apply"
       /\ Apply(p, q, want).pub = p /\ Apply(p, q, want).sub = q /\ Apply(p, q, want).want = want
  /\ \A p \in Parts, may \in BOOLEAN, rest \in SUBSET Parts, list \in SUBSET Dts :
       LET x == Collect(p, may, rest, list) IN
       x \in Steps /\ x.op = "collect" /\ x.pub = p /\ x.may = may /\ x.rest = rest /\ x.list = list
<1>1. \A p, q \in Parts :
       /\ Ensure(p, q) \in Steps /\ Ensure(p, q).op = "ensure" /\ Ensure(p, q).pub = p /\ Ensure(p, q).sub = q
       /\ Create(p, q) \in Steps /\ Create(p, q).op = "create" /\ Create(p, q).pub = p /\ Create(p, q).sub = q
       /\ Drop(p, q) \in Steps /\ Drop(p, q).op = "remove" /\ Drop(p, q).pub = p /\ Drop(p, q).sub = q
       /\ Follow(p, q) \in Steps /\ Follow(p, q).op = "follow" /\ Follow(p, q).pub = p /\ Follow(p, q).sub = q
  BY DEF Steps, PairOps, Ensure, Create, Drop, Follow
<1>2. \A p \in Parts :
       /\ Rebuild(p) \in Steps /\ Rebuild(p).op = "rebuild" /\ Rebuild(p).pub = p
       /\ Attach(p) \in Steps /\ Attach(p).op = "attach" /\ Attach(p).pub = p
       /\ Detach(p) \in Steps /\ Detach(p).op = "detach" /\ Detach(p).pub = p
       /\ Announce(p) \in Steps /\ Announce(p).op = "announce" /\ Announce(p).pub = p
  BY DEF Steps, PubOps, Rebuild, Attach, Detach, Announce
<1>3. \A p \in Parts : \A op \in TaskOps : Task(op, p) \in Steps /\ Task(op, p).op = op /\ Task(op, p).p = p
  BY DEF Steps, TaskOps, Task
<1>4. \A p, q \in Parts, want \in BOOLEAN :
       /\ Apply(p, q, want) \in Steps /\ Apply(p, q, want).op = "apply"
       /\ Apply(p, q, want).pub = p /\ Apply(p, q, want).sub = q /\ Apply(p, q, want).want = want
  BY DEF Steps, Apply
<1>5. ASSUME NEW p \in Parts, NEW may \in BOOLEAN, NEW rest \in SUBSET Parts, NEW list \in SUBSET Dts
      PROVE  LET x == Collect(p, may, rest, list) IN
       x \in Steps /\ x.op = "collect" /\ x.pub = p /\ x.may = may /\ x.rest = rest /\ x.list = list
  BY DEF Steps, Collect
<1> QED
  BY <1>1, <1>2, <1>3, <1>4, <1>5

\* What the name of a step tells of it.
LEMMA StepKinds ==
  ASSUME NEW x \in Steps
  PROVE  /\ x.op \in PairOps \cup PubOps \cup TaskOps \cup {"apply", "collect"}
         /\ x.op \in PairOps \cup PubOps \cup {"apply", "collect"} => x.pub \in Parts
         /\ x.op \in PairOps \cup {"apply"} => x.sub \in Parts
         /\ x.op \in TaskOps => x.p \in Parts /\ x = Task(x.op, x.p)
         /\ x.op = "ensure" => x = Ensure(x.pub, x.sub)
         /\ x.op = "create" => x = Create(x.pub, x.sub)
         /\ x.op = "remove" => x = Drop(x.pub, x.sub)
         /\ x.op = "follow" => x = Follow(x.pub, x.sub)
         /\ x.op = "rebuild" => x = Rebuild(x.pub)
         /\ x.op = "attach" => x = Attach(x.pub)
         /\ x.op = "detach" => x = Detach(x.pub)
         /\ x.op = "announce" => x = Announce(x.pub)
         /\ x.op = "apply" => x.want \in BOOLEAN /\ x = Apply(x.pub, x.sub, x.want)
         /\ x.op = "collect" =>
              /\ x.may \in BOOLEAN /\ x.rest \subseteq Parts /\ x.list \subseteq Dts
              /\ x = Collect(x.pub, x.may, x.rest, x.list)
<1>1. CASE x \in [op : PairOps, pub : Parts, sub : Parts]
  BY <1>1 DEF PairOps, PubOps, TaskOps, Ensure, Create, Drop, Follow
<1>2. CASE x \in [op : PubOps, pub : Parts]
  BY <1>2 DEF PairOps, PubOps, TaskOps, Rebuild, Attach, Detach, Announce
<1>3. CASE x \in [op : TaskOps, p : Parts]
  BY <1>3 DEF PairOps, PubOps, TaskOps, Task
<1>4. CASE x \in [op : {"apply"}, pub : Parts, sub : Parts, want : BOOLEAN]
  BY <1>4 DEF PairOps, PubOps, TaskOps, Apply
<1>5. CASE x \in [op : {"collect"}, pub : Parts, may : BOOLEAN, rest : SUBSET Parts, list : SUBSET Dts]
  BY <1>5 DEF PairOps, PubOps, TaskOps, Collect
<1> QED
  BY <1>1, <1>2, <1>3, <1>4, <1>5 DEF Steps

LEMMA ThreadFacts ==
  /\ Control \in Threads
  /\ \A p \in Parts, op \in {"loop", "connect", "track", "ended", "close"} :
       <<op, p>> \in Threads /\ <<op, p>> # Control
  /\ \A t \in Threads : t = Control \/ \E p \in Parts : t[2] = p
BY DEF Threads, Control

LEMMA MembersFacts ==
  /\ Members(<<>>) = {}
  /\ \A x : Members(<<x>>) = {x}
  /\ \A x, y : Members(<<x, y>>) = {x, y}
<1>1. Members(<<>>) = {}
  BY DEF Members
<1>2. \A x : Members(<<x>>) = {x}
  BY DEF Members
<1>3. ASSUME NEW x, NEW y PROVE Members(<<x, y>>) = {x, y}
  <2>1. Len(<<x, y>>) = 2 /\ 1..2 = {1, 2} /\ <<x, y>>[1] = x /\ <<x, y>>[2] = y
    OBVIOUS
  <2> QED
    BY <2>1 DEF Members
<1> QED
  BY <1>1, <1>2, <1>3

LEMMA MembersOfBoth ==
  ASSUME NEW S, NEW a \in Seq(S), NEW b \in Seq(S)
  PROVE  a \o b \in Seq(S) /\ Members(a \o b) = Members(a) \cup Members(b)
<1> DEFINE r == a \o b
<1>1. /\ r \in Seq(S) /\ Len(r) = Len(a) + Len(b) /\ Len(a) \in Nat /\ Len(b) \in Nat
      /\ \A i \in 1..Len(r) : r[i] = IF i <= Len(a) THEN a[i] ELSE b[i - Len(a)]
  BY ConcatProperties, LenProperties
<1> HIDE DEF r
<1>2. ASSUME NEW i \in 1..Len(r) PROVE r[i] \in Members(a) \cup Members(b)
  <2>1. CASE i <= Len(a)
    <3>1. i \in 1..Len(a) /\ r[i] = a[i]
      BY <1>1, <2>1
    <3> QED
      BY <3>1 DEF Members
  <2>2. CASE ~(i <= Len(a))
    <3>1. i - Len(a) \in 1..Len(b) /\ r[i] = b[i - Len(a)]
      BY <1>1, <2>2
    <3> QED
      BY <3>1 DEF Members
  <2> QED
    BY <2>1, <2>2
<1>3. ASSUME NEW i \in 1..Len(a) PROVE a[i] \in Members(r)
  <2>1. i \in 1..Len(r) /\ r[i] = a[i]
    BY <1>1
  <2> QED
    BY <2>1 DEF Members
<1>4. ASSUME NEW i \in 1..Len(b) PROVE b[i] \in Members(r)
  <2> DEFINE j == i + Len(a)
  <2>1. j \in 1..Len(r) /\ ~(j <= Len(a)) /\ j - Len(a) = i
    BY <1>1
  <2> HIDE DEF j
  <2>2. r[j] = b[i]
    BY <1>1, <2>1
  <2> QED
    BY <2>1, <2>2 DEF Members
<1> QED
  BY <1>1, <1>2, <1>3, <1>4 DEF r, Members

\* What a goroutine has left when its first step is replaced.
LEMMA Prepended ==
  ASSUME NEW S, NEW s \in Seq(S), s # <<>>, NEW a \in Seq(S)
  PROVE  LET r == a \o Tail(s) IN
         /\ r \in Seq(S) /\ Len(r) = Len(a) + Len(s) - 1
         /\ \A i \in 1..Len(a) : i \in 1..Len(r) /\ r[i] = a[i]
         /\ \A i \in 1..Len(r) : i \notin 1..Len(a) =>
              i - Len(a) + 1 \in 2..Len(s) /\ r[i] = s[i - Len(a) + 1]
         /\ \A j \in 2..Len(s) : j - 1 + Len(a) \in 1..Len(r) /\ r[j - 1 + Len(a)] = s[j]
         /\ Len(s) \in Nat \ {0} /\ Len(a) \in Nat /\ Head(s) = s[1] /\ Tail(s) \in Seq(S)
<1> DEFINE r == a \o Tail(s)
<1>1. /\ Tail(s) \in Seq(S) /\ Len(Tail(s)) = Len(s) - 1 /\ Head(s) = s[1]
      /\ \A i \in 1..Len(Tail(s)) : Tail(s)[i] = s[i + 1]
      /\ Len(s) \in Nat \ {0} /\ Len(a) \in Nat
  BY HeadTailProperties, EmptySeq, LenProperties
<1>2. /\ r \in Seq(S) /\ Len(r) = Len(a) + Len(Tail(s))
      /\ \A i \in 1..Len(r) : r[i] = IF i <= Len(a) THEN a[i] ELSE Tail(s)[i - Len(a)]
  BY <1>1, ConcatProperties
<1> HIDE DEF r
<1>3. ASSUME NEW i \in 1..Len(r), i \notin 1..Len(a)
      PROVE  i - Len(a) + 1 \in 2..Len(s) /\ r[i] = s[i - Len(a) + 1]
  <2>1. i - Len(a) \in 1..Len(Tail(s)) /\ ~(i <= Len(a)) /\ i - Len(a) + 1 \in 2..Len(s)
    BY <1>1, <1>2, <1>3
  <2> QED
    BY <1>1, <1>2, <2>1
<1>4. ASSUME NEW j \in 2..Len(s)
      PROVE  j - 1 + Len(a) \in 1..Len(r) /\ r[j - 1 + Len(a)] = s[j]
  <2> DEFINE i == j - 1 + Len(a)
  <2>1. i \in 1..Len(r) /\ i \notin 1..Len(a) /\ i - Len(a) + 1 = j
    BY <1>1, <1>2
  <2> HIDE DEF i
  <2>2. r[i] = s[i - Len(a) + 1]
    BY <1>3, <2>1
  <2> QED
    BY <2>1, <2>2 DEF i
<1>5. \A i \in 1..Len(a) : i \in 1..Len(r) /\ r[i] = a[i]
  BY <1>1, <1>2
<1>6. Len(r) = Len(a) + Len(s) - 1
  BY <1>1, <1>2
<1> QED
  BY <1>1, <1>2, <1>3, <1>4, <1>5, <1>6 DEF r

\* The first step and the rest.
Rest(t) == Members(Tail(job[t]))

LEMMA RestFacts ==
  ASSUME Regular, NEW t \in Threads, job[t] # <<>>
  PROVE  /\ Left(t) = {Head(job[t])} \cup Rest(t)
         /\ Head(job[t]) \in Steps /\ Rest(t) \subseteq Steps
         /\ Apart(Head(job[t])) /\ \A x \in Rest(t) : Apart(x)
         /\ \A x \in Rest(t) : x.op \notin {"collect", "create", "unlist"}
         /\ Head(job[t]).op \in {"ensure", "create"} => Rebuild(Head(job[t]).pub) \in Rest(t)
         /\ Head(job[t]).op = "unlist" => Rest(t) = {}
<1> DEFINE s == job[t]
<1>1. /\ s \in Seq(Steps) /\ Tail(s) \in Seq(Steps) /\ Len(Tail(s)) = Len(s) - 1
      /\ Head(s) = s[1] /\ Head(s) \in Steps
      /\ \A i \in 1..Len(Tail(s)) : Tail(s)[i] = s[i + 1]
      /\ Len(s) \in Nat \ {0}
  BY HeadTailProperties, EmptySeq, LenProperties DEF Regular, Types
<1>2. \A i \in 1..Len(Tail(s)) : i + 1 \in 2..Len(s) /\ i + 1 \in 1..Len(s) /\ i + 1 # 1
  BY <1>1
<1>3. \A j \in 2..Len(s) : j - 1 \in 1..Len(Tail(s)) /\ Tail(s)[j - 1] = s[j] /\ j \in 1..Len(s)
  BY <1>1
<1>4. Tidy(s) /\ \A x \in Members(s) : Apart(x)
  BY DEF Regular, Left
<1> HIDE DEF s
<1>5. Members(Tail(s)) = {s[j] : j \in 2..Len(s)}
  BY <1>1, <1>2, <1>3 DEF Members
<1>6. Members(s) = {Head(s)} \cup Members(Tail(s))
  <2>1. 1..Len(s) = {1} \cup 2..Len(s)
    BY <1>1
  <2> QED
    BY <1>1, <1>5, <2>1 DEF Members
<1>7. ASSUME NEW x \in Members(Tail(s))
      PROVE  x.op \notin {"collect", "create", "unlist"} /\ x \in Steps
  <2>1. PICK j \in 2..Len(s) : x = s[j]
    BY <1>5, <1>7
  <2>2. j \in 1..Len(s) /\ j # 1 /\ Len(s) # 1
    BY <1>1
  <2>3. s[j] \in Steps
    BY <1>1, <2>2
  <2> QED
    BY <1>4, <2>1, <2>2, <2>3 DEF Tidy
<1>8. Head(s).op \in {"ensure", "create"} => Rebuild(Head(s).pub) \in Members(Tail(s))
  <2>1. 1 \in 1..Len(s) /\ (1 + 1)..Len(s) = 2..Len(s)
    BY <1>1
  <2>2. Head(s).op \in {"ensure", "create"} => \E j \in (1 + 1)..Len(s) : s[j] = Rebuild(Head(s).pub)
    BY <1>1, <1>4, <2>1 DEF Tidy
  <2> QED
    BY <1>5, <2>1, <2>2
<1>9. Head(s).op = "unlist" => Members(Tail(s)) = {}
  <2>1. 1 \in 1..Len(s)
    BY <1>1
  <2>2. Head(s).op = "unlist" => Len(s) = 1
    BY <1>1, <1>4, <2>1 DEF Tidy
  <2>3. Len(s) = 1 => 2..Len(s) = {}
    OBVIOUS
  <2> QED
    BY <1>5, <2>2, <2>3
<1> QED
  BY <1>1, <1>4, <1>6, <1>7, <1>8, <1>9 DEF Left, Rest, s

\* Steps a may take the place of step h.
Fits(h, a) ==
  \A i \in 1..Len(a) :
    /\ a[i].op \in {"collect", "create"} => i = 1
    /\ a[i].op # "unlist"
    /\ a[i].op \in {"ensure", "create"} =>
         \/ \E j \in (i + 1)..Len(a) : a[j] = Rebuild(a[i].pub)
         \/ h.op = "ensure" /\ a[i].pub = h.pub

LEMMA TidyGoes ==
  ASSUME NEW s \in Seq(Steps), s # <<>>, Tidy(s), NEW a \in Seq(Steps), Fits(Head(s), a)
  PROVE  Tidy(a \o Tail(s))
<1> DEFINE r == a \o Tail(s)
<1>1. /\ r \in Seq(Steps) /\ Len(r) = Len(a) + Len(s) - 1
      /\ \A i \in 1..Len(a) : i \in 1..Len(r) /\ r[i] = a[i]
      /\ \A i \in 1..Len(r) : i \notin 1..Len(a) =>
           i - Len(a) + 1 \in 2..Len(s) /\ r[i] = s[i - Len(a) + 1]
      /\ \A j \in 2..Len(s) : j - 1 + Len(a) \in 1..Len(r) /\ r[j - 1 + Len(a)] = s[j]
      /\ Len(s) \in Nat \ {0} /\ Len(a) \in Nat /\ Head(s) = s[1]
  BY Prepended
<1> HIDE DEF r
<1>2. 1 \in 1..Len(s)
  BY <1>1
<1>3. ASSUME NEW i \in 1..Len(r), i \in 1..Len(a)
      PROVE  /\ r[i].op \in {"collect", "create"} => i = 1
             /\ r[i].op = "unlist" => Len(r) = 1
             /\ r[i].op \in {"ensure", "create"} => \E j \in (i + 1)..Len(r) : r[j] = Rebuild(r[i].pub)
  <2>1. r[i] = a[i]
    BY <1>1, <1>3
  <2>2. ASSUME r[i].op \in {"ensure", "create"}
        PROVE  \E j \in (i + 1)..Len(r) : r[j] = Rebuild(r[i].pub)
    <3>1. CASE \E j \in (i + 1)..Len(a) : a[j] = Rebuild(a[i].pub)
      <4>1. PICK j \in (i + 1)..Len(a) : a[j] = Rebuild(a[i].pub)
        BY <3>1
      <4>2. j \in 1..Len(a)
        BY <1>1, <1>3
      <4>3. j \in (i + 1)..Len(r)
        BY <1>1, <1>3, <4>2
      <4> QED
        BY <1>1, <2>1, <4>1, <4>2, <4>3
    <3>2. CASE Head(s).op = "ensure" /\ a[i].pub = Head(s).pub
      <4>1. PICK m \in (1 + 1)..Len(s) : s[m] = Rebuild(Head(s).pub)
        BY <1>1, <1>2, <3>2 DEF Tidy
      <4> DEFINE j == m - 1 + Len(a)
      <4>2. m \in 2..Len(s)
        BY <1>1
      <4>3. j \in 1..Len(r) /\ r[j] = s[m]
        BY <1>1, <4>2
      <4>4. j \in (i + 1)..Len(r)
        BY <1>1, <1>3, <4>2
      <4> HIDE DEF j
      <4> QED
        BY <2>1, <3>2, <4>1, <4>3, <4>4
    <3> QED
      BY <1>3, <2>1, <2>2, <3>1, <3>2 DEF Fits
  <2> QED
    BY <1>3, <2>1, <2>2 DEF Fits
<1>4. ASSUME NEW i \in 1..Len(r), i \notin 1..Len(a)
      PROVE  /\ r[i].op \notin {"collect", "create", "unlist"}
             /\ r[i].op \in {"ensure", "create"} => \E j \in (i + 1)..Len(r) : r[j] = Rebuild(r[i].pub)
  <2> DEFINE k == i - Len(a) + 1
  <2>1. k \in 2..Len(s) /\ k \in 1..Len(s) /\ k # 1 /\ r[i] = s[k] /\ Len(s) # 1
    BY <1>1, <1>4
  <2>2. i = k - 1 + Len(a)
    BY <1>1
  <2> HIDE DEF k
  <2>3. r[i].op \notin {"collect", "create", "unlist"}
    BY <1>1, <2>1 DEF Tidy
  <2>4. ASSUME r[i].op \in {"ensure", "create"}
        PROVE  \E j \in (i + 1)..Len(r) : r[j] = Rebuild(r[i].pub)
    <3>1. PICK m \in (k + 1)..Len(s) : s[m] = Rebuild(s[k].pub)
      BY <2>1, <2>4 DEF Tidy
    <3> DEFINE j == m - 1 + Len(a)
    <3>2. m \in 2..Len(s)
      BY <1>1, <2>1
    <3>3. j \in (i + 1)..Len(r)
      BY <1>1, <2>1, <2>2, <3>2
    <3>4. r[j] = s[m]
      BY <1>1, <3>2
    <3> HIDE DEF j
    <3> QED
      BY <2>1, <3>1, <3>3, <3>4
  <2> QED
    BY <2>3, <2>4
<1> QED
  BY <1>3, <1>4 DEF Tidy, r

\* Goroutine t is left with the steps of a set M.
Left2(t, M) ==
  /\ Left(t)' = M
  /\ \A u \in Threads : u # t => Left(u)' = Left(u)

\* The first step of t is replaced by the steps of N.
Goes(t, N) ==
  /\ job[t] # <<>> /\ N \subseteq Steps
  /\ Left2(t, N \cup Rest(t))
  /\ \A u \in Threads : u # t => job'[u] = job[u]
  /\ UNCHANGED <<orders, overlapped>>

\* A goroutine that had nothing to do begins with the steps of N.
Begins(t, N) ==
  /\ job[t] = <<>> /\ N \subseteq Steps
  /\ Left(t) = {} /\ Left2(t, N)
  /\ \A u \in Threads : u # t => job'[u] = job[u]
  /\ overlapped' = (overlapped \/ Active # {})

\* The part of Regular that is about what is under way.
Jobs == job \in [Threads -> Seq(Steps)] /\ \A t \in Threads : Tidy(job[t]) /\ \A x \in Left(t) : Apart(x)

LEMMA Passed ==
  ASSUME Regular, NEW t \in Threads, job[t] # <<>>,
         NEW a \in Seq(Steps), Continue(t, a), Fits(Head(job[t]), a), \A x \in Members(a) : Apart(x)
  PROVE  Jobs' /\ Goes(t, Members(a))
<1>1. /\ job[t] \in Seq(Steps) /\ job'[t] = a \o Tail(job[t])
      /\ \A u \in Threads : u # t => job'[u] = job[u]
      /\ job' = [job EXCEPT ![t] = a \o Tail(job[t])]
  BY DEF Regular, Types, Continue
<1>2. Tail(job[t]) \in Seq(Steps)
  BY <1>1, HeadTailProperties, EmptySeq
<1>3. a \o Tail(job[t]) \in Seq(Steps) /\ Members(a \o Tail(job[t])) = Members(a) \cup Rest(t)
  BY <1>2, MembersOfBoth DEF Rest
<1>4. job' \in [Threads -> Seq(Steps)]
  BY <1>1, <1>3 DEF Regular, Types
<1>5. Tidy(a \o Tail(job[t]))
  BY <1>1, TidyGoes DEF Regular
<1>6. Tidy(job'[t]) /\ \A u \in Threads : u # t => Tidy(job'[u])
  BY <1>1, <1>5 DEF Regular
<1>7. \A u \in Threads : Tidy(job[u])'
  <2> SUFFICES ASSUME NEW u \in Threads PROVE Tidy(job'[u])
    BY DEF Tidy
  <2> QED
    BY <1>6
<1>8. Left(t)' = Members(a) \cup Rest(t)
  BY <1>1, <1>3 DEF Left, Members
<1>9. \A u \in Threads : u # t => Left(u)' = Left(u)
  BY <1>1 DEF Left, Members
<1>10. \A u \in Threads : \A x \in Left(u)' : Apart(x)
  BY <1>8, <1>9, RestFacts DEF Regular
<1>11. Jobs'
  BY <1>4, <1>7, <1>10 DEF Jobs, Apart
<1>12. Members(a) \subseteq Steps
  BY DEF Members
<1> QED
  BY <1>1, <1>8, <1>9, <1>11, <1>12 DEF Left2, Goes, Continue

LEMMA Begun ==
  ASSUME Regular, NEW t \in Threads,
         NEW a \in Seq(Steps), Start(t, a), Tidy(a), \A x \in Members(a) : Apart(x)
  PROVE  Jobs' /\ Begins(t, Members(a))
<1>1. job[t] = <<>> /\ job'[t] = a /\ \A u \in Threads : u # t => job'[u] = job[u]
  BY DEF Regular, Types, Start
<1>2. job' \in [Threads -> Seq(Steps)]
  BY <1>1 DEF Regular, Types, Start
<1>3. \A u \in Threads : Tidy(job'[u])
  BY <1>1 DEF Regular
<1>4. \A u \in Threads : Tidy(job[u])'
  BY <1>3 DEF Tidy
<1>5. Left(t) = {}
  BY <1>1, MembersFacts DEF Left
<1>6. Left(t)' = Members(a) /\ \A u \in Threads : u # t => Left(u)' = Left(u)
  BY <1>1 DEF Left, Members
<1>7. \A u \in Threads : \A x \in Left(u)' : Apart(x)
  BY <1>6 DEF Regular
<1>8. Jobs'
  BY <1>2, <1>4, <1>7 DEF Jobs, Apart
<1>9. Members(a) \subseteq Steps
  BY DEF Members
<1> QED
  BY <1>1, <1>5, <1>6, <1>8, <1>9 DEF Left2, Begins, Start

\* Sequences of steps that may stand anywhere.
Plain(x) == x.op \notin {"collect", "create", "unlist", "ensure"}

LEMMA PlainFits ==
  ASSUME NEW h, NEW a \in Seq(Steps), \A x \in Members(a) : Plain(x)
  PROVE  Fits(h, a) /\ Tidy(a) /\ \A x \in Members(a) : x.op \notin {"follow", "apply"} => Apart(x)
<1>1. \A i \in 1..Len(a) : Plain(a[i])
  BY DEF Members
<1> QED
  BY <1>1 DEF Plain, Fits, Tidy, Apart

LEMMA ShortFits ==
  ASSUME NEW h
  PROVE  /\ <<>> \in Seq(Steps) /\ Fits(h, <<>>)
         /\ \A x \in Steps : <<x>> \in Seq(Steps)
         /\ \A x \in Steps : Plain(x) \/ x.op = "collect" \/ (x.op = "create" /\ h.op = "ensure" /\ x.pub = h.pub)
              => Fits(h, <<x>>)
         /\ \A p, q \in Parts :
              LET a == <<Ensure(p, q), Rebuild(p)>> IN
              a \in Seq(Steps) /\ Fits(h, a) /\ Members(a) = {Ensure(p, q), Rebuild(p)}
<1>1. <<>> \in Seq(Steps) /\ Fits(h, <<>>) /\ \A x \in Steps : <<x>> \in Seq(Steps)
  BY DEF Fits
<1>2. ASSUME NEW x \in Steps, Plain(x) \/ x.op = "collect" \/ (x.op = "create" /\ h.op = "ensure" /\ x.pub = h.pub)
      PROVE  Fits(h, <<x>>)
  <2>1. Len(<<x>>) = 1 /\ 1..1 = {1} /\ <<x>>[1] = x
    OBVIOUS
  <2> QED
    BY <1>2, <2>1 DEF Fits, Plain
<1>3. ASSUME NEW p \in Parts, NEW q \in Parts
      PROVE  LET a == <<Ensure(p, q), Rebuild(p)>> IN
             a \in Seq(Steps) /\ Fits(h, a) /\ Members(a) = {Ensure(p, q), Rebuild(p)}
  <2> DEFINE a == <<Ensure(p, q), Rebuild(p)>>
  <2>1. Len(a) = 2 /\ 1..2 = {1, 2} /\ a[1] = Ensure(p, q) /\ a[2] = Rebuild(p) /\ 2 \in (1 + 1)..2
    OBVIOUS
  <2>2. /\ Ensure(p, q).op = "ensure" /\ Ensure(p, q).pub = p /\ Rebuild(p).op = "rebuild"
        /\ Ensure(p, q) \in Steps /\ Rebuild(p) \in Steps
    BY StepFacts
  <2>3. a \in Seq(Steps)
    BY <2>2
  <2>4. Members(a) = {Ensure(p, q), Rebuild(p)}
    BY MembersFacts
  <2> HIDE DEF a
  <2>5. Fits(h, a)
    BY <2>1, <2>2 DEF Fits
  <2> QED
    BY <2>3, <2>4, <2>5 DEF a
<1> QED
  BY <1>1, <1>2, <1>3

\* The orders in which a set can be gone through.
LEMMA SeqsFacts ==
  ASSUME NEW S, IsFiniteSet(S), NEW o \in SetToSeqs(S)
  PROVE  o \in Seq(S) /\ DOMAIN o = 1..Len(o) /\ Members(o) = S
<1> DEFINE n == Cardinality(S)
<1>1. n \in Nat
  BY FS_CardinalityType
<1>2. o \in [1..n -> S] /\ \A i, j \in 1..n : i # j => o[i] # o[j]
  BY DEF SetToSeqs
<1> HIDE DEF n
<1>3. o \in Seq(S) /\ DOMAIN o = 1..n /\ Len(o) = n
  BY <1>1, <1>2
<1>4. o \in Injection(1..n, S)
  BY <1>2 DEF Injection, IsInjective
<1>5. Cardinality(1..n) = n
  <2>1. 0 \in Int /\ 1 \in Int /\ n \in Int
    BY <1>1
  <2>2. Cardinality(1..n) = IF 1 > n THEN 0 ELSE n - 1 + 1
    BY <2>1, FS_Interval
  <2> QED
    BY <1>1, <2>2
<1>6. o \in Surjection(1..n, S)
  <2>1. Cardinality(1..n) = Cardinality(S) <=> o \in Surjection(1..n, S)
    BY <1>4, FS_Injection
  <2> QED
    BY <1>5, <2>1 DEF n
<1>7. \A x \in S : \E i \in 1..n : o[i] = x
  BY <1>6 DEF Surjection
<1> QED
  BY <1>2, <1>3, <1>7 DEF Members

\* The steps of a loop.
LEMMA LoopFacts ==
  ASSUME NEW S, IsFiniteSet(S), NEW o \in SetToSeqs(S), NEW g \in [S -> Steps]
  PROVE  LET r == [i \in DOMAIN o |-> g[o[i]]] IN
         r \in Seq(Steps) /\ Members(r) = {g[x] : x \in S}
<1> DEFINE r == [i \in DOMAIN o |-> g[o[i]]]
<1>1. o \in Seq(S) /\ DOMAIN o = 1..Len(o) /\ Members(o) = S /\ Len(o) \in Nat
  BY SeqsFacts, LenProperties
<1>2. \A i \in 1..Len(o) : o[i] \in S
  BY <1>1
<1>3. r \in [1..Len(o) -> Steps]
  BY <1>1, <1>2
<1>4. r \in Seq(Steps) /\ Len(r) = Len(o) /\ \A i \in 1..Len(o) : r[i] = g[o[i]]
  BY <1>1, <1>3
<1> HIDE DEF r
<1>5. \A x \in S : \E i \in 1..Len(o) : o[i] = x
  BY <1>1 DEF Members
<1>6. Members(r) = {g[x] : x \in S}
  BY <1>2, <1>4, <1>5 DEF Members
<1> QED
  BY <1>4, <1>6 DEF r

LEMMA FiniteListed ==
  ASSUME NEW S \in SUBSET Parts
  PROVE  IsFiniteSet(S)
BY PartsAssumption, FS_Subset

LEMMA Loops ==
  ASSUME NEW S \in SUBSET Parts, NEW q \in Parts
  PROVE  /\ \A o \in SetToSeqs(S) :
              LET r == [i \in DOMAIN o |-> Ensure(q, o[i])] IN
              r \in Seq(Steps) /\ Members(r) = {Ensure(q, s) : s \in S}
         /\ \A o \in SetToSeqs(S) :
              LET r == [i \in DOMAIN o |-> Follow(o[i], q)] IN
              r \in Seq(Steps) /\ Members(r) = {Follow(s, q) : s \in S}
         /\ \A o \in SetToSeqs(S) :
              LET r == [i \in DOMAIN o |-> Drop(q, o[i])] IN
              r \in Seq(Steps) /\ Members(r) = {Drop(q, s) : s \in S}
         /\ \A o \in SetToSeqs(S) :
              LET r == [i \in DOMAIN o |-> Drop(o[i], q)] IN
              r \in Seq(Steps) /\ Members(r) = {Drop(s, q) : s \in S}
         /\ \A o \in SetToSeqs(S) :
              LET r == [i \in DOMAIN o |-> Rebuild(o[i])] IN
              r \in Seq(Steps) /\ Members(r) = {Rebuild(s) : s \in S}
<1> DEFINE In(o) == \A i \in DOMAIN o : o[i] \in S
<1>0. IsFiniteSet(S)
  BY FiniteListed
<1>1. \A o \in SetToSeqs(S) : In(o)
  BY DEF SetToSeqs
<1>2. ASSUME NEW o \in SetToSeqs(S), NEW g \in [S -> Steps]
      PROVE  LET r == [i \in DOMAIN o |-> g[o[i]]] IN r \in Seq(Steps) /\ Members(r) = {g[x] : x \in S}
  BY <1>0, LoopFacts
<1>3. ASSUME NEW o \in SetToSeqs(S)
      PROVE  LET r == [i \in DOMAIN o |-> Ensure(q, o[i])] IN
             r \in Seq(Steps) /\ Members(r) = {Ensure(q, s) : s \in S}
  <2> DEFINE g == [s \in S |-> Ensure(q, s)]
  <2>1. g \in [S -> Steps] /\ \A s \in S : g[s] = Ensure(q, s)
    BY StepFacts
  <2> HIDE DEF g
  <2>2. [i \in DOMAIN o |-> g[o[i]]] = [i \in DOMAIN o |-> Ensure(q, o[i])]
    BY <1>1, <2>1
  <2>3. {g[x] : x \in S} = {Ensure(q, s) : s \in S}
    BY <2>1
  <2> QED
    BY <1>2, <2>1, <2>2, <2>3
<1>4. ASSUME NEW o \in SetToSeqs(S)
      PROVE  LET r == [i \in DOMAIN o |-> Follow(o[i], q)] IN
             r \in Seq(Steps) /\ Members(r) = {Follow(s, q) : s \in S}
  <2> DEFINE g == [s \in S |-> Follow(s, q)]
  <2>1. g \in [S -> Steps] /\ \A s \in S : g[s] = Follow(s, q)
    BY StepFacts
  <2> HIDE DEF g
  <2>2. [i \in DOMAIN o |-> g[o[i]]] = [i \in DOMAIN o |-> Follow(o[i], q)]
    BY <1>1, <2>1
  <2>3. {g[x] : x \in S} = {Follow(s, q) : s \in S}
    BY <2>1
  <2> QED
    BY <1>2, <2>1, <2>2, <2>3
<1>5. ASSUME NEW o \in SetToSeqs(S)
      PROVE  LET r == [i \in DOMAIN o |-> Drop(q, o[i])] IN
             r \in Seq(Steps) /\ Members(r) = {Drop(q, s) : s \in S}
  <2> DEFINE g == [s \in S |-> Drop(q, s)]
  <2>1. g \in [S -> Steps] /\ \A s \in S : g[s] = Drop(q, s)
    BY StepFacts
  <2> HIDE DEF g
  <2>2. [i \in DOMAIN o |-> g[o[i]]] = [i \in DOMAIN o |-> Drop(q, o[i])]
    BY <1>1, <2>1
  <2>3. {g[x] : x \in S} = {Drop(q, s) : s \in S}
    BY <2>1
  <2> QED
    BY <1>2, <2>1, <2>2, <2>3
<1>6. ASSUME NEW o \in SetToSeqs(S)
      PROVE  LET r == [i \in DOMAIN o |-> Drop(o[i], q)] IN
             r \in Seq(Steps) /\ Members(r) = {Drop(s, q) : s \in S}
  <2> DEFINE g == [s \in S |-> Drop(s, q)]
  <2>1. g \in [S -> Steps] /\ \A s \in S : g[s] = Drop(s, q)
    BY StepFacts
  <2> HIDE DEF g
  <2>2. [i \in DOMAIN o |-> g[o[i]]] = [i \in DOMAIN o |-> Drop(o[i], q)]
    BY <1>1, <2>1
  <2>3. {g[x] : x \in S} = {Drop(s, q) : s \in S}
    BY <2>1
  <2> QED
    BY <1>2, <2>1, <2>2, <2>3
<1>7. ASSUME NEW o \in SetToSeqs(S)
      PROVE  LET r == [i \in DOMAIN o |-> Rebuild(o[i])] IN
             r \in Seq(Steps) /\ Members(r) = {Rebuild(s) : s \in S}
  <2> DEFINE g == [s \in S |-> Rebuild(s)]
  <2>1. g \in [S -> Steps] /\ \A s \in S : g[s] = Rebuild(s)
    BY StepFacts
  <2> HIDE DEF g
  <2>2. [i \in DOMAIN o |-> g[o[i]]] = [i \in DOMAIN o |-> Rebuild(o[i])]
    BY <1>1, <2>1
  <2>3. {g[x] : x \in S} = {Rebuild(s) : s \in S}
    BY <2>1
  <2> QED
    BY <1>2, <2>1, <2>2, <2>3
<1> QED
  BY <1>3, <1>4, <1>5, <1>6, <1>7

\* The loop of attachSubscribersToPublisher, with the rebuild behind it.
LEMMA AttachFits ==
  ASSUME NEW h, NEW S \in SUBSET Parts, NEW p \in Parts, NEW r \in Seq(Steps),
         Members(r) = {Ensure(p, s) : s \in S}
  PROVE  LET a == r \o <<Rebuild(p)>> IN
         a \in Seq(Steps) /\ Fits(h, a) /\ Members(a) = {Ensure(p, s) : s \in S} \cup {Rebuild(p)}
<1> DEFINE b == <<Rebuild(p)>>
           a == r \o b
<1>1. b \in Seq(Steps) /\ Len(b) = 1 /\ b[1] = Rebuild(p) /\ Rebuild(p).op = "rebuild" /\ Members(b) = {Rebuild(p)}
  BY StepFacts, MembersFacts
<1> HIDE DEF b
<1>2. a \in Seq(Steps) /\ Members(a) = {Ensure(p, s) : s \in S} \cup {Rebuild(p)}
  BY <1>1, MembersOfBoth
<1>3. /\ Len(r) \in Nat /\ Len(a) = Len(r) + 1
      /\ \A i \in 1..Len(a) : a[i] = IF i <= Len(r) THEN r[i] ELSE b[i - Len(r)]
  <2>1. b \in Seq(Steps)
    BY <1>1
  <2>2. /\ Len(r) \in Nat /\ Len(a) = Len(r) + Len(b)
        /\ \A i \in 1..Len(a) : a[i] = IF i <= Len(r) THEN r[i] ELSE b[i - Len(r)]
    BY <2>1, ConcatProperties, LenProperties
  <2> QED
    BY <1>1, <2>2
<1> HIDE DEF a
<1>4. ASSUME NEW i \in 1..Len(a)
      PROVE  /\ a[i].op \in {"ensure", "rebuild"}
             /\ a[i].op = "ensure" => a[i].pub = p /\ Len(a) \in (i + 1)..Len(a) /\ a[Len(a)] = Rebuild(p)
  <2>1. CASE i <= Len(r)
    <3>1. i \in 1..Len(r) /\ a[i] = r[i]
      BY <1>3, <2>1
    <3>2. a[i] \in {Ensure(p, s) : s \in S}
      BY <3>1 DEF Members
    <3>3. a[i].op = "ensure" /\ a[i].pub = p
      BY <3>2, StepFacts
    <3>4. Len(a) \in (i + 1)..Len(a) /\ Len(a) \in 1..Len(a) /\ ~(Len(a) <= Len(r)) /\ Len(a) - Len(r) = 1
      BY <1>3, <3>1
    <3> QED
      BY <1>1, <1>3, <3>3, <3>4
  <2>2. CASE ~(i <= Len(r))
    <3>1. i - Len(r) = 1
      BY <1>3, <2>2
    <3> QED
      BY <1>1, <1>3, <2>2, <3>1
  <2> QED
    BY <2>1, <2>2
<1>5. Fits(h, a)
  BY <1>4 DEF Fits
<1> QED
  BY <1>2, <1>5 DEF a, b

-----------------------------------------------------------------------------
(* What each step leaves to do                                             *)

LEMMA AtFacts ==
  ASSUME Regular, NEW t \in Threads, NEW op, At(t, op)
  PROVE  LET h == Head(job[t]) IN
         /\ job[t] # <<>> /\ h.op = op /\ h \in Steps /\ Apart(h) /\ h \in Left(t)
         /\ op \in PairOps \cup PubOps \cup {"apply", "collect"} => h.pub \in Parts
         /\ op \in PairOps \cup {"apply"} => h.sub \in Parts
         /\ op \in TaskOps => h.p \in Parts
BY RestFacts, StepKinds DEF At

LEMMA NothingLeft ==
  ASSUME Regular, NEW t \in Threads, job[t] # <<>>, Continue(t, <<>>)
  PROVE  Jobs' /\ Goes(t, {})
BY Passed, ShortFits, MembersFacts

LEMMA OneLeft ==
  ASSUME Regular, NEW t \in Threads, job[t] # <<>>, NEW x \in Steps, Continue(t, <<x>>), Apart(x),
         \/ Plain(x) \/ x.op = "collect"
         \/ x.op = "create" /\ Head(job[t]).op = "ensure" /\ x.pub = Head(job[t]).pub
  PROVE  Jobs' /\ Goes(t, {x})
<1>1. <<x>> \in Seq(Steps) /\ Fits(Head(job[t]), <<x>>)
  BY ShortFits
<1>2. Members(<<x>>) = {x}
  BY MembersFacts
<1> QED
  BY <1>1, <1>2, Passed

LEMMA TwoLeft ==
  ASSUME Regular, NEW t \in Threads, job[t] # <<>>, NEW p \in Parts, NEW q \in Parts, p # q,
         Continue(t, <<Ensure(p, q), Rebuild(p)>>)
  PROVE  Jobs' /\ Goes(t, {Ensure(p, q), Rebuild(p)})
<1> DEFINE a == <<Ensure(p, q), Rebuild(p)>>
<1>1. a \in Seq(Steps) /\ Fits(Head(job[t]), a) /\ Members(a) = {Ensure(p, q), Rebuild(p)}
  BY ShortFits
<1>2. \A x \in Members(a) : Apart(x)
  BY <1>1, StepFacts DEF Apart
<1>3. Continue(t, a)
  OBVIOUS
<1> HIDE DEF a
<1> QED
  BY <1>1, <1>2, <1>3, Passed

LEMMA LoopLeft ==
  ASSUME Regular, NEW t \in Threads, job[t] # <<>>, NEW a \in Seq(Steps), Continue(t, a),
         \A x \in Members(a) : Plain(x) /\ Apart(x)
  PROVE  Jobs' /\ Goes(t, Members(a))
BY PlainFits, Passed

LEMMA EnsureGoes ==
  ASSUME Regular, NEW t \in Threads, EnsureDownTrack(t)
  PROVE  LET h == Head(job[t]) IN
         /\ Jobs'
         /\ Goes(t, IF /\ Live(h.sub) /\ h.pub \in publishing
                       /\ ShouldForward(h.pub, h.sub) /\ down[h.sub][h.pub] = 0
                    THEN {Create(h.pub, h.sub)} ELSE {})
<1> DEFINE h == Head(job[t])
           c == /\ Live(h.sub) /\ h.pub \in publishing
                /\ ShouldForward(h.pub, h.sub) /\ down[h.sub][h.pub] = 0
<1>1. /\ job[t] # <<>> /\ h.op = "ensure" /\ Apart(h) /\ h.pub \in Parts /\ h.sub \in Parts
  BY AtFacts DEF EnsureDownTrack, PairOps
<1>2. Continue(t, IF c THEN <<Create(h.pub, h.sub)>> ELSE <<>>)
  BY DEF EnsureDownTrack
<1> DEFINE x == Create(h.pub, h.sub)
<1>3. c => x \in Steps /\ x.op = "create" /\ x.pub = h.pub /\ Apart(x)
  <2>1. x \in Steps /\ x.op = "create" /\ x.pub = h.pub /\ x.sub = h.sub
    BY <1>1, StepFacts
  <2>2. c => h.pub \in Publishers
    BY DEF Regular, Types
  <2> HIDE DEF x
  <2> QED
    BY <1>1, <2>1, <2>2 DEF Apart
<1>4. CASE c
  <2> HIDE DEF x, c
  <2>1. Continue(t, <<x>>)
    BY <1>2, <1>4 DEF x
  <2>2. Jobs' /\ Goes(t, {x})
    BY <1>1, <1>3, <1>4, <2>1, OneLeft
  <2> QED
    BY <1>4, <2>2 DEF c, x
<1>5. CASE ~c
  <2>1. Continue(t, <<>>)
    BY <1>2, <1>5
  <2> QED
    BY <1>1, <1>5, <2>1, NothingLeft
<1> QED
  BY <1>4, <1>5

LEMMA AttachSubscribersGoes ==
  ASSUME Regular, NEW t \in Threads, AttachSubscribers(t)
  PROVE  LET p == Head(job[t]).pub IN
         Jobs' /\ Goes(t, {Ensure(p, s) : s \in Listed \ {p}} \cup {Rebuild(p)})
<1> DEFINE p == Head(job[t]).pub
           S == Listed \ {p}
<1>1. job[t] # <<>> /\ p \in Parts /\ S \in SUBSET Parts
  BY AtFacts DEF AttachSubscribers, PubOps, Listed
<1>2. PICK o \in SetToSeqs(S) : Continue(t, [i \in DOMAIN o |-> Ensure(p, o[i])] \o <<Rebuild(p)>>)
  BY DEF AttachSubscribers, ForEach
<1> DEFINE r == [i \in DOMAIN o |-> Ensure(p, o[i])]
           a == r \o <<Rebuild(p)>>
<1>3. r \in Seq(Steps) /\ Members(r) = {Ensure(p, s) : s \in S}
  BY <1>1, Loops
<1>4. Continue(t, a)
  BY <1>2
<1> HIDE DEF p, S
<1> HIDE DEF r
<1>5. a \in Seq(Steps) /\ Fits(Head(job[t]), a) /\ Members(a) = {Ensure(p, s) : s \in S} \cup {Rebuild(p)}
  BY <1>1, <1>3, AttachFits
<1>6. \A x \in Members(a) : Apart(x)
  <2>1. \A s \in S : s \in Parts /\ s # p
    BY <1>1 DEF S
  <2> QED
    BY <1>1, <1>5, <2>1, StepFacts DEF Apart
<1> HIDE DEF a
<1>7. Jobs' /\ Goes(t, Members(a))
  BY <1>1, <1>4, <1>5, <1>6, Passed
<1> QED
  BY <1>5, <1>7 DEF p, S

LEMMA AttachPublishersGoes ==
  ASSUME Regular, NEW t \in Threads, AttachPublishers(t)
  PROVE  LET s == Head(job[t]).p IN Jobs' /\ Goes(t, {Follow(p, s) : p \in Listed \ {s}})
<1> DEFINE s == Head(job[t]).p
           S == Listed \ {s}
<1>1. job[t] # <<>> /\ s \in Parts /\ S \in SUBSET Parts
  BY AtFacts DEF AttachPublishers, TaskOps, Listed
<1>2. PICK o \in SetToSeqs(S) : Continue(t, [i \in DOMAIN o |-> Follow(o[i], s)])
  BY DEF AttachPublishers, ForEach
<1> DEFINE a == [i \in DOMAIN o |-> Follow(o[i], s)]
<1>3. a \in Seq(Steps) /\ Members(a) = {Follow(p, s) : p \in S}
  BY <1>1, Loops
<1>4. Continue(t, a)
  BY <1>2
<1>5. \A p \in S : p \in Parts /\ p # s
  BY <1>1
<1> HIDE DEF a, s, S
<1>6. \A x \in Members(a) : Plain(x) /\ Apart(x)
  BY <1>1, <1>3, <1>5, StepFacts DEF Apart, Plain
<1>7. Jobs' /\ Goes(t, Members(a))
  BY <1>1, <1>3, <1>4, <1>6, LoopLeft
<1> QED
  BY <1>3, <1>7 DEF s, S

LEMMA AttachPublisherGoes ==
  ASSUME Regular, NEW t \in Threads, AttachPublisher(t)
  PROVE  LET h == Head(job[t]) IN
         /\ Jobs'
         /\ Goes(t, IF h.pub \in publishing THEN {Ensure(h.pub, h.sub), Rebuild(h.pub)} ELSE {})
<1> DEFINE h == Head(job[t])
<1>1. job[t] # <<>> /\ h.op = "follow" /\ Apart(h) /\ h.pub \in Parts /\ h.sub \in Parts
  BY AtFacts DEF AttachPublisher, PairOps
<1>2. h.pub # h.sub
  BY <1>1 DEF Apart
<1>3. CASE h.pub \in publishing
  <2>1. Continue(t, <<Ensure(h.pub, h.sub), Rebuild(h.pub)>>)
    BY <1>3 DEF AttachPublisher
  <2> QED
    BY <1>1, <1>2, <1>3, <2>1, TwoLeft
<1>4. CASE h.pub \notin publishing
  <2>1. Continue(t, <<>>)
    BY <1>4 DEF AttachPublisher
  <2> QED
    BY <1>1, <1>4, <2>1, NothingLeft
<1> QED
  BY <1>3, <1>4

LEMMA DetachGoes ==
  ASSUME Regular, NEW t \in Threads, DetachPublisher(t)
  PROVE  LET p == Head(job[t]).pub IN Jobs' /\ Goes(t, {Drop(p, s) : s \in Listed \ {p}})
<1> DEFINE p == Head(job[t]).pub
           S == Listed \ {p}
<1>1. job[t] # <<>> /\ p \in Parts /\ S \in SUBSET Parts
  BY AtFacts DEF DetachPublisher, PubOps, Listed
<1>2. PICK o \in SetToSeqs(S) : Continue(t, [i \in DOMAIN o |-> Drop(p, o[i])])
  BY DEF DetachPublisher, ForEach
<1> DEFINE a == [i \in DOMAIN o |-> Drop(p, o[i])]
<1>3. a \in Seq(Steps) /\ Members(a) = {Drop(p, s) : s \in S}
  BY <1>1, Loops
<1>4. Continue(t, a)
  BY <1>2
<1> HIDE DEF a, p, S
<1>6. \A x \in Members(a) : Plain(x) /\ Apart(x)
  BY <1>1, <1>3, StepFacts DEF Apart, Plain
<1>7. Jobs' /\ Goes(t, Members(a))
  BY <1>1, <1>3, <1>4, <1>6, LoopLeft
<1> QED
  BY <1>3, <1>7 DEF p, S

LEMMA SubscribeLostGoes ==
  ASSUME Regular, NEW t \in Threads, SubscribeLost(t)
  PROVE  LET s == Head(job[t]).p IN Jobs' /\ Goes(t, {Drop(p, s) : p \in {q \in Parts : down[s][q] # 0}})
<1> DEFINE s == Head(job[t]).p
           S == {q \in Parts : down[s][q] # 0}
<1>1. job[t] # <<>> /\ s \in Parts /\ S \in SUBSET Parts
  BY AtFacts DEF SubscribeLost, TaskOps
<1>2. PICK o \in SetToSeqs(S) : Continue(t, [i \in DOMAIN o |-> Drop(o[i], s)])
  BY DEF SubscribeLost, ForEach
<1> DEFINE a == [i \in DOMAIN o |-> Drop(o[i], s)]
<1>3. a \in Seq(Steps) /\ Members(a) = {Drop(p, s) : p \in S}
  BY <1>1, Loops
<1>4. Continue(t, a)
  BY <1>2
<1> HIDE DEF a, s, S
<1>6. \A x \in Members(a) : Plain(x) /\ Apart(x)
  BY <1>1, <1>3, StepFacts DEF Apart, Plain
<1>7. Jobs' /\ Goes(t, Members(a))
  BY <1>1, <1>3, <1>4, <1>6, LoopLeft
<1> QED
  BY <1>3, <1>7 DEF s, S

LEMMA RebuildAllGoes ==
  ASSUME Regular, NEW t \in Threads, RebuildAll(t)
  PROVE  Jobs' /\ Goes(t, {Rebuild(p) : p \in Listed})
<1> DEFINE S == Listed
<1>1. job[t] # <<>> /\ S \in SUBSET Parts /\ Head(job[t]).p \in Parts
  BY AtFacts DEF RebuildAll, TaskOps, Listed
<1>2. PICK o \in SetToSeqs(S) : Continue(t, [i \in DOMAIN o |-> Rebuild(o[i])])
  BY DEF RebuildAll, ForEach
<1> DEFINE a == [i \in DOMAIN o |-> Rebuild(o[i])]
<1>3. a \in Seq(Steps) /\ Members(a) = {Rebuild(p) : p \in S}
  BY <1>1, Loops
<1>4. Continue(t, a)
  BY <1>2
<1> HIDE DEF a, S
<1>6. \A x \in Members(a) : Plain(x) /\ Apart(x)
  BY <1>1, <1>3, StepFacts DEF Apart, Plain
<1>7. Jobs' /\ Goes(t, Members(a))
  BY <1>1, <1>3, <1>4, <1>6, LoopLeft
<1> QED
  BY <1>3, <1>7 DEF S

LEMMA StartRebuildGoes ==
  ASSUME Regular, NEW t \in Threads, StartRebuild(t)
  PROVE  LET p == Head(job[t]).pub IN
         Jobs' /\ Goes(t, {Collect(p, "publish" \in caps[p], Listed \ {p}, {})})
<1> DEFINE p == Head(job[t]).pub
           x == Collect(p, "publish" \in caps[p], Listed \ {p}, {})
<1>1. job[t] # <<>> /\ p \in Parts
  BY AtFacts DEF StartRebuild, PubOps
<1>2. x \in Steps /\ x.op = "collect" /\ x.pub = p /\ x.rest = Listed \ {p} /\ x.list = {}
  <2> DEFINE m == "publish" \in caps[p]
             r == Listed \ {p}
  <2>1. m \in BOOLEAN /\ r \in SUBSET Parts /\ {} \in SUBSET Dts
    BY DEF Listed
  <2> HIDE DEF m, r, p
  <2>2. LET y == Collect(p, m, r, {}) IN
        y \in Steps /\ y.op = "collect" /\ y.pub = p /\ y.may = m /\ y.rest = r /\ y.list = {}
    BY <1>1, <2>1, StepFacts
  <2> QED
    BY <2>2 DEF m, r
<1>3. Continue(t, <<x>>)
  BY DEF StartRebuild
<1> HIDE DEF x
<1>4. Apart(x)
  BY <1>2, FS_EmptySet DEF Apart
<1>5. Jobs' /\ Goes(t, {x})
  BY <1>1, <1>2, <1>3, <1>4, OneLeft
<1> QED
  BY <1>5 DEF x

\* What a rebuild adds for one subscriber.
Added(x, sub) ==
  IF Live(sub) /\ x.may /\ "subscribe" \in caps[sub] /\ x.pub \notin unsub[sub] /\ down[sub][x.pub] # 0
  THEN {<<x.pub, sub, down[sub][x.pub]>>} ELSE {}

LEMMA CollectGoes ==
  ASSUME Regular, Mapped, NEW t \in Threads, CollectDownTrack(t)
  PROVE  LET h == Head(job[t]) IN
         /\ Jobs'
         /\ \E sub \in h.rest :
              Goes(t, {Collect(h.pub, h.may, h.rest \ {sub}, h.list \cup Added(h, sub))})
<1> DEFINE h == Head(job[t])
<1>1. job[t] # <<>> /\ h.op = "collect" /\ h \in Steps /\ h.pub \in Parts /\ Apart(h)
  BY AtFacts DEF CollectDownTrack
<1>2. h.may \in BOOLEAN /\ h.rest \subseteq Parts /\ h.list \subseteq Dts
  BY <1>1, StepKinds
<1>3. PICK sub \in h.rest :
        LET dt == {<<h.pub, sub, k>> : k \in {down[sub][h.pub]} \ {0}}
            on == /\ Live(sub) /\ h.may
                  /\ "subscribe" \in caps[sub] /\ h.pub \notin unsub[sub]
        IN  Continue(t, <<Collect(h.pub, h.may, h.rest \ {sub},
                                  IF on THEN h.list \cup dt ELSE h.list)>>)
  BY DEF CollectDownTrack
<1> DEFINE l == h.list \cup Added(h, sub)
           x == Collect(h.pub, h.may, h.rest \ {sub}, l)
<1>4. sub \in Parts
  BY <1>2
<1>5. Continue(t, <<x>>)
  <2> DEFINE dt == {<<h.pub, sub, k>> : k \in {down[sub][h.pub]} \ {0}}
             on == /\ Live(sub) /\ h.may
                   /\ "subscribe" \in caps[sub] /\ h.pub \notin unsub[sub]
  <2>1. dt = IF down[sub][h.pub] # 0 THEN {<<h.pub, sub, down[sub][h.pub]>>} ELSE {}
    OBVIOUS
  <2>2. (IF on THEN h.list \cup dt ELSE h.list) = l
    BY <2>1 DEF Added
  <2> QED
    BY <1>3, <2>2
<1>6. Added(h, sub) \subseteq Dts /\ IsFiniteSet(Added(h, sub)) /\ \A dt \in Added(h, sub) : dt[1] = h.pub
  <2>1. CASE Added(h, sub) = {}
    BY <2>1, FS_EmptySet
  <2>2. CASE Added(h, sub) # {}
    <3>1. Live(sub) /\ down[sub][h.pub] # 0 /\ Added(h, sub) = {<<h.pub, sub, down[sub][h.pub]>>}
      BY <2>2 DEF Added
    <3>2. <<h.pub, sub, down[sub][h.pub]>> \in bound
      BY <1>1, <1>4, <3>1 DEF Mapped
    <3>3. bound \subseteq Dts
      BY DEF Regular, Types
    <3>4. <<h.pub, sub, down[sub][h.pub]>>[1] = h.pub
      OBVIOUS
    <3>5. \A y : IsFiniteSet({y})
      BY FS_Singleton
    <3> HIDE DEF h
    <3> QED
      BY <3>1, <3>2, <3>3, <3>4, <3>5
  <2> QED
    BY <2>1, <2>2
<1>7. l \subseteq Dts /\ IsFiniteSet(l) /\ \A dt \in l : dt[1] = h.pub
  BY <1>1, <1>2, <1>6, FS_Union DEF Apart
<1> HIDE DEF l
<1>8. x \in Steps /\ x.op = "collect" /\ x.pub = h.pub /\ x.rest = h.rest \ {sub} /\ x.list = l
  <2>1. h.rest \ {sub} \in SUBSET Parts /\ l \in SUBSET Dts
    BY <1>2, <1>7
  <2> QED
    BY <1>1, <1>2, <2>1, StepFacts
<1> HIDE DEF x
<1>9. Apart(x)
  BY <1>1, <1>7, <1>8 DEF Apart
<1>10. Jobs' /\ Goes(t, {x})
  BY <1>1, <1>5, <1>8, <1>9, OneLeft
<1> QED
  BY <1>10 DEF x, l

LEMMA AnnounceGoes ==
  ASSUME Regular, NEW t \in Threads, AnnounceTrack(t)
  PROVE  LET p == Head(job[t]).pub IN
         Jobs' /\ Goes(t, IF "publish" \in caps[p] THEN {Attach(p)} ELSE {})
<1> DEFINE p == Head(job[t]).pub
<1>1. job[t] # <<>> /\ p \in Parts
  BY AtFacts DEF AnnounceTrack, PubOps
<1>2. CASE "publish" \in caps[p]
  <2>1. Continue(t, <<Attach(p)>>)
    BY <1>2 DEF AnnounceTrack
  <2>2. Attach(p) \in Steps /\ Plain(Attach(p)) /\ Apart(Attach(p))
    BY <1>1, StepFacts DEF Plain, Apart
  <2> QED
    BY <1>1, <1>2, <2>1, <2>2, OneLeft
<1>3. CASE "publish" \notin caps[p]
  <2>1. Continue(t, <<>>)
    BY <1>3 DEF AnnounceTrack
  <2> QED
    BY <1>1, <1>3, <2>1, NothingLeft
<1> QED
  BY <1>2, <1>3

LEMMA PublishGainedGoes ==
  ASSUME Regular, NEW t \in Threads, PublishGained(t)
  PROVE  LET p == Head(job[t]).p IN
         Jobs' /\ Goes(t, IF p \in publishing THEN {Attach(p)} ELSE {})
<1> DEFINE p == Head(job[t]).p
<1>1. job[t] # <<>> /\ p \in Parts
  BY AtFacts DEF PublishGained, TaskOps
<1>2. CASE p \in publishing
  <2>1. Continue(t, <<Attach(p)>>)
    BY <1>2 DEF PublishGained
  <2>2. Attach(p) \in Steps /\ Plain(Attach(p)) /\ Apart(Attach(p))
    BY <1>1, StepFacts DEF Plain, Apart
  <2> QED
    BY <1>1, <1>2, <2>1, <2>2, OneLeft
<1>3. CASE p \notin publishing
  <2>1. Continue(t, <<>>)
    BY <1>3 DEF PublishGained
  <2> QED
    BY <1>1, <1>3, <2>1, NothingLeft
<1> QED
  BY <1>2, <1>3

LEMMA PublishLostGoes ==
  ASSUME Regular, NEW t \in Threads, PublishLost(t)
  PROVE  LET p == Head(job[t]).p IN
         Jobs' /\ Goes(t, IF p \in publishing THEN {Detach(p)} ELSE {})
<1> DEFINE p == Head(job[t]).p
<1>1. job[t] # <<>> /\ p \in Parts
  BY AtFacts DEF PublishLost, TaskOps
<1>2. CASE p \in publishing
  <2>1. Continue(t, <<Detach(p)>>)
    BY <1>2 DEF PublishLost
  <2>2. Detach(p) \in Steps /\ Plain(Detach(p)) /\ Apart(Detach(p))
    BY <1>1, StepFacts DEF Plain, Apart
  <2> QED
    BY <1>1, <1>2, <2>1, <2>2, OneLeft
<1>3. CASE p \notin publishing
  <2>1. Continue(t, <<>>)
    BY <1>3 DEF PublishLost
  <2> QED
    BY <1>1, <1>3, <2>1, NothingLeft
<1> QED
  BY <1>2, <1>3

LEMMA TakeDownGoes ==
  ASSUME Regular, NEW t \in Threads, TakeDown(t)
  PROVE  LET p == Head(job[t]).p IN
         Jobs' /\ Goes(t, IF Live(p) /\ "publish" \in caps[p] THEN {Detach(p)} ELSE {})
<1> DEFINE p == Head(job[t]).p
           served == Live(p) /\ "publish" \in caps[p]
<1>1. job[t] # <<>> /\ p \in Parts
  BY AtFacts DEF TakeDown, TaskOps
<1>2. CASE served
  <2>1. Continue(t, <<Detach(p)>>)
    BY <1>2 DEF TakeDown
  <2>2. Detach(p) \in Steps /\ Plain(Detach(p)) /\ Apart(Detach(p))
    BY <1>1, StepFacts DEF Plain, Apart
  <2> QED
    BY <1>1, <1>2, <2>1, <2>2, OneLeft
<1>3. CASE ~served
  <2>1. Continue(t, <<>>)
    BY <1>3 DEF TakeDown
  <2> QED
    BY <1>1, <1>3, <2>1, NothingLeft
<1> QED
  BY <1>2, <1>3

LEMMA RemoveParticipantGoes ==
  ASSUME Regular, NEW t \in Threads, RemoveParticipant(t)
  PROVE  Jobs' /\ Goes(t, {Detach(Head(job[t]).p)})
<1> DEFINE p == Head(job[t]).p
<1>1. job[t] # <<>> /\ p \in Parts
  BY AtFacts DEF RemoveParticipant, TaskOps
<1>2. Continue(t, <<Detach(p)>>)
  BY DEF RemoveParticipant
<1>3. Detach(p) \in Steps /\ Plain(Detach(p)) /\ Apart(Detach(p))
  BY <1>1, StepFacts DEF Plain, Apart
<1> QED
  BY <1>1, <1>2, <1>3, OneLeft

\* A subscription never names the subscriber.
LEMMA ApplySubscriptionGoes ==
  ASSUME Regular, NEW t \in Threads, ApplySubscription(t)
  PROVE  LET h == Head(job[t]) IN
         /\ Jobs'
         /\ Goes(t, IF h.pub \notin Listed THEN {}
                    ELSE IF h.want THEN {Ensure(h.pub, h.sub), Rebuild(h.pub)}
                    ELSE {Rebuild(h.pub)})
<1> DEFINE h == Head(job[t])
<1>1. job[t] # <<>> /\ h.op = "apply" /\ h \in Steps /\ h.pub \in Parts /\ h.sub \in Parts /\ Apart(h)
  BY AtFacts DEF ApplySubscription
<1>2. h.pub # h.sub
  BY <1>1 DEF Apart
<1>3. CASE h.pub \notin Listed
  <2>1. Continue(t, <<>>)
    BY <1>3 DEF ApplySubscription
  <2> QED
    BY <1>1, <1>3, <2>1, NothingLeft
<1>4. CASE h.pub \in Listed /\ h.want
  <2>1. Continue(t, <<Ensure(h.pub, h.sub), Rebuild(h.pub)>>)
    BY <1>4 DEF ApplySubscription
  <2> QED
    BY <1>1, <1>2, <1>4, <2>1, TwoLeft
<1>5. CASE h.pub \in Listed /\ ~h.want
  <2>1. Continue(t, <<Rebuild(h.pub)>>)
    BY <1>5 DEF ApplySubscription
  <2>2. Rebuild(h.pub) \in Steps /\ Plain(Rebuild(h.pub)) /\ Apart(Rebuild(h.pub))
    BY <1>1, StepFacts DEF Plain, Apart
  <2>3. Jobs' /\ Goes(t, {Rebuild(h.pub)})
    BY <1>1, <2>1, <2>2, OneLeft
  <2> QED
    BY <1>5, <2>3
<1> QED
  BY <1>3, <1>4, <1>5

-----------------------------------------------------------------------------
(* Operations that begin                                                   *)

LEMMA OneBegun ==
  ASSUME Regular, NEW t \in Threads, NEW x \in Steps, Start(t, <<x>>), Apart(x), Plain(x) \/ x.op = "unlist"
  PROVE  Jobs' /\ Begins(t, {x})
<1>1. <<x>> \in Seq(Steps)
  OBVIOUS
<1>2. Members(<<x>>) = {x}
  BY MembersFacts
<1>3. Tidy(<<x>>)
  <2>1. Len(<<x>>) = 1 /\ 1..1 = {1} /\ <<x>>[1] = x
    OBVIOUS
  <2> QED
    BY <2>1 DEF Tidy, Plain
<1> QED
  BY <1>1, <1>2, <1>3, Begun

LEMMA ConnectedBegins ==
  ASSUME Regular, NEW p \in Parts, Connected(p)
  PROVE  Jobs' /\ Begins(<<"connect", p>>, {Task("attachPubs", p)})
<1> DEFINE x == Task("attachPubs", p)
<1>1. x \in Steps /\ Apart(x) /\ Plain(x)
  BY StepFacts DEF Apart, Plain, TaskOps
<1>2. <<"connect", p>> \in Threads
  BY ThreadFacts
<1>3. Start(<<"connect", p>>, <<x>>)
  BY DEF Connected
<1> HIDE DEF x
<1>4. Jobs' /\ Begins(<<"connect", p>>, {x})
  BY <1>1, <1>2, <1>3, OneBegun
<1> QED
  BY <1>4 DEF x

LEMMA OnAudioTrackBegins ==
  ASSUME Regular, NEW p \in Parts, OnAudioTrack(p)
  PROVE  Jobs' /\ Begins(<<"track", p>>, {Announce(p)})
<1>1. Announce(p) \in Steps /\ Apart(Announce(p)) /\ Plain(Announce(p))
  BY StepFacts DEF Apart, Plain
<1>2. <<"track", p>> \in Threads
  BY ThreadFacts
<1>3. Start(<<"track", p>>, <<Announce(p)>>)
  BY DEF OnAudioTrack
<1> QED
  BY <1>1, <1>2, <1>3, OneBegun

LEMMA TrackEndsBegins ==
  ASSUME Regular, NEW p \in Parts, TrackEnds(p)
  PROVE  Jobs' /\ Begins(<<"ended", p>>, {Task("trackEnded", p)})
<1> DEFINE x == Task("trackEnded", p)
<1>1. x \in Steps /\ Apart(x) /\ Plain(x)
  BY StepFacts DEF Apart, Plain, TaskOps
<1>2. <<"ended", p>> \in Threads
  BY ThreadFacts
<1>3. Start(<<"ended", p>>, <<x>>)
  BY DEF TrackEnds
<1> HIDE DEF x
<1>4. Jobs' /\ Begins(<<"ended", p>>, {x})
  BY <1>1, <1>2, <1>3, OneBegun
<1> QED
  BY <1>4 DEF x

LEMMA CloseBegins ==
  ASSUME Regular, NEW p \in Parts, Close(p)
  PROVE  Jobs' /\ Begins(<<"close", p>>, {Task("unlist", p)})
<1> DEFINE x == Task("unlist", p)
<1>1. x \in Steps /\ Apart(x) /\ x.op = "unlist"
  BY StepFacts DEF Apart, TaskOps
<1>2. <<"close", p>> \in Threads
  BY ThreadFacts
<1>3. Start(<<"close", p>>, <<x>>)
  BY DEF Close
<1> HIDE DEF x
<1>4. Jobs' /\ Begins(<<"close", p>>, {x})
  BY <1>1, <1>2, <1>3, OneBegun
<1> QED
  BY <1>4 DEF x

LEMMA SetSubscriptionBegins ==
  ASSUME Regular, NEW s \in Parts, NEW p \in Parts, NEW want \in BOOLEAN, SetSubscription(s, p, want)
  PROVE  Jobs' /\ Begins(<<"loop", s>>, {Apply(p, s, want)})
<1> DEFINE x == Apply(p, s, want)
<1>1. x \in Steps /\ x.op = "apply" /\ x.pub = p /\ x.sub = s
  BY StepFacts
<1>2. <<"loop", s>> \in Threads
  BY ThreadFacts
<1>3. Start(<<"loop", s>>, <<x>>) /\ p # s
  BY DEF SetSubscription, Apply
<1> HIDE DEF x
<1>4. Apart(x) /\ Plain(x)
  BY <1>1, <1>3 DEF Apart, Plain
<1>5. Jobs' /\ Begins(<<"loop", s>>, {x})
  BY <1>1, <1>2, <1>3, <1>4, OneBegun
<1> QED
  BY <1>5 DEF x

\* The tasks of a caps command.
CapsTasks(p, new) ==
  (IF "publish" \in caps[p] \ new THEN {Task("publishLost", p)} ELSE {})
  \cup (IF "publish" \in new \ caps[p] THEN {Task("publishGained", p)} ELSE {})
  \cup (IF "subscribe" \in caps[p] \ new THEN {Task("subscribeLost", p)} ELSE {})
  \cup (IF "subscribe" \in new \ caps[p] THEN {Task("attachPubs", p)} ELSE {})
  \cup {Task("rebuildAll", p)}

LEMMA ApplyCapsBegins ==
  ASSUME Regular, NEW p \in Parts, NEW new \in SUBSET Caps, ApplyCaps(p, new)
  PROVE  Jobs' /\ Begins(Control, CapsTasks(p, new))
<1> DEFINE Do(b, op) == IF b THEN <<Task(op, p)>> ELSE <<>>
           a1 == Do("publish" \in caps[p] \ new, "publishLost")
           a2 == Do("publish" \in new \ caps[p], "publishGained")
           a3 == Do("subscribe" \in caps[p] \ new, "subscribeLost")
           a4 == Do("subscribe" \in new \ caps[p], "attachPubs")
           a5 == <<Task("rebuildAll", p)>>
           a == a1 \o a2 \o a3 \o a4 \o a5
<1>1. Start(Control, a)
  BY DEF ApplyCaps
<1>2. \A op \in TaskOps : Task(op, p) \in Steps /\ Task(op, p).op = op
  BY StepFacts
<1>3. ASSUME NEW b \in BOOLEAN, NEW op \in TaskOps
      PROVE  Do(b, op) \in Seq(Steps) /\ Members(Do(b, op)) = IF b THEN {Task(op, p)} ELSE {}
  <2>1. Task(op, p) \in Steps
    BY <1>2
  <2>2. <<Task(op, p)>> \in Seq(Steps) /\ <<>> \in Seq(Steps)
    BY <2>1
  <2> QED
    BY <2>2, MembersFacts
<1>4. {"publishLost", "publishGained", "subscribeLost", "attachPubs", "rebuildAll"} \subseteq TaskOps
  BY DEF TaskOps
<1>5. /\ a1 \in Seq(Steps) /\ Members(a1) = IF "publish" \in caps[p] \ new THEN {Task("publishLost", p)} ELSE {}
      /\ a2 \in Seq(Steps) /\ Members(a2) = IF "publish" \in new \ caps[p] THEN {Task("publishGained", p)} ELSE {}
      /\ a3 \in Seq(Steps) /\ Members(a3) = IF "subscribe" \in caps[p] \ new THEN {Task("subscribeLost", p)} ELSE {}
      /\ a4 \in Seq(Steps) /\ Members(a4) = IF "subscribe" \in new \ caps[p] THEN {Task("attachPubs", p)} ELSE {}
  BY <1>3, <1>4
<1>6. a5 \in Seq(Steps) /\ Members(a5) = {Task("rebuildAll", p)}
  <2>1. Task("rebuildAll", p) \in Steps
    BY <1>2, <1>4
  <2> QED
    BY <2>1, MembersFacts
<1> HIDE DEF a1, a2, a3, a4, a5
<1>7. a1 \o a2 \in Seq(Steps) /\ Members(a1 \o a2) = Members(a1) \cup Members(a2)
  BY <1>5, MembersOfBoth
<1> DEFINE b2 == a1 \o a2
           b3 == b2 \o a3
           b4 == b3 \o a4
<1>15. b2 \in Seq(Steps)
  BY <1>7
<1> HIDE DEF b2
<1>8. b3 \in Seq(Steps) /\ Members(b3) = Members(b2) \cup Members(a3)
  BY <1>5, <1>15, MembersOfBoth
<1> HIDE DEF b3
<1>9. b4 \in Seq(Steps) /\ Members(b4) = Members(b3) \cup Members(a4)
  BY <1>5, <1>8, MembersOfBoth
<1> HIDE DEF b4
<1>10. b4 \o a5 \in Seq(Steps) /\ Members(b4 \o a5) = Members(b4) \cup Members(a5)
  BY <1>6, <1>9, MembersOfBoth
<1>11. a = b4 \o a5
  BY DEF b2, b3, b4
<1> HIDE DEF a
<1>12. a \in Seq(Steps) /\ Members(a) = CapsTasks(p, new)
  <2>1. Members(a) = Members(a1) \cup Members(a2) \cup Members(a3) \cup Members(a4) \cup Members(a5)
    BY <1>7, <1>8, <1>9, <1>10, <1>11 DEF b2
  <2> QED
    BY <1>5, <1>6, <1>10, <1>11, <2>1 DEF CapsTasks
<1>13. \A x \in Members(a) : Plain(x) /\ Apart(x)
  <2> DEFINE T == {"publishLost", "publishGained", "subscribeLost", "attachPubs", "rebuildAll"}
  <2>1. \A x \in Members(a) : \E op \in T : x = Task(op, p)
    BY <1>12 DEF CapsTasks
  <2>2. \A x \in Members(a) : x.op \in T
    BY <1>2, <1>4, <2>1
  <2> QED
    BY <2>2 DEF Plain, Apart
<1>14. Tidy(a) /\ Control \in Threads
  BY <1>12, <1>13, PlainFits, ThreadFacts
<1> QED
  BY <1>1, <1>12, <1>13, <1>14, Begun

-----------------------------------------------------------------------------
(* A new down track                                                        *)

LEMMA FiniteImage ==
  ASSUME NEW S, IsFiniteSet(S), NEW f, \A x \in S : IsFiniteSet(f[x])
  PROVE  IsFiniteSet(UNION {f[x] : x \in S})
<1> DEFINE T == {f[x] : x \in S}
           g == [x \in S |-> f[x]]
<1>1. g \in Surjection(S, T)
  BY DEF Surjection
<1> HIDE DEF g
<1>2. IsFiniteSet(T)
  BY <1>1, FS_Surjection
<1>3. \A X \in T : IsFiniteSet(X)
  OBVIOUS
<1> HIDE DEF T
<1> QED
  BY <1>2, <1>3, FS_UNION DEF T

LEMMA FiniteThreads == IsFiniteSet(Threads)
<1> DEFINE K == {"loop", "connect", "track", "ended", "close"}
<1>1. IsFiniteSet(K)
  <2>1. \A x : IsFiniteSet({x})
    BY FS_Singleton
  <2>2. IsFiniteSet({"loop"} \cup {"connect"}) /\ IsFiniteSet({"track"} \cup {"ended"})
    BY <2>1, FS_Union
  <2>3. IsFiniteSet(({"loop"} \cup {"connect"}) \cup ({"track"} \cup {"ended"}))
    BY <2>2, FS_Union
  <2>4. IsFiniteSet((({"loop"} \cup {"connect"}) \cup ({"track"} \cup {"ended"})) \cup {"close"})
    BY <2>1, <2>3, FS_Union
  <2>5. K = (({"loop"} \cup {"connect"}) \cup ({"track"} \cup {"ended"})) \cup {"close"}
    OBVIOUS
  <2> QED
    BY <2>4, <2>5
<1>2. IsFiniteSet(K \X Parts)
  BY <1>1, PartsAssumption, FS_Product
<1>3. IsFiniteSet({Control})
  BY FS_Singleton
<1> QED
  BY <1>2, <1>3, FS_Union DEF Threads

LEMMA FiniteReferenced ==
  ASSUME Regular
  PROVE  IsFiniteSet(Referenced)
<1> DEFINE C == {u \in Threads : At(u, "collect")}
           l == [t \in C |-> Head(job[t]).list]
<1>1. IsFiniteSet(C)
  BY FiniteThreads, FS_Subset
<1>2. \A t \in C : IsFiniteSet(l[t])
  BY AtFacts DEF Apart
<1>3. Lists = UNION {l[t] : t \in C}
  BY DEF Lists
<1> HIDE DEF l, C
<1>4. IsFiniteSet(Lists)
  <2>1. IsFiniteSet(UNION {l[t] : t \in C})
    BY <1>1, <1>2, FiniteImage
  <2> QED
    BY <1>3, <2>1
<1> DEFINE F == UNION {fanout[p] : p \in Parts}
<1>5. IsFiniteSet(F)
  <2>1. IsFiniteSet(Parts) /\ \A p \in Parts : IsFiniteSet(fanout[p])
    BY PartsAssumption DEF Regular, Types
  <2> QED
    BY <2>1, FiniteImage
<1>6. IsFiniteSet(bound)
  BY DEF Regular, Types
<1>7. Referenced = (bound \cup F) \cup Lists
  BY DEF Referenced
<1> HIDE DEF F
<1>8. IsFiniteSet(bound \cup F)
  BY <1>5, <1>6, FS_Union
<1>9. IsFiniteSet((bound \cup F) \cup Lists)
  BY <1>4, <1>8, FS_Union
<1> QED
  BY <1>7, <1>9

LEMMA FreshFacts ==
  ASSUME Regular, NEW pub, NEW sub
  PROVE  FreshDt(pub, sub) \in Nat \ {0} /\ <<pub, sub, FreshDt(pub, sub)>> \notin Referenced
<1> DEFINE n == Cardinality(Referenced)
           I == 1..(n + 1)
<1>1. IsFiniteSet(Referenced) /\ n \in Nat
  BY FiniteReferenced, FS_CardinalityType
<1>2. IsFiniteSet(I) /\ n < Cardinality(I)
  <2> HIDE DEF n
  <2> DEFINE m == n + 1
  <2>1. 1 \in Int /\ m \in Int /\ m >= 1 /\ m > n
    BY <1>1
  <2> HIDE DEF m
  <2>2. IsFiniteSet(1..m) /\ Cardinality(1..m) = IF 1 > m THEN 0 ELSE m - 1 + 1
    BY <2>1, FS_Interval
  <2>3. n < Cardinality(1..m)
    BY <1>1, <2>1, <2>2
  <2> QED
    BY <2>2, <2>3 DEF m
<1>3. \E k \in I : <<pub, sub, k>> \notin Referenced
  <2> SUFFICES ASSUME \A k \in I : <<pub, sub, k>> \in Referenced PROVE FALSE
    OBVIOUS
  <2> DEFINE f == [k \in I |-> <<pub, sub, k>>]
  <2>1. f \in [I -> Referenced] /\ \A k \in I : f[k] = <<pub, sub, k>>
    OBVIOUS
  <2> HIDE DEF f, I, n
  <2>2. Cardinality(Referenced) < Cardinality(I)
    BY <1>2 DEF n
  <2>3. \E x, y \in I : x # y /\ f[x] = f[y]
    BY <1>1, <1>2, <2>1, <2>2, FS_PigeonHole
  <2> QED
    BY <2>1, <2>3
<1>4. \A k \in I : k \in Nat \ {0}
  BY <1>1
<1> QED
  BY <1>3, <1>4 DEF FreshDt

-----------------------------------------------------------------------------
(* Types                                                                   *)

\* Steps that change nothing but what is to be done.
Quietly(t) ==
  \/ EnsureDownTrack(t) \/ AttachSubscribers(t) \/ AttachPublishers(t) \/ AttachPublisher(t)
  \/ StartRebuild(t) \/ CollectDownTrack(t) \/ AnnounceTrack(t) \/ ApplySubscription(t)
  \/ PublishGained(t) \/ SubscribeLost(t) \/ RebuildAll(t) \/ TakeDown(t)

LEMMA QuietlyRegular ==
  ASSUME Regular, Mapped, NEW t \in Threads, Quietly(t)
  PROVE  /\ Regular' /\ UNCHANGED <<roomVars, fanout, pktVars, orders, overlapped>>
         /\ \A u \in Threads : u # t => job'[u] = job[u]
         /\ job[t] # <<>>
<1>1. UNCHANGED <<roomVars, fanout, pktVars>>
  BY DEF Quietly, EnsureDownTrack, AttachSubscribers, AttachPublishers, AttachPublisher, StartRebuild,
         CollectDownTrack, AnnounceTrack, ApplySubscription, PublishGained, SubscribeLost, RebuildAll, TakeDown
<1>2. Jobs' /\ \E N : Goes(t, N)
  BY EnsureGoes, AttachSubscribersGoes, AttachPublishersGoes, AttachPublisherGoes, StartRebuildGoes,
     CollectGoes, AnnounceGoes, ApplySubscriptionGoes, PublishGainedGoes, SubscribeLostGoes,
     RebuildAllGoes, TakeDownGoes DEF Quietly
<1>3. UNCHANGED <<orders, overlapped>> /\ job[t] # <<>> /\ \A u \in Threads : u # t => job'[u] = job[u]
  BY <1>2 DEF Goes
<1>4. Regular'
  BY <1>1, <1>2, <1>3 DEF Regular, Jobs, Types, roomVars, pktVars
<1> QED
  BY <1>1, <1>3, <1>4

LEMMA CreateRegular ==
  ASSUME Regular, NEW t \in Threads, CreateDownTrack(t)
  PROVE  Regular' /\ Goes(t, {})
<1> DEFINE h == Head(job[t])
           k == FreshDt(h.pub, h.sub)
<1>1. job[t] # <<>> /\ h.op = "create" /\ h.pub \in Publishers /\ h.pub \in Parts /\ h.sub \in Parts
  BY AtFacts DEF CreateDownTrack, PairOps, Apart
<1>2. Jobs' /\ Goes(t, {})
  BY <1>1, NothingLeft DEF CreateDownTrack
<1>3. k \in Nat \ {0}
  BY FreshFacts
<1>4. <<h.pub, h.sub, k>> \in Dts
  BY <1>1, <1>3 DEF Dts
<1>5. \/ bound' = bound \cup {<<h.pub, h.sub, k>>} /\ down' = [down EXCEPT ![h.sub][h.pub] = k]
      \/ bound' = bound /\ down' = down
  BY DEF CreateDownTrack
<1>6. UNCHANGED <<life, caps, publishing, tracks, unsub, fanout, pkt, held, orders, overlapped>>
  BY DEF CreateDownTrack, pktVars, Continue
<1> HIDE DEF k, h
<1>7. bound' \subseteq Dts /\ IsFiniteSet(bound')
  <2> DEFINE dt == <<h.pub, h.sub, k>>
  <2>1. bound \subseteq Dts /\ IsFiniteSet(bound) /\ dt \in Dts
    BY <1>4 DEF Regular, Types
  <2> HIDE DEF dt
  <2>2. IsFiniteSet(bound \cup {dt})
    BY <2>1, FS_AddElement
  <2>3. bound' = bound \cup {dt} \/ bound' = bound
    BY <1>5 DEF dt
  <2> QED
    BY <2>1, <2>2, <2>3
<1>8. down' \in [Parts -> [Parts -> Nat]]
  <2>1. down \in [Parts -> [Parts -> Nat]] /\ k \in Nat
    BY <1>3 DEF Regular, Types
  <2> DEFINE row == [down[h.sub] EXCEPT ![h.pub] = k]
  <2>2. row \in [Parts -> Nat]
    BY <1>1, <2>1
  <2>3. down' = [down EXCEPT ![h.sub] = row] \/ down' = down
    BY <1>5
  <2> HIDE DEF row
  <2> QED
    BY <1>1, <2>1, <2>2, <2>3
<1> QED
  BY <1>2, <1>6, <1>7, <1>8 DEF Regular, Jobs, Types

LEMMA RemoveRegular ==
  ASSUME Regular, NEW t \in Threads, RemoveDownTrack(t)
  PROVE  Regular' /\ Goes(t, {})
<1> DEFINE h == Head(job[t])
<1>1. job[t] # <<>> /\ h.pub \in Parts /\ h.sub \in Parts
  BY AtFacts DEF RemoveDownTrack, PairOps
<1>2. Jobs' /\ Goes(t, {})
  BY <1>1, NothingLeft DEF RemoveDownTrack
<1>3. down' = [down EXCEPT ![h.sub][h.pub] = 0] /\ bound' \subseteq bound
  BY DEF RemoveDownTrack
<1>4. UNCHANGED <<life, caps, publishing, tracks, unsub, fanout, pkt, held, orders, overlapped>>
  BY DEF RemoveDownTrack, pktVars, Continue
<1>5. bound' \subseteq Dts /\ IsFiniteSet(bound')
  BY <1>3, FS_Subset DEF Regular, Types
<1>6. down' \in [Parts -> [Parts -> Nat]]
  BY <1>1, <1>3 DEF Regular, Types
<1> QED
  BY <1>2, <1>4, <1>5, <1>6 DEF Regular, Jobs, Types

LEMMA StoreRegular ==
  ASSUME Regular, NEW t \in Threads, StoreFanout(t)
  PROVE  Regular' /\ Goes(t, {})
<1> DEFINE h == Head(job[t])
<1>1. job[t] # <<>> /\ h.op = "collect" /\ h \in Steps /\ h.pub \in Parts /\ Apart(h)
  BY AtFacts DEF StoreFanout
<1>2. h.list \subseteq Dts /\ IsFiniteSet(h.list)
  BY <1>1, StepKinds DEF Apart
<1>3. Jobs' /\ Goes(t, {})
  BY <1>1, NothingLeft DEF StoreFanout
<1>4. fanout' = [fanout EXCEPT ![h.pub] = h.list]
  BY DEF StoreFanout
<1>5. UNCHANGED <<life, caps, publishing, tracks, down, bound, unsub, pkt, held, orders, overlapped>>
  BY DEF StoreFanout, roomVars, pktVars, Continue
<1>6. fanout' \in [Parts -> SUBSET Dts] /\ \A p \in Parts : IsFiniteSet(fanout'[p])
  BY <1>1, <1>2, <1>4 DEF Regular, Types
<1> QED
  BY <1>3, <1>5, <1>6 DEF Regular, Jobs, Types

LEMMA EmptiedRegular ==
  ASSUME Regular, NEW t \in Threads, DetachPublisher(t) \/ PublishLost(t)
  PROVE  /\ Regular'
         /\ LET h == Head(job[t])
                p == IF h.op = "detach" THEN h.pub ELSE h.p
            IN  p \in Parts /\ fanout' = [fanout EXCEPT ![p] = {}]
         /\ UNCHANGED <<roomVars, pktVars, orders, overlapped>>
<1> DEFINE h == Head(job[t])
           p == IF h.op = "detach" THEN h.pub ELSE h.p
<1>1. p \in Parts /\ fanout' = [fanout EXCEPT ![p] = {}] /\ UNCHANGED <<roomVars, pktVars, orders, overlapped>>
  <2>1. CASE DetachPublisher(t)
    <3>1. h.op = "detach" /\ h.pub \in Parts
      BY <2>1, AtFacts DEF DetachPublisher, PubOps
    <3> QED
      BY <2>1, <3>1 DEF DetachPublisher, Continue
  <2>2. CASE PublishLost(t)
    <3>1. h.op = "publishLost" /\ h.p \in Parts
      BY <2>2, AtFacts DEF PublishLost, TaskOps
    <3> QED
      BY <2>2, <3>1 DEF PublishLost, Continue
  <2> QED
    BY <2>1, <2>2
<1>2. Jobs'
  BY DetachGoes, PublishLostGoes
<1> HIDE DEF p
<1>3. fanout' \in [Parts -> SUBSET Dts] /\ \A q \in Parts : IsFiniteSet(fanout'[q])
  BY <1>1, FS_EmptySet DEF Regular, Types
<1>4. Regular'
  BY <1>1, <1>2, <1>3 DEF Regular, Jobs, Types, roomVars, pktVars
<1> QED
  BY <1>1, <1>4 DEF p

LEMMA RemoveParticipantRegular ==
  ASSUME Regular, NEW t \in Threads, RemoveParticipant(t)
  PROVE  Regular'
<1>1. Head(job[t]).p \in Parts
  BY AtFacts DEF RemoveParticipant, TaskOps
<1>2. Jobs'
  BY RemoveParticipantGoes
<1>3. life' \in [Parts -> {"out", "in", "connected", "closed", "left"}]
  BY <1>1 DEF RemoveParticipant, Regular, Types
<1>4. UNCHANGED <<caps, publishing, tracks, down, bound, unsub, fanout, pkt, held, orders, overlapped>>
  BY DEF RemoveParticipant, pktVars, Continue
<1> QED
  BY <1>2, <1>3, <1>4 DEF Regular, Jobs, Types

\* What begins or comes in between leaves the types as they are.
LEMMA BeginsRegular ==
  ASSUME Regular, NEW p \in Parts
  PROVE  /\ Connected(p) \/ OnAudioTrack(p) \/ TrackEnds(p) \/ Close(p) \/ Packet(p) => Regular'
         /\ \A c \in SUBSET Caps : Join(p, c) \/ ApplyCaps(p, c) => Regular'
         /\ \A q \in Parts, want \in BOOLEAN : SetSubscription(p, q, want) => Regular'
<1>1. ASSUME Connected(p) PROVE Regular'
  <2>1. Jobs' /\ Begins(<<"connect", p>>, {Task("attachPubs", p)})
    BY <1>1, ConnectedBegins
  <2>2. overlapped' \in BOOLEAN
    BY <2>1 DEF Begins, Regular, Types
  <2>3. life' \in [Parts -> {"out", "in", "connected", "closed", "left"}]
    BY <1>1 DEF Connected, Regular, Types
  <2> QED
    BY <1>1, <2>1, <2>2, <2>3 DEF Connected, Regular, Types, Jobs, pktVars
<1>2. ASSUME OnAudioTrack(p) PROVE Regular'
  <2>1. Jobs' /\ Begins(<<"track", p>>, {Announce(p)})
    BY <1>2, OnAudioTrackBegins
  <2>2. overlapped' \in BOOLEAN
    BY <2>1 DEF Begins, Regular, Types
  <2>3. tracks' \in [Parts -> 0..MaxTracks]
    BY <1>2, BoundAssumption DEF OnAudioTrack, Regular, Types
  <2>4. publishing' \subseteq Publishers
    BY <1>2 DEF OnAudioTrack, Regular, Types
  <2> QED
    BY <1>2, <2>1, <2>2, <2>3, <2>4 DEF OnAudioTrack, Regular, Types, Jobs, pktVars
<1>3. ASSUME TrackEnds(p) PROVE Regular'
  <2>1. Jobs' /\ overlapped' \in BOOLEAN
    BY <1>3, TrackEndsBegins DEF Begins, Regular, Types
  <2>2. publishing' \subseteq Publishers
    BY <1>3 DEF TrackEnds, Regular, Types
  <2> QED
    BY <1>3, <2>1, <2>2 DEF TrackEnds, Regular, Types, Jobs, pktVars
<1>4. ASSUME Close(p) PROVE Regular'
  <2>1. Jobs' /\ Begins(<<"close", p>>, {Task("unlist", p)})
    BY <1>4, CloseBegins
  <2>2. overlapped' \in BOOLEAN
    BY <2>1 DEF Begins, Regular, Types
  <2>3. life' \in [Parts -> {"out", "in", "connected", "closed", "left"}]
    BY <1>4 DEF Close, Regular, Types
  <2>4. bound' \subseteq bound
    BY <1>4 DEF Close
  <2>5. bound' \subseteq Dts /\ IsFiniteSet(bound')
    BY <2>4, FS_Subset DEF Regular, Types
  <2> QED
    BY <1>4, <2>1, <2>2, <2>3, <2>5 DEF Close, Regular, Types, Jobs, pktVars
<1>5. ASSUME Packet(p) PROVE Regular'
  <2>1. pkt' \in [Parts -> {"none", "read", "passed"}] /\ held' \in [Parts -> BOOLEAN]
    <3> DEFINE b == "publish" \in caps[p]
    <3>1. b \in BOOLEAN
      OBVIOUS
    <3>2. \/ held' = [held EXCEPT ![p] = b] \/ held' = held \/ held' = [held EXCEPT ![p] = FALSE]
      <4>1. CASE ReadPacket(p)
        BY <4>1 DEF ReadPacket
      <4>2. CASE GatePacket(p)
        BY <4>2 DEF GatePacket
      <4>3. CASE WritePacket(p)
        BY <4>3 DEF WritePacket
      <4> QED
        BY <1>5, <4>1, <4>2, <4>3 DEF Packet
    <3>3. pkt' \in [Parts -> {"none", "read", "passed"}]
      <4>0. pkt \in [Parts -> {"none", "read", "passed"}]
        BY DEF Regular, Types
      <4>1. CASE ReadPacket(p)
        BY <4>0, <4>1 DEF ReadPacket
      <4>2. CASE GatePacket(p)
        BY <4>0, <4>2 DEF GatePacket
      <4>3. CASE WritePacket(p)
        BY <4>0, <4>3 DEF WritePacket
      <4> QED
        BY <1>5, <4>1, <4>2, <4>3 DEF Packet
    <3> HIDE DEF b
    <3>4. held' \in [Parts -> BOOLEAN]
      BY <3>1, <3>2 DEF Regular, Types
    <3> QED
      BY <3>3, <3>4
  <2>2. UNCHANGED <<roomVars, fanout, job, orders, overlapped>>
    BY <1>5 DEF Packet, ReadPacket, GatePacket, WritePacket
  <2> QED
    BY <2>1, <2>2 DEF roomVars, Regular, Types, Left
<1>6. ASSUME NEW c \in SUBSET Caps, Join(p, c) PROVE Regular'
  <2>1. life' \in [Parts -> {"out", "in", "connected", "closed", "left"}] /\ caps' \in [Parts -> SUBSET Caps]
    BY <1>6 DEF Join, Regular, Types
  <2> QED
    BY <1>6, <2>1 DEF Join, Regular, Types, Left, pktVars
<1>7. ASSUME NEW c \in SUBSET Caps, ApplyCaps(p, c) PROVE Regular'
  <2>1. Jobs' /\ Begins(Control, CapsTasks(p, c))
    BY <1>7, ApplyCapsBegins
  <2>2. overlapped' \in BOOLEAN
    BY <2>1 DEF Begins, Regular, Types
  <2>3. caps' \in [Parts -> SUBSET Caps] /\ held' \in [Parts -> BOOLEAN]
    BY <1>7 DEF ApplyCaps, Regular, Types
  <2>4. orders' \in 0..MaxOrders
    BY <1>7, BoundAssumption DEF ApplyCaps, Order, Regular, Types
  <2> QED
    BY <1>7, <2>1, <2>2, <2>3, <2>4 DEF ApplyCaps, Regular, Types, Jobs
<1>8. ASSUME NEW q \in Parts, NEW want \in BOOLEAN, SetSubscription(p, q, want) PROVE Regular'
  <2>1. Jobs' /\ Begins(<<"loop", p>>, {Apply(q, p, want)})
    BY <1>8, SetSubscriptionBegins
  <2>2. overlapped' \in BOOLEAN
    BY <2>1 DEF Begins, Regular, Types
  <2>3. unsub' \in [Parts -> SUBSET Parts]
    BY <1>8 DEF SetSubscription, Regular, Types
  <2>4. orders' \in 0..MaxOrders
    BY <1>8, BoundAssumption DEF SetSubscription, Order, Regular, Types
  <2> QED
    BY <1>8, <2>1, <2>2, <2>3, <2>4 DEF SetSubscription, Regular, Types, Jobs, pktVars
<1> QED
  BY <1>1, <1>2, <1>3, <1>4, <1>5, <1>6, <1>7, <1>8

-----------------------------------------------------------------------------
(* What is left to do                                                      *)

LEMMA EmptyJobs ==
  ASSUME Regular, NEW t \in Threads
  PROVE  job[t] = <<>> <=> Left(t) = {}
<1>1. job[t] = <<>> => Left(t) = {}
  BY MembersFacts DEF Left
<1>2. job[t] # <<>> => Left(t) # {}
  BY RestFacts
<1> QED
  BY <1>1, <1>2

\* Every step but the first one is still to be done, and nothing but the new ones is added.
LEMMA TodoGoes ==
  ASSUME Regular, NEW t \in Threads, NEW N, Goes(t, N)
  PROVE  /\ \A x \in Todo : x # Head(job[t]) => x \in Todo'
         /\ N \subseteq Todo' /\ Rest(t) \subseteq Todo'
         /\ \A u \in Threads : \A x \in Left(u)' : (u = t /\ x \in N) \/ x \in Left(u)
         /\ \A x \in Todo' : x \in N \/ x \in Todo
         /\ Head(job[t]) \in Todo /\ Head(job[t]) \in Left(t)
         /\ Lone => Lone' /\ Todo' = N \cup Rest(t) /\ \A u \in Threads : u # t => Left(u)' = {}
<1>1. /\ Left(t) = {Head(job[t])} \cup Rest(t)
      /\ Left(t)' = N \cup Rest(t) /\ \A u \in Threads : u # t => Left(u)' = Left(u)
  BY RestFacts DEF Goes, Left2
<1>2. \A u \in Threads : Left(u) \subseteq Todo
  BY DEF Todo
<1>3. \A u \in Threads : Left(u)' \subseteq Todo'
  BY DEF Todo
<1>4. ASSUME NEW x \in Todo, x # Head(job[t]) PROVE x \in Todo'
  <2>1. PICK u \in Threads : x \in Left(u)
    BY DEF Todo
  <2>2. x \in Left(u)'
    BY <1>1, <1>4, <2>1
  <2> QED
    BY <1>3, <2>2
<1>5. ASSUME NEW u \in Threads, NEW x \in Left(u)' PROVE (u = t /\ x \in N) \/ x \in Left(u)
  BY <1>1
<1>6. ASSUME NEW x \in Todo' PROVE x \in N \/ x \in Todo
  <2>1. PICK u \in Threads : x \in Left(u)'
    BY DEF Todo
  <2> QED
    BY <1>2, <1>5, <2>1
<1>7. ASSUME Lone PROVE Lone' /\ Todo' = N \cup Rest(t) /\ \A u \in Threads : u # t => Left(u)' = {}
  <2>1. t \in Active /\ Active' \subseteq Active
    BY DEF Goes, Active
  <2>2. Lone'
    BY <1>7, <2>1 DEF Lone
  <2>3. ASSUME NEW u \in Threads, u # t PROVE Left(u)' = {}
    <3>1. job[u] = <<>>
      BY <1>7, <2>1, <2>3 DEF Lone, Active
    <3> QED
      BY <1>1, <2>3, <3>1, EmptyJobs
  <2>4. Todo' = N \cup Rest(t)
    <3>1. Left(t)' \subseteq Todo'
      BY <1>3
    <3>2. \A x \in Todo' : \E u \in Threads : x \in Left(u)'
      BY DEF Todo
    <3>3. \A x \in Todo' : x \in Left(t)'
      BY <2>3, <3>2
    <3> QED
      BY <1>1, <3>1, <3>3
  <2> QED
    BY <2>2, <2>3, <2>4
<1> QED
  BY <1>1, <1>2, <1>3, <1>4, <1>5, <1>6, <1>7

LEMMA TodoBegins ==
  ASSUME Regular, NEW t \in Threads, NEW N, Begins(t, N)
  PROVE  /\ Todo' = Todo \cup N
         /\ \A u \in Threads : \A x \in Left(u)' : (u = t /\ x \in N) \/ (u # t /\ x \in Left(u))
         /\ overlapped => overlapped'
         /\ \A u \in Threads : Left(u) # {} => overlapped'
         /\ ~overlapped' => /\ ~overlapped /\ Todo = {} /\ Todo' = N /\ Lone'
<1>1. Left(t) = {} /\ Left(t)' = N /\ \A u \in Threads : u # t => Left(u)' = Left(u)
  BY DEF Begins, Left2
<1>2. \A x : (x \in Todo <=> \E u \in Threads : x \in Left(u)) /\ (x \in Todo' <=> \E u \in Threads : x \in Left(u)')
  BY DEF Todo
<1>3. Todo' = Todo \cup N
  BY <1>1, <1>2
<1>4. \A u \in Threads : Left(u) # {} => overlapped'
  BY EmptyJobs DEF Begins, Active
<1>5. ASSUME ~overlapped' PROVE ~overlapped /\ Todo = {} /\ Todo' = N /\ Lone'
  <2>1. Active = {} /\ ~overlapped
    BY <1>5 DEF Begins
  <2>2. Todo = {}
    BY <1>2, <1>4, <1>5
  <2>3. Active' \subseteq {t}
    BY <2>1 DEF Begins, Active
  <2> QED
    BY <1>3, <2>1, <2>2, <2>3 DEF Lone
<1> QED
  BY <1>1, <1>3, <1>4, <1>5 DEF Begins

\* What the name of a step tells of whom it serves.
LEMMA ServesKinds ==
  ASSUME NEW x \in Steps, NEW p \in Parts, NEW s \in Parts
  PROVE  Serves(x, p, s) <=>
           \/ x.op \in {"ensure", "create", "follow"} /\ x.pub = p /\ x.sub = s
           \/ x.op \in {"attach", "announce"} /\ x.pub = p
           \/ x.op = "publishGained" /\ x.p = p
           \/ x.op = "attachPubs" /\ x.p = s
           \/ x.op = "apply" /\ x.pub = p /\ x.sub = s /\ x.want
<1>1. {"publishGained", "attachPubs"} \subseteq TaskOps
  BY DEF TaskOps
<1>2. /\ x.op = "ensure" => x = Ensure(x.pub, x.sub)
      /\ x.op = "create" => x = Create(x.pub, x.sub)
      /\ x.op = "follow" => x = Follow(x.pub, x.sub)
      /\ x.op = "attach" => x = Attach(x.pub)
      /\ x.op = "announce" => x = Announce(x.pub)
      /\ x.op \in TaskOps => x = Task(x.op, x.p)
      /\ x.op = "apply" => x.want \in BOOLEAN /\ x = Apply(x.pub, x.sub, x.want)
  BY StepKinds
<1>3. \/ x.op \in {"ensure", "create", "follow"} /\ x.pub = p /\ x.sub = s
      \/ x.op \in {"attach", "announce"} /\ x.pub = p
      \/ x.op = "publishGained" /\ x.p = p
      \/ x.op = "attachPubs" /\ x.p = s
      \/ x.op = "apply" /\ x.pub = p /\ x.sub = s /\ x.want
      => Serves(x, p, s)
  BY <1>1, <1>2 DEF Serves, Apply
<1>4. /\ x = Ensure(p, s) => x.op = "ensure" /\ x.pub = p /\ x.sub = s
      /\ x = Create(p, s) => x.op = "create" /\ x.pub = p /\ x.sub = s
      /\ x = Follow(p, s) => x.op = "follow" /\ x.pub = p /\ x.sub = s
      /\ x = Attach(p) => x.op = "attach" /\ x.pub = p
      /\ x = Announce(p) => x.op = "announce" /\ x.pub = p
  BY StepFacts
<1>7. x = Apply(p, s, TRUE) => x.op = "apply" /\ x.pub = p /\ x.sub = s /\ x.want
  BY DEF Apply
<1>5. /\ x = Task("publishGained", p) => x.op = "publishGained" /\ x.p = p
      /\ x = Task("attachPubs", s) => x.op = "attachPubs" /\ x.p = s
  BY <1>1, StepFacts
<1>6. Serves(x, p, s) =>
        \/ x = Ensure(p, s) \/ x = Create(p, s) \/ x = Follow(p, s) \/ x = Attach(p) \/ x = Announce(p)
        \/ x = Task("publishGained", p) \/ x = Task("attachPubs", s) \/ x = Apply(p, s, TRUE)
  BY DEF Serves, Apply
<1> QED
  BY <1>3, <1>4, <1>5, <1>6, <1>7

-----------------------------------------------------------------------------
(* Steps that leave the room as it is                                      *)

LEMMA TodoSteps ==
  ASSUME Regular
  PROVE  Todo \subseteq Steps
<1>1. ASSUME NEW t \in Threads PROVE Left(t) \subseteq Steps
  <2>1. job[t] \in Seq(Steps)
    BY DEF Regular, Types
  <2> QED
    BY <2>1 DEF Left, Members
<1> QED
  BY <1>1 DEF Todo

\* The notions that the properties are made of, while the room is the same.
LEMMA SameRoom ==
  ASSUME UNCHANGED roomVars
  PROVE  /\ Listed' = Listed
         /\ \A p : (Live(p)' <=> Live(p)) /\ (InService(p)' <=> InService(p)) /\ Wanted(p)' = Wanted(p)
         /\ \A p, s : Eligible(p, s)' <=> Eligible(p, s)
         /\ \A S : Heard(S)' = Heard(S)
         /\ \A x : (Known(x)' <=> Known(x)) /\ (Here(x)' <=> Here(x))
         /\ \A x : Right(x)' <=> Right(x)
<1>1. /\ life' = life /\ caps' = caps /\ publishing' = publishing /\ tracks' = tracks
      /\ down' = down /\ bound' = bound /\ unsub' = unsub
  BY DEF roomVars
<1>2. Listed' = Listed /\ \A p : Live(p)' <=> Live(p)
  BY <1>1 DEF Listed, Live
<1>3. \A p, s : ShouldForward(p, s)' <=> ShouldForward(p, s)
  BY <1>1 DEF ShouldForward
<1>4. \A p : (InService(p)' <=> InService(p)) /\ Wanted(p)' = Wanted(p)
  BY <1>1, <1>2, <1>3 DEF InService, Wanted
<1>5. \A p, s : Eligible(p, s)' <=> Eligible(p, s)
  BY <1>1, <1>2, <1>3 DEF Eligible
<1>6. \A S : Heard(S)' = Heard(S)
  BY <1>2 DEF Heard
<1>7. \A x : (Known(x)' <=> Known(x)) /\ (Here(x)' <=> Here(x))
  BY <1>1, <1>2 DEF Known, Here
<1>8. \A x : Right(x)' <=> Right(x)
  BY <1>1, <1>4, <1>6 DEF Right
<1> QED
  BY <1>2, <1>4, <1>5, <1>6, <1>7, <1>8

\* A step hands over what it was there for.
Handed(t, N) ==
  LET h == Head(job[t]) IN
  /\ \A x \in N : Known(x) /\ Reasons(t, x)
  /\ \A p, s \in Parts :
       Serves(h, p, s) /\ Eligible(p, s) /\ First(p) /\ down[s][p] = 0 => \E x \in N : Serves(x, p, s)
  /\ ~overlapped =>
       /\ \A x \in N : Here(x) /\ Right(x)
       /\ \A p \in Parts : InService(p) /\ Refills(h, p) => \E x \in N : Refills(x, p)

LEMMA HandedKeeps ==
  ASSUME IInv, NEW t \in Threads, NEW N, Goes(t, N), Handed(t, N), Regular',
         UNCHANGED <<roomVars, fanout, pktVars>>, Head(job[t]).op \notin {"remove", "detach"}
  PROVE  IInv'
<1> DEFINE h == Head(job[t])
<1>1. /\ \A x \in Todo : x # h => x \in Todo'
      /\ N \subseteq Todo'
      /\ \A u \in Threads : \A x \in Left(u)' : (u = t /\ x \in N) \/ x \in Left(u)
      /\ \A x \in Todo' : x \in N \/ x \in Todo
      /\ Lone => Lone'
  BY TodoGoes DEF IInv
<1>2. /\ Listed' = Listed
      /\ \A p : (Live(p)' <=> Live(p)) /\ (InService(p)' <=> InService(p)) /\ Wanted(p)' = Wanted(p)
      /\ \A p, s : Eligible(p, s)' <=> Eligible(p, s)
      /\ \A S : Heard(S)' = Heard(S)
      /\ \A x : (Known(x)' <=> Known(x)) /\ (Here(x)' <=> Here(x))
      /\ \A x : Right(x)' <=> Right(x)
  BY SameRoom
<1>3. /\ life' = life /\ caps' = caps /\ publishing' = publishing /\ tracks' = tracks
      /\ down' = down /\ bound' = bound /\ unsub' = unsub /\ fanout' = fanout /\ pkt' = pkt /\ held' = held
      /\ overlapped' = overlapped
  BY DEF roomVars, pktVars, Goes
<1> HIDE DEF h
<1>4. Mapped'
  <2>1. \A x \in Todo' : Known(x)'
    BY <1>1, <1>2 DEF IInv, Mapped, Handed
  <2> QED
    BY <1>2, <1>3, <2>1 DEF IInv, Mapped
<1>5. Joined' /\ Gated'
  BY <1>3 DEF IInv, Joined, Gated
<1>6. Removals'
  <2> SUFFICES ASSUME NEW u \in Threads, NEW x \in Left(u)' PROVE Reasons(u, x)'
    BY DEF Removals
  <2>1. Reasons(u, x)
    BY <1>1 DEF IInv, Removals, Handed
  <2> QED
    BY <1>3, <2>1 DEF Reasons, Silenced, Deaf, First
<1>7. Owed'
  <2> SUFFICES ASSUME NEW p \in Parts, NEW s \in Parts, Eligible(p, s)', First(p)', ~(down'[s][p] # 0)
               PROVE  \E x \in Todo' : Serves(x, p, s)
    BY DEF Owed, Serves
  <2>1. Eligible(p, s) /\ First(p) /\ down[s][p] = 0
    BY <1>2, <1>3 DEF First
  <2>2. PICK x \in Todo : Serves(x, p, s)
    BY <2>1 DEF IInv, Owed
  <2>3. CASE x = h
    BY <1>1, <2>1, <2>2, <2>3 DEF Handed, h
  <2> QED
    BY <1>1, <2>2, <2>3
<1>8. ASSUME ~overlapped' PROVE Lone' /\ Sequential'
  <2>1. ~overlapped /\ Lone /\ Sequential
    BY <1>3, <1>8 DEF IInv, Alone
  <2>2. Present' /\ Collecting'
    BY <1>1, <1>2, <2>1 DEF Sequential, Present, Collecting, Handed
  <2>3. Cleared'
    <3> SUFFICES ASSUME NEW p \in Parts, NEW s \in Parts, life[p] = "left", Live(s), down[s][p] # 0
                 PROVE  Drop(p, s) \in Todo' \/ Detach(p) \in Todo'
      BY <1>2, <1>3 DEF Cleared, Drop, Detach
    <3>1. Drop(p, s) \in Todo \/ Detach(p) \in Todo
      BY <2>1 DEF Sequential, Cleared
    <3>2. Drop(p, s) # h /\ Detach(p) # h
      BY StepFacts DEF h
    <3> QED
      BY <1>1, <3>1, <3>2
  <2>4. Filled'
    <3> SUFFICES ASSUME NEW p \in Parts, InService(p), Heard(fanout[p]) # Wanted(p)
                 PROVE  \E x \in Todo' : Refills(x, p)
      <4>1. \A p \in Parts : Heard(fanout[p])' = Heard(fanout[p])
        BY <1>2, <1>3 DEF Heard
      <4> QED
        BY <1>2, <4>1 DEF Filled, Refills
    <3>1. PICK x \in Todo : Refills(x, p)
      BY <2>1 DEF Sequential, Filled
    <3>2. CASE x = h
      BY <1>1, <2>1, <3>1, <3>2 DEF Handed, h
    <3> QED
      BY <1>1, <3>1, <3>2
  <2> QED
    BY <1>1, <2>1, <2>2, <2>3, <2>4 DEF Sequential
<1> QED
  BY <1>4, <1>5, <1>6, <1>7, <1>8 DEF IInv, Alone

\* What the invariant tells of the first step of a goroutine.
LEMMA HeadFacts ==
  ASSUME IInv, NEW t \in Threads, NEW op, At(t, op)
  PROVE  LET h == Head(job[t]) IN
         /\ job[t] # <<>> /\ h.op = op /\ h \in Steps /\ Apart(h) /\ h \in Todo
         /\ op \in PairOps \cup PubOps \cup {"apply", "collect"} => h.pub \in Parts
         /\ op \in PairOps \cup {"apply"} => h.sub \in Parts
         /\ op \in TaskOps => h.p \in Parts
         /\ Known(h) /\ Reasons(t, h)
         /\ ~overlapped => Here(h) /\ Right(h)
<1>1. LET h == Head(job[t]) IN
      /\ job[t] # <<>> /\ h.op = op /\ h \in Steps /\ Apart(h) /\ h \in Left(t)
      /\ op \in PairOps \cup PubOps \cup {"apply", "collect"} => h.pub \in Parts
      /\ op \in PairOps \cup {"apply"} => h.sub \in Parts
      /\ op \in TaskOps => h.p \in Parts
  BY AtFacts DEF IInv
<1>2. Head(job[t]) \in Todo
  BY <1>1 DEF Todo
<1> QED
  BY <1>1, <1>2 DEF IInv, Mapped, Removals, Alone, Sequential, Present, Collecting

LEMMA ServesHead ==
  ASSUME IInv, NEW t \in Threads, NEW op, At(t, op), NEW p \in Parts, NEW s \in Parts, Serves(Head(job[t]), p, s)
  PROVE  LET h == Head(job[t]) IN
         /\ op \in {"ensure", "create", "follow", "attach", "announce", "publishGained", "attachPubs", "apply"}
         /\ op \in {"ensure", "create", "follow", "apply"} => h.pub = p /\ h.sub = s
         /\ op \in {"attach", "announce"} => h.pub = p
         /\ op = "publishGained" => h.p = p
         /\ op = "attachPubs" => h.p = s
         /\ op = "apply" => h.want
BY HeadFacts, ServesKinds

LEMMA LiveListed ==
  ASSUME Regular
  PROVE  /\ \A p \in Parts : Live(p) => p \in Listed
         /\ \A p, s \in Parts : Eligible(p, s) =>
              /\ p # s /\ p \in Listed /\ s \in Listed /\ Live(p) /\ Live(s) /\ p \in publishing
              /\ ShouldForward(p, s) /\ "publish" \in caps[p]
         /\ \A p \in Parts : InService(p) => p \in Listed /\ p \in publishing /\ "publish" \in caps[p]
BY DEF Live, Listed, Eligible, InService, ShouldForward

LEMMA EnsureKeeps ==
  ASSUME IInv, NEW t \in Threads, EnsureDownTrack(t)
  PROVE  IInv'
<1> DEFINE h == Head(job[t])
           c == /\ Live(h.sub) /\ h.pub \in publishing
                /\ ShouldForward(h.pub, h.sub) /\ down[h.sub][h.pub] = 0
           N == IF c THEN {Create(h.pub, h.sub)} ELSE {}
<1>1. At(t, "ensure") /\ UNCHANGED <<roomVars, fanout, pktVars>>
  BY DEF EnsureDownTrack
<1>2. Regular' /\ Goes(t, N)
  BY EnsureGoes, QuietlyRegular DEF IInv, Quietly
<1>3. h.op = "ensure" /\ h.pub \in Parts /\ h.sub \in Parts /\ (~overlapped => Here(h))
  BY <1>1, HeadFacts DEF PairOps
<1>4. LET x == Create(h.pub, h.sub) IN x \in Steps /\ x.op = "create" /\ x.pub = h.pub /\ x.sub = h.sub
  BY <1>3, StepFacts
<1>5. ASSUME NEW p \in Parts, NEW s \in Parts, Serves(h, p, s), Eligible(p, s), down[s][p] = 0
      PROVE  c /\ Serves(Create(h.pub, h.sub), p, s)
  <2>1. h.pub = p /\ h.sub = s
    BY <1>1, <1>5, ServesHead
  <2> QED
    BY <1>5, <2>1, LiveListed DEF IInv, Serves
<1>6. \A p : ~Refills(h, p)
  BY <1>3 DEF Refills
<1>7. ASSUME NEW x \in N PROVE Known(x) /\ Reasons(t, x) /\ Right(x) /\ (~overlapped => Here(x))
  <2>1. x.op = "create" /\ x.pub = h.pub
    BY <1>4, <1>7
  <2> QED
    BY <1>3, <2>1 DEF Known, Reasons, Right, Here
<1>8. Handed(t, N)
  BY <1>5, <1>6, <1>7 DEF Handed
<1> HIDE DEF N
<1> QED
  BY <1>1, <1>2, <1>3, <1>8, HandedKeeps

LEMMA AttachSubscribersKeeps ==
  ASSUME IInv, NEW t \in Threads, AttachSubscribers(t)
  PROVE  IInv'
<1> DEFINE h == Head(job[t])
           N == {Ensure(h.pub, s) : s \in Listed \ {h.pub}} \cup {Rebuild(h.pub)}
<1>1. At(t, "attach") /\ UNCHANGED <<roomVars, fanout, pktVars>>
  BY DEF AttachSubscribers
<1>2. Regular' /\ Goes(t, N)
  BY AttachSubscribersGoes, QuietlyRegular DEF IInv, Quietly
<1>3. h.op = "attach" /\ h.pub \in Parts /\ (~overlapped => Here(h))
  BY <1>1, HeadFacts DEF PubOps
<1>4. ASSUME NEW x \in N PROVE x.op \in {"ensure", "rebuild"} /\ x.pub = h.pub
  <2>1. Listed \subseteq Parts
    BY DEF Listed
  <2> QED
    BY <1>3, <1>4, <2>1, StepFacts
<1>5. ASSUME NEW p \in Parts, NEW s \in Parts, Serves(h, p, s), Eligible(p, s)
      PROVE  Ensure(p, s) \in N /\ Serves(Ensure(p, s), p, s)
  <2>1. h.pub = p
    BY <1>1, <1>5, ServesHead
  <2> QED
    BY <1>5, <2>1, LiveListed DEF IInv, Serves
<1>6. \A p \in Parts : Refills(h, p) => Rebuild(p) \in N /\ Refills(Rebuild(p), p)
  BY <1>3, StepFacts DEF Refills
<1>7. ASSUME NEW x \in N PROVE Known(x) /\ Reasons(t, x) /\ Right(x) /\ (~overlapped => Here(x))
  <2> HIDE DEF N, h
  <2> QED
    BY <1>3, <1>4 DEF Known, Reasons, Right, Here
<1> HIDE DEF N, h
<1>8. Handed(t, N)
  BY <1>5, <1>6, <1>7 DEF Handed, h
<1> QED
  BY <1>1, <1>2, <1>3, <1>8, HandedKeeps DEF h

LEMMA AttachPublishersKeeps ==
  ASSUME IInv, NEW t \in Threads, AttachPublishers(t)
  PROVE  IInv'
<1> DEFINE h == Head(job[t])
           N == {Follow(p, h.p) : p \in Listed \ {h.p}}
<1>1. At(t, "attachPubs") /\ UNCHANGED <<roomVars, fanout, pktVars>>
  BY DEF AttachPublishers
<1>2. Regular' /\ Goes(t, N)
  BY AttachPublishersGoes, QuietlyRegular DEF IInv, Quietly
<1>3. h.op = "attachPubs" /\ h.p \in Parts
  BY <1>1, HeadFacts DEF TaskOps
<1>4. ASSUME NEW x \in N PROVE x.op = "follow" /\ x.pub \in Listed
  <2>1. Listed \subseteq Parts
    BY DEF Listed
  <2> QED
    BY <1>3, <1>4, <2>1, StepFacts
<1>5. ASSUME NEW p \in Parts, NEW s \in Parts, Serves(h, p, s), Eligible(p, s)
      PROVE  Follow(p, s) \in N /\ Serves(Follow(p, s), p, s)
  <2>1. h.p = s
    BY <1>1, <1>5, ServesHead
  <2> QED
    BY <1>5, <2>1, LiveListed DEF IInv, Serves
<1>6. \A p : ~Refills(h, p)
  BY <1>3 DEF Refills
<1>7. ASSUME NEW x \in N PROVE Known(x) /\ Reasons(t, x) /\ Right(x) /\ Here(x)
  <2> HIDE DEF N, h
  <2> QED
    BY <1>3, <1>4 DEF Known, Reasons, Right, Here
<1> HIDE DEF N, h
<1>8. Handed(t, N)
  BY <1>5, <1>6, <1>7 DEF Handed, h
<1> QED
  BY <1>1, <1>2, <1>3, <1>8, HandedKeeps DEF h

LEMMA AttachPublisherKeeps ==
  ASSUME IInv, NEW t \in Threads, AttachPublisher(t)
  PROVE  IInv'
<1> DEFINE h == Head(job[t])
           N == IF h.pub \in publishing THEN {Ensure(h.pub, h.sub), Rebuild(h.pub)} ELSE {}
<1>1. At(t, "follow") /\ UNCHANGED <<roomVars, fanout, pktVars>>
  BY DEF AttachPublisher
<1>2. Regular' /\ Goes(t, N)
  BY AttachPublisherGoes, QuietlyRegular DEF IInv, Quietly
<1>3. h.op = "follow" /\ h.pub \in Parts /\ h.sub \in Parts /\ (~overlapped => Here(h))
  BY <1>1, HeadFacts DEF PairOps
<1>4. ASSUME NEW x \in N PROVE x.op \in {"ensure", "rebuild"} /\ x.pub = h.pub
  BY <1>3, <1>4, StepFacts
<1>5. ASSUME NEW p \in Parts, NEW s \in Parts, Serves(h, p, s), Eligible(p, s)
      PROVE  Ensure(p, s) \in N /\ Serves(Ensure(p, s), p, s)
  <2>1. h.pub = p /\ h.sub = s
    BY <1>1, <1>5, ServesHead
  <2> QED
    BY <1>5, <2>1, LiveListed DEF IInv, Serves
<1>6. \A p : ~Refills(h, p)
  BY <1>3 DEF Refills
<1>7. ASSUME NEW x \in N PROVE Known(x) /\ Reasons(t, x) /\ Right(x) /\ (~overlapped => Here(x))
  <2> HIDE DEF N, h
  <2> QED
    BY <1>3, <1>4 DEF Known, Reasons, Right, Here
<1> HIDE DEF N, h
<1>8. Handed(t, N)
  BY <1>5, <1>6, <1>7 DEF Handed, h
<1> QED
  BY <1>1, <1>2, <1>3, <1>8, HandedKeeps DEF h

LEMMA AnnounceKeeps ==
  ASSUME IInv, NEW t \in Threads, AnnounceTrack(t)
  PROVE  IInv'
<1> DEFINE h == Head(job[t])
           N == IF "publish" \in caps[h.pub] THEN {Attach(h.pub)} ELSE {}
<1>1. At(t, "announce") /\ UNCHANGED <<roomVars, fanout, pktVars>>
  BY DEF AnnounceTrack
<1>2. Regular' /\ Goes(t, N)
  BY AnnounceGoes, QuietlyRegular DEF IInv, Quietly
<1>3. h.op = "announce" /\ h.pub \in Parts /\ (~overlapped => Here(h))
  BY <1>1, HeadFacts DEF PubOps
<1>4. ASSUME NEW x \in N PROVE x.op = "attach" /\ x.pub = h.pub
  BY <1>3, <1>4, StepFacts
<1>5. ASSUME NEW p \in Parts, NEW s \in Parts, Serves(h, p, s), Eligible(p, s)
      PROVE  Attach(p) \in N /\ Serves(Attach(p), p, s)
  <2>1. h.pub = p
    BY <1>1, <1>5, ServesHead
  <2> QED
    BY <1>5, <2>1, LiveListed DEF IInv, Serves
<1>6. \A p \in Parts : InService(p) /\ Refills(h, p) => Attach(p) \in N /\ Refills(Attach(p), p)
  BY <1>3, StepFacts DEF Refills, InService
<1>7. ASSUME NEW x \in N PROVE Known(x) /\ Reasons(t, x) /\ Right(x) /\ (~overlapped => Here(x))
  <2> HIDE DEF N, h
  <2> QED
    BY <1>3, <1>4 DEF Known, Reasons, Right, Here
<1> HIDE DEF N, h
<1>8. Handed(t, N)
  BY <1>5, <1>6, <1>7 DEF Handed, h
<1> QED
  BY <1>1, <1>2, <1>3, <1>8, HandedKeeps DEF h

LEMMA PublishGainedKeeps ==
  ASSUME IInv, NEW t \in Threads, PublishGained(t)
  PROVE  IInv'
<1> DEFINE h == Head(job[t])
           N == IF h.p \in publishing THEN {Attach(h.p)} ELSE {}
<1>1. At(t, "publishGained") /\ UNCHANGED <<roomVars, fanout, pktVars>>
  BY DEF PublishGained
<1>2. Regular' /\ Goes(t, N)
  BY PublishGainedGoes, QuietlyRegular DEF IInv, Quietly
<1>3. h.op = "publishGained" /\ h.p \in Parts /\ (~overlapped => Here(h))
  BY <1>1, HeadFacts DEF TaskOps
<1>4. ASSUME NEW x \in N PROVE x.op = "attach" /\ x.pub = h.p
  BY <1>3, <1>4, StepFacts
<1>5. ASSUME NEW p \in Parts, NEW s \in Parts, Serves(h, p, s), Eligible(p, s)
      PROVE  Attach(p) \in N /\ Serves(Attach(p), p, s)
  <2>1. h.p = p
    BY <1>1, <1>5, ServesHead
  <2> QED
    BY <1>5, <2>1, LiveListed DEF IInv, Serves
<1>6. \A p : ~Refills(h, p)
  BY <1>3 DEF Refills
<1>7. ASSUME NEW x \in N PROVE Known(x) /\ Reasons(t, x) /\ Right(x) /\ (~overlapped => Here(x))
  <2> HIDE DEF N, h
  <2> QED
    BY <1>3, <1>4 DEF Known, Reasons, Right, Here
<1> HIDE DEF N, h
<1>8. Handed(t, N)
  BY <1>5, <1>6, <1>7 DEF Handed, h
<1> QED
  BY <1>1, <1>2, <1>3, <1>8, HandedKeeps DEF h

LEMMA ApplySubscriptionKeeps ==
  ASSUME IInv, NEW t \in Threads, ApplySubscription(t)
  PROVE  IInv'
<1> DEFINE h == Head(job[t])
           N == IF h.pub \notin Listed THEN {}
                ELSE IF h.want THEN {Ensure(h.pub, h.sub), Rebuild(h.pub)} ELSE {Rebuild(h.pub)}
<1>1. At(t, "apply") /\ UNCHANGED <<roomVars, fanout, pktVars>>
  BY DEF ApplySubscription
<1>2. Regular' /\ Goes(t, N)
  BY ApplySubscriptionGoes, QuietlyRegular DEF IInv, Quietly
<1>3. h.op = "apply" /\ h.pub \in Parts /\ h.sub \in Parts
  BY <1>1, HeadFacts
<1>4. ASSUME NEW x \in N PROVE x.op \in {"ensure", "rebuild"} /\ x.pub \in Listed
  BY <1>3, <1>4, StepFacts
<1>5. ASSUME NEW p \in Parts, NEW s \in Parts, Serves(h, p, s), Eligible(p, s)
      PROVE  Ensure(p, s) \in N /\ Serves(Ensure(p, s), p, s)
  <2>1. h.pub = p /\ h.sub = s /\ h.want
    BY <1>1, <1>5, ServesHead
  <2> QED
    BY <1>5, <2>1, LiveListed DEF IInv, Serves
<1>6. ASSUME NEW p \in Parts, InService(p), Refills(h, p)
      PROVE  Rebuild(p) \in N /\ Refills(Rebuild(p), p)
  <2>1. h.pub = p /\ p \in Listed
    BY <1>3, <1>6, LiveListed DEF IInv, Refills
  <2> QED
    BY <2>1, StepFacts DEF Refills
<1>7. ASSUME NEW x \in N PROVE Known(x) /\ Reasons(t, x) /\ Right(x) /\ Here(x)
  <2> HIDE DEF N, h
  <2> QED
    BY <1>4 DEF Known, Reasons, Right, Here
<1> HIDE DEF N, h
<1>8. Handed(t, N)
  BY <1>5, <1>6, <1>7 DEF Handed, h
<1> QED
  BY <1>1, <1>2, <1>3, <1>8, HandedKeeps DEF h

LEMMA SubscribeLostKeeps ==
  ASSUME IInv, NEW t \in Threads, SubscribeLost(t)
  PROVE  IInv'
<1> DEFINE h == Head(job[t])
           N == {Drop(p, h.p) : p \in {q \in Parts : down[h.p][q] # 0}}
<1>1. At(t, "subscribeLost") /\ UNCHANGED <<roomVars, fanout, pktVars>>
  BY DEF SubscribeLost
<1>2. Regular' /\ Goes(t, N)
  BY SubscribeLostGoes, QuietlyRegular DEF IInv, Quietly
<1>3. h.op = "subscribeLost" /\ h.p \in Parts /\ Reasons(t, h)
  BY <1>1, HeadFacts DEF TaskOps
<1>4. ASSUME NEW x \in N PROVE x.op = "remove" /\ x.sub = h.p
  BY <1>3, <1>4, StepFacts
<1>5. \A p, s \in Parts : ~Serves(h, p, s)
  BY <1>1, ServesHead
<1>6. \A p : ~Refills(h, p)
  BY <1>3 DEF Refills
<1>7. ASSUME NEW x \in N PROVE Known(x) /\ Reasons(t, x) /\ Right(x) /\ Here(x)
  <2> HIDE DEF N, h
  <2>1. Deaf(t, h.p)
    BY <1>3 DEF Reasons
  <2> QED
    BY <1>4, <2>1 DEF Known, Reasons, Right, Here
<1> HIDE DEF N, h
<1>8. Handed(t, N)
  BY <1>5, <1>6, <1>7 DEF Handed, h
<1> QED
  BY <1>1, <1>2, <1>3, <1>8, HandedKeeps DEF h

\* A track that ended is not published, unless a later one is.
LEMMA TakeDownKeeps ==
  ASSUME IInv, NEW t \in Threads, TakeDown(t)
  PROVE  IInv'
<1> DEFINE h == Head(job[t])
           N == IF Live(h.p) /\ "publish" \in caps[h.p] THEN {Detach(h.p)} ELSE {}
<1>1. At(t, "trackEnded") /\ UNCHANGED <<roomVars, fanout, pktVars>>
  BY DEF TakeDown
<1>2. Regular' /\ Goes(t, N)
  BY TakeDownGoes, QuietlyRegular DEF IInv, Quietly
<1>3. h.op = "trackEnded" /\ h.p \in Parts /\ Reasons(t, h)
  BY <1>1, HeadFacts DEF TaskOps
<1>4. ASSUME NEW x \in N PROVE x.op = "detach" /\ x.pub = h.p
  BY <1>3, <1>4, StepFacts
<1>5. \A p, s \in Parts : ~Serves(h, p, s)
  BY <1>1, ServesHead
<1>6. \A p : ~Refills(h, p)
  BY <1>3 DEF Refills
<1>7. ASSUME NEW x \in N PROVE Known(x) /\ Reasons(t, x) /\ Right(x) /\ Here(x)
  <2> HIDE DEF N, h
  <2>1. Silenced(t, h.p)
    BY <1>3 DEF Reasons
  <2> QED
    BY <1>4, <2>1 DEF Known, Reasons, Right, Here
<1> HIDE DEF N, h
<1>8. Handed(t, N)
  BY <1>5, <1>6, <1>7 DEF Handed, h
<1> QED
  BY <1>1, <1>2, <1>3, <1>8, HandedKeeps DEF h

LEMMA RebuildAllKeeps ==
  ASSUME IInv, NEW t \in Threads, RebuildAll(t)
  PROVE  IInv'
<1> DEFINE h == Head(job[t])
           N == {Rebuild(p) : p \in Listed}
<1>1. At(t, "rebuildAll") /\ UNCHANGED <<roomVars, fanout, pktVars>>
  BY DEF RebuildAll
<1>2. Regular' /\ Goes(t, N)
  BY RebuildAllGoes, QuietlyRegular DEF IInv, Quietly
<1>3. h.op = "rebuildAll"
  BY <1>1, HeadFacts
<1>4. ASSUME NEW x \in N PROVE x.op = "rebuild" /\ x.pub \in Listed
  <2>1. Listed \subseteq Parts
    BY DEF Listed
  <2> QED
    BY <1>4, <2>1, StepFacts
<1>5. \A p, s \in Parts : ~Serves(h, p, s)
  BY <1>1, ServesHead
<1>6. \A p \in Parts : InService(p) => Rebuild(p) \in N /\ Refills(Rebuild(p), p)
  BY LiveListed, StepFacts DEF IInv, Refills
<1>7. ASSUME NEW x \in N PROVE Known(x) /\ Reasons(t, x) /\ Right(x) /\ Here(x)
  <2> HIDE DEF N, h
  <2> QED
    BY <1>4 DEF Known, Reasons, Right, Here
<1> HIDE DEF N, h
<1>8. Handed(t, N)
  BY <1>5, <1>6, <1>7 DEF Handed, h
<1> QED
  BY <1>1, <1>2, <1>3, <1>8, HandedKeeps DEF h

-----------------------------------------------------------------------------
(* rebuildFanout                                                           *)

LEMMA WantedFacts ==
  ASSUME NEW p, NEW dt
  PROVE  dt \in Wanted(p) <=>
           \E s \in Parts \ {p} :
             /\ dt = <<p, s, down[s][p]>> /\ dt[2] = s
             /\ down[s][p] # 0 /\ Live(s) /\ ShouldForward(p, s)
BY DEF Wanted

LEMMA StartRebuildKeeps ==
  ASSUME IInv, NEW t \in Threads, StartRebuild(t)
  PROVE  IInv'
<1> DEFINE h == Head(job[t])
           y == Collect(h.pub, "publish" \in caps[h.pub], Listed \ {h.pub}, {})
<1>1. At(t, "rebuild") /\ UNCHANGED <<roomVars, fanout, pktVars>>
  BY DEF StartRebuild
<1>2. Regular' /\ Goes(t, {y})
  BY StartRebuildGoes, QuietlyRegular DEF IInv, Quietly
<1>3. h.op = "rebuild" /\ h.pub \in Parts /\ (~overlapped => Here(h))
  BY <1>1, HeadFacts DEF PubOps
<1>4. /\ y.op = "collect" /\ y.pub = h.pub /\ (y.may <=> "publish" \in caps[h.pub])
      /\ y.rest = Listed \ {h.pub} /\ y.list = {}
  BY DEF Collect
<1>5. \A p, s \in Parts : ~Serves(h, p, s)
  BY <1>1, ServesHead
<1> HIDE DEF y
<1>6. \A p \in Parts : Refills(h, p) => Refills(y, p)
  BY <1>3, <1>4 DEF Refills
<1>7. Known(y) /\ Reasons(t, y) /\ (~overlapped => Here(y))
  BY <1>3, <1>4 DEF Known, Reasons, Here
<1>8. Right(y)
  <2>1. Heard({}) = {}
    BY DEF Heard
  <2>2. ASSUME NEW dt \in Wanted(h.pub) PROVE dt[2] \in Listed \ {h.pub}
    <3>1. PICK s \in Parts \ {h.pub} : dt[2] = s /\ Live(s)
      BY <2>2, WantedFacts
    <3> QED
      BY <3>1, LiveListed DEF IInv
  <2> QED
    BY <1>4, <2>1, <2>2 DEF Right
<1> HIDE DEF h
<1>9. Handed(t, {y})
  BY <1>5, <1>6, <1>7, <1>8 DEF Handed, h
<1> QED
  BY <1>1, <1>2, <1>3, <1>9, HandedKeeps DEF h

LEMMA CollectKeeps ==
  ASSUME IInv, NEW t \in Threads, CollectDownTrack(t)
  PROVE  IInv'
<1> DEFINE h == Head(job[t])
<1>1. At(t, "collect") /\ UNCHANGED <<roomVars, fanout, pktVars>>
  BY DEF CollectDownTrack
<1>2. Regular' /\ \E sub \in h.rest :
        Goes(t, {Collect(h.pub, h.may, h.rest \ {sub}, h.list \cup Added(h, sub))})
  BY CollectGoes, QuietlyRegular DEF IInv, Quietly
<1>3. PICK sub \in h.rest : Goes(t, {Collect(h.pub, h.may, h.rest \ {sub}, h.list \cup Added(h, sub))})
  BY <1>2
<1> DEFINE y == Collect(h.pub, h.may, h.rest \ {sub}, h.list \cup Added(h, sub))
<1>4. /\ h.op = "collect" /\ h \in Steps /\ h.pub \in Parts /\ Apart(h) /\ Known(h)
      /\ ~overlapped => Here(h) /\ Right(h)
  BY <1>1, HeadFacts
<1>5. sub \in Parts /\ sub # h.pub
  BY <1>4, StepKinds DEF Apart
<1>6. /\ y.op = "collect" /\ y.pub = h.pub /\ y.may = h.may
      /\ y.rest = h.rest \ {sub} /\ y.list = h.list \cup Added(h, sub)
  BY DEF Collect
<1>7. \A p, s \in Parts : ~Serves(h, p, s)
  BY <1>1, ServesHead
<1> HIDE DEF y
<1>8. \A p \in Parts : Refills(h, p) => Refills(y, p)
  BY <1>4, <1>6 DEF Refills
<1>9. Reasons(t, y) /\ (~overlapped => Here(y))
  BY <1>4, <1>6 DEF Reasons, Here
<1> DEFINE new == <<h.pub, sub, down[sub][h.pub]>>
<1>10. new[2] = sub
  OBVIOUS
<1>11. /\ Added(h, sub) \subseteq {new}
       /\ new \in Added(h, sub) <=>
            Live(sub) /\ h.may /\ "subscribe" \in caps[sub] /\ h.pub \notin unsub[sub] /\ down[sub][h.pub] # 0
  BY DEF Added
<1> HIDE DEF new, h
<1>12. Known(y)
  <2>1. ASSUME new \in Added(h, sub) PROVE sub # h.pub /\ life[sub] # "out"
    BY <1>4, <1>5, <1>11, <2>1 DEF IInv, Mapped
  <2> QED
    BY <1>4, <1>6, <1>10, <1>11, <2>1 DEF Known
<1>13. ASSUME ~overlapped PROVE Right(y)
  <2>1. (h.may <=> "publish" \in caps[h.pub]) /\ Heard(h.list) = {dt \in Wanted(h.pub) : dt[2] \notin h.rest}
    BY <1>4, <1>13 DEF Right
  <2>2. new \in Added(h, sub) => new \in Wanted(h.pub) /\ Live(sub)
    <3>1. new \in Added(h, sub) => ShouldForward(h.pub, sub) /\ down[sub][h.pub] # 0 /\ Live(sub)
      BY <1>11, <2>1 DEF ShouldForward
    <3> QED
      BY <1>5, <1>10, <3>1, WantedFacts DEF new
  <2>3. ASSUME NEW dt \in Wanted(h.pub), dt[2] = sub PROVE dt \in Added(h, sub) /\ dt = new
    <3>1. PICK s \in Parts \ {h.pub} :
            dt = <<h.pub, s, down[s][h.pub]>> /\ dt[2] = s /\ down[s][h.pub] # 0 /\ Live(s) /\ ShouldForward(h.pub, s)
      BY <2>3, WantedFacts
    <3>2. s = sub
      BY <2>3, <3>1
    <3> QED
      BY <1>11, <2>1, <3>1, <3>2 DEF ShouldForward, new
  <2>4. \A dt \in Heard(h.list) : dt \in Wanted(h.pub) /\ dt[2] \notin h.rest
    BY <2>1
  <2>5. ASSUME NEW dt \in Heard(y.list) PROVE dt \in Wanted(h.pub) /\ dt[2] \notin y.rest
    <3>1. CASE dt \in h.list
      <4>1. dt \in Heard(h.list)
        BY <2>5, <3>1 DEF Heard
      <4> QED
        BY <1>6, <2>4, <4>1
    <3>2. CASE dt = new /\ new \in Added(h, sub)
      BY <1>6, <1>10, <2>2, <3>2
    <3> QED
      BY <1>6, <1>11, <2>5, <3>1, <3>2 DEF Heard
  <2>6. ASSUME NEW dt \in Wanted(h.pub), dt[2] \notin y.rest PROVE dt \in Heard(y.list)
    <3>1. CASE dt[2] = sub
      BY <1>6, <1>10, <2>2, <2>3, <3>1 DEF Heard
    <3>2. CASE dt[2] # sub
      <4>1. dt \in Heard(h.list)
        BY <1>6, <2>1, <2>6, <3>2
      <4> QED
        BY <1>6, <4>1 DEF Heard
    <3> QED
      BY <3>1, <3>2
  <2>7. Heard(y.list) = {dt \in Wanted(h.pub) : dt[2] \notin y.rest}
    BY <2>5, <2>6
  <2> QED
    BY <1>6, <2>1, <2>7 DEF Right
<1>14. Handed(t, {y})
  BY <1>7, <1>8, <1>9, <1>12, <1>13 DEF Handed, h
<1>15. Goes(t, {y})
  BY <1>3 DEF y, h
<1> QED
  BY <1>1, <1>2, <1>4, <1>14, <1>15, HandedKeeps DEF h

-----------------------------------------------------------------------------
(* Steps that change down tracks and fanouts                               *)

\* All but the down tracks and the fanouts is the same.
Frame == UNCHANGED <<life, caps, publishing, tracks, unsub, pktVars>>

LEMMA FrameFacts ==
  ASSUME Frame
  PROVE  /\ life' = life /\ caps' = caps /\ publishing' = publishing /\ tracks' = tracks /\ unsub' = unsub
         /\ pkt' = pkt /\ held' = held
         /\ Listed' = Listed
         /\ \A p : (Live(p)' <=> Live(p)) /\ (InService(p)' <=> InService(p))
         /\ \A p, s : (Eligible(p, s)' <=> Eligible(p, s)) /\ (ShouldForward(p, s)' <=> ShouldForward(p, s))
         /\ \A S : Heard(S)' = Heard(S)
         /\ \A x : (Known(x)' <=> Known(x)) /\ (Here(x)' <=> Here(x))
<1>1. /\ life' = life /\ caps' = caps /\ publishing' = publishing /\ tracks' = tracks /\ unsub' = unsub
      /\ pkt' = pkt /\ held' = held
  BY DEF Frame, pktVars
<1>2. Listed' = Listed /\ \A p : Live(p)' <=> Live(p)
  BY <1>1 DEF Listed, Live
<1>3. \A p, s : ShouldForward(p, s)' <=> ShouldForward(p, s)
  BY <1>1 DEF ShouldForward
<1>4. \A p : InService(p)' <=> InService(p)
  BY <1>1, <1>2 DEF InService
<1>5. \A p, s : Eligible(p, s)' <=> Eligible(p, s)
  BY <1>1, <1>2, <1>3 DEF Eligible
<1>6. \A S : Heard(S)' = Heard(S)
  BY <1>2 DEF Heard
<1>7. \A x : (Known(x)' <=> Known(x)) /\ (Here(x)' <=> Here(x))
  BY <1>1, <1>2 DEF Known, Here
<1> QED
  BY <1>1, <1>2, <1>3, <1>4, <1>5, <1>6, <1>7

\* A removal is not under way where a down track is owed.
LEMMA Doomed ==
  ASSUME NEW t, NEW p \in Parts, NEW s \in Parts
  PROVE  /\ Silenced(t, p) => ~(Eligible(p, s) /\ First(p)) /\ (~overlapped => ~InService(p))
         /\ Deaf(t, s) => ~Eligible(p, s) /\ ~ShouldForward(p, s)
BY DEF Silenced, Deaf, Eligible, First, InService, ShouldForward, Live

\* What remains of the invariant when a step of that kind is taken.
LEMMA FrameKeeps ==
  ASSUME IInv, NEW t \in Threads, NEW N, Goes(t, N), Frame, \A x \in N : Reasons(t, x)
  PROVE  /\ Joined' /\ Gated' /\ Removals'
         /\ ~overlapped' =>
              /\ ~overlapped /\ Sequential /\ Lone' /\ Todo' = N \cup Rest(t)
              /\ (\A x \in N : Here(x)) => Present'
              /\ (\A x \in N : x.op # "collect") => Collecting'
<1>1. /\ life' = life /\ caps' = caps /\ publishing' = publishing /\ tracks' = tracks
      /\ pkt' = pkt /\ held' = held /\ overlapped' = overlapped /\ Listed' = Listed
      /\ \A x : Here(x)' <=> Here(x)
  BY FrameFacts DEF Goes
<1>2. Joined' /\ Gated'
  BY <1>1 DEF IInv, Joined, Gated
<1>3. Removals'
  <2> SUFFICES ASSUME NEW u \in Threads, NEW x \in Left(u)' PROVE Reasons(u, x)'
    BY DEF Removals
  <2>1. (u = t /\ x \in N) \/ x \in Left(u)
    BY TodoGoes DEF IInv
  <2>2. Reasons(u, x)
    BY <2>1 DEF IInv, Removals
  <2> QED
    BY <1>1, <2>2 DEF Reasons, Silenced, Deaf, First
<1>4. ASSUME ~overlapped'
      PROVE  /\ ~overlapped /\ Sequential /\ Lone' /\ Todo' = N \cup Rest(t)
             /\ (\A x \in N : Here(x)) => Present'
             /\ (\A x \in N : x.op # "collect") => Collecting'
  <2>1. ~overlapped /\ Sequential /\ Lone
    BY <1>1, <1>4 DEF IInv, Alone
  <2>2. Lone' /\ Todo' = N \cup Rest(t)
    BY <2>1, TodoGoes DEF IInv
  <2>3. Rest(t) \subseteq Todo /\ \A x \in Rest(t) : x.op # "collect"
    BY RestFacts DEF IInv, Goes, Todo
  <2>4. (\A x \in N : Here(x)) => Present'
    BY <1>1, <2>1, <2>2, <2>3 DEF Sequential, Present
  <2>5. (\A x \in N : x.op # "collect") => Collecting'
    BY <2>2, <2>3 DEF Collecting, Right
  <2> QED
    BY <2>1, <2>2, <2>4, <2>5
<1> QED
  BY <1>2, <1>3, <1>4

LEMMA PairUpdate ==
  ASSUME NEW d \in [Parts -> [Parts -> Nat]], NEW a \in Parts, NEW b \in Parts, NEW k
  PROVE  LET e == [d EXCEPT ![a][b] = k] IN
         \A s, p \in Parts : e[s][p] = IF s = a /\ p = b THEN k ELSE d[s][p]
<1> DEFINE row == [d[a] EXCEPT ![b] = k]
<1>1. \A p \in Parts : row[p] = IF p = b THEN k ELSE d[a][p]
  OBVIOUS
<1> HIDE DEF row
<1>2. \A s \in Parts : [d EXCEPT ![a] = row][s] = IF s = a THEN row ELSE d[s]
  OBVIOUS
<1>3. [d EXCEPT ![a][b] = k] = [d EXCEPT ![a] = row]
  BY DEF row
<1> QED
  BY <1>1, <1>2, <1>3

LEMMA CreateKeeps ==
  ASSUME IInv, NEW t \in Threads, CreateDownTrack(t)
  PROVE  IInv'
<1> DEFINE h == Head(job[t])
           k == FreshDt(h.pub, h.sub)
<1>1. At(t, "create") /\ Frame /\ UNCHANGED fanout
  BY DEF CreateDownTrack, Frame
<1>2. Regular' /\ Goes(t, {})
  BY CreateRegular DEF IInv
<1>3. /\ h.op = "create" /\ h.pub \in Parts /\ h.sub \in Parts /\ h.pub # h.sub /\ job[t] # <<>>
      /\ ~overlapped => h.pub \in Listed
  BY <1>1, HeadFacts DEF PairOps, Apart, Here
<1>4. k # 0
  BY FreshFacts DEF IInv
<1>5. IF Live(h.sub) THEN /\ bound' = bound \cup {<<h.pub, h.sub, k>>}
                          /\ down' = [down EXCEPT ![h.sub][h.pub] = k]
                     ELSE bound' = bound /\ down' = down
  BY DEF CreateDownTrack
<1>6. down \in [Parts -> [Parts -> Nat]]
  BY DEF IInv, Regular, Types
<1> HIDE DEF k, h
<1>7. /\ \A s, p \in Parts : ~(s = h.sub /\ p = h.pub) => down'[s][p] = down[s][p]
      /\ Live(h.sub) => down'[h.sub][h.pub] = k /\ <<h.pub, h.sub, k>> \in bound'
      /\ ~Live(h.sub) => down'[h.sub][h.pub] = down[h.sub][h.pub]
      /\ bound \subseteq bound' /\ \A dt \in bound' : dt \in bound \/ (Live(h.sub) /\ dt = <<h.pub, h.sub, k>>)
  <2>1. CASE Live(h.sub)
    <3>0. down' = [down EXCEPT ![h.sub][h.pub] = k]
      BY <1>5, <2>1
    <3>1. \A s, p \in Parts : down'[s][p] = IF s = h.sub /\ p = h.pub THEN k ELSE down[s][p]
      BY <1>3, <1>6, <3>0, PairUpdate
    <3>2. bound' = bound \cup {<<h.pub, h.sub, k>>}
      BY <1>5, <2>1
    <3> QED
      BY <1>3, <2>1, <3>1, <3>2
  <2>2. CASE ~Live(h.sub)
    BY <1>5, <2>2
  <2> QED
    BY <2>1, <2>2
<1>8. /\ life' = life /\ caps' = caps /\ publishing' = publishing /\ tracks' = tracks
      /\ Listed' = Listed /\ fanout' = fanout /\ overlapped' = overlapped
      /\ \A p : (Live(p)' <=> Live(p)) /\ (InService(p)' <=> InService(p))
      /\ \A p, s : (Eligible(p, s)' <=> Eligible(p, s)) /\ (ShouldForward(p, s)' <=> ShouldForward(p, s))
      /\ \A S : Heard(S)' = Heard(S)
      /\ \A x : Known(x)' <=> Known(x)
  BY <1>1, <1>2, FrameFacts DEF Goes
<1>9. /\ Joined' /\ Gated' /\ Removals'
      /\ ~overlapped' => /\ ~overlapped /\ Sequential /\ Lone' /\ Todo' = Rest(t)
                         /\ Present' /\ Collecting'
  BY <1>1, <1>2, FrameKeeps
<1>10. (\A x \in Todo : x # h => x \in Todo') /\ Todo' \subseteq Todo /\ h \in Todo
  BY <1>2, TodoGoes DEF IInv, h
<1>11. Mapped'
  <2>1. ASSUME NEW s \in Parts, NEW p \in Parts, down'[s][p] # 0
        PROVE  s # p /\ life'[s] # "out" /\ (Live(s)' => <<p, s, down'[s][p]>> \in bound')
    <3>1. CASE s = h.sub /\ p = h.pub /\ Live(h.sub)
      BY <1>3, <1>7, <1>8, <3>1 DEF Live
    <3>2. CASE ~(s = h.sub /\ p = h.pub /\ Live(h.sub))
      <4>1. down'[s][p] = down[s][p]
        BY <1>7, <3>2
      <4> QED
        BY <1>7, <1>8, <2>1, <4>1 DEF IInv, Mapped
    <3> QED
      BY <3>1, <3>2
  <2>2. ASSUME NEW dt \in bound' PROVE dt[2] # dt[1] /\ life'[dt[2]] # "out"
    <3>1. CASE dt \in bound
      BY <1>8, <3>1 DEF IInv, Mapped
    <3>2. CASE Live(h.sub) /\ dt = <<h.pub, h.sub, k>>
      BY <1>3, <1>8, <3>2 DEF Live
    <3> QED
      BY <1>7, <3>1, <3>2
  <2>3. \A x \in Todo' : Known(x)'
    BY <1>8, <1>10 DEF IInv, Mapped
  <2>4. \A p \in Parts : \A dt \in fanout'[p] : dt[1] = p /\ dt[2] # p /\ life'[dt[2]] # "out"
    BY <1>8 DEF IInv, Mapped
  <2> QED
    BY <2>1, <2>2, <2>3, <2>4 DEF Mapped
<1>12. Owed'
  <2> SUFFICES ASSUME NEW p \in Parts, NEW s \in Parts, Eligible(p, s), First(p), ~(down'[s][p] # 0)
               PROVE  \E x \in Todo' : Serves(x, p, s)
    BY <1>8 DEF Owed, Serves, First
  <2>1. ~(s = h.sub /\ p = h.pub)
    BY <1>4, <1>7, LiveListed DEF IInv
  <2>2. PICK x \in Todo : Serves(x, p, s)
    BY <1>7, <2>1 DEF IInv, Owed
  <2>3. x # h
    BY <1>1, <2>1, <2>2, ServesHead DEF h
  <2> QED
    BY <1>10, <2>2, <2>3
<1>13. ASSUME ~overlapped' PROVE Lone' /\ Sequential'
  <2>1. Cleared'
    <3> SUFFICES ASSUME NEW p \in Parts, NEW s \in Parts, life[p] = "left", Live(s), down'[s][p] # 0
                 PROVE  Drop(p, s) \in Todo' \/ Detach(p) \in Todo'
      BY <1>8 DEF Cleared, Drop, Detach
    <3>1. p # h.pub
      BY <1>3, <1>9, <1>13 DEF Listed
    <3>2. Drop(p, s) \in Todo \/ Detach(p) \in Todo
      BY <1>7, <1>9, <1>13, <3>1 DEF Sequential, Cleared
    <3>3. Drop(p, s) # h /\ Detach(p) # h
      BY <1>3, StepFacts
    <3> QED
      BY <1>10, <3>2, <3>3
  <2>2. Rebuild(h.pub) \in Todo'
    BY <1>3, <1>9, <1>13, RestFacts DEF IInv, h
  <2>3. Filled'
    <3> SUFFICES ASSUME NEW p \in Parts, InService(p), Heard(fanout[p]) # Wanted(p)'
                 PROVE  \E x \in Todo' : Refills(x, p)
      <4>1. \A p \in Parts : Heard(fanout[p])' = Heard(fanout[p])
        BY <1>8 DEF Heard
      <4> QED
        BY <1>8, <4>1 DEF Filled, Refills
    <3>1. CASE p = h.pub
      BY <2>2, <3>1, StepFacts DEF Refills
    <3>2. CASE p # h.pub
      <4>1. Wanted(p)' = Wanted(p)
        <5>1. \A s \in Parts : down'[s][p] = down[s][p]
          BY <1>7, <3>2
        <5> QED
          BY <1>8, <5>1 DEF Wanted
      <4>2. PICK x \in Todo : Refills(x, p)
        BY <1>9, <1>13, <4>1 DEF Sequential, Filled
      <4>3. x # h
        BY <1>3, <4>2 DEF Refills
      <4> QED
        BY <1>10, <4>2, <4>3
    <3> QED
      BY <3>1, <3>2
  <2> QED
    BY <1>9, <1>13, <2>1, <2>3 DEF Sequential
<1> QED
  BY <1>2, <1>9, <1>11, <1>12, <1>13 DEF IInv, Alone

LEMMA RemoveKeeps ==
  ASSUME IInv, NEW t \in Threads, RemoveDownTrack(t)
  PROVE  IInv'
<1> DEFINE h == Head(job[t])
<1>1. At(t, "remove") /\ Frame /\ UNCHANGED fanout
  BY DEF RemoveDownTrack, Frame
<1>2. Regular' /\ Goes(t, {})
  BY RemoveRegular DEF IInv
<1>3. h.op = "remove" /\ h \in Steps /\ h.pub \in Parts /\ h.sub \in Parts /\ Reasons(t, h) /\ h = Drop(h.pub, h.sub)
  BY <1>1, HeadFacts, StepKinds DEF PairOps
<1>4. /\ down' = [down EXCEPT ![h.sub][h.pub] = 0]
      /\ bound' = bound \ {<<h.pub, h.sub, down[h.sub][h.pub]>>}
  BY DEF RemoveDownTrack
<1>5. down \in [Parts -> [Parts -> Nat]]
  BY DEF IInv, Regular, Types
<1> HIDE DEF h
<1>6. \A s, p \in Parts : down'[s][p] = IF s = h.sub /\ p = h.pub THEN 0 ELSE down[s][p]
  BY <1>3, <1>4, <1>5, PairUpdate
<1>7. /\ life' = life /\ caps' = caps /\ publishing' = publishing /\ tracks' = tracks
      /\ Listed' = Listed /\ fanout' = fanout /\ overlapped' = overlapped
      /\ \A p : (Live(p)' <=> Live(p)) /\ (InService(p)' <=> InService(p))
      /\ \A p, s : (Eligible(p, s)' <=> Eligible(p, s)) /\ (ShouldForward(p, s)' <=> ShouldForward(p, s))
      /\ \A S : Heard(S)' = Heard(S)
      /\ \A x : Known(x)' <=> Known(x)
  BY <1>1, <1>2, FrameFacts DEF Goes
<1>8. /\ Joined' /\ Gated' /\ Removals'
      /\ ~overlapped' => ~overlapped /\ Sequential /\ Lone' /\ Present' /\ Collecting'
  BY <1>1, <1>2, FrameKeeps
<1>9. (\A x \in Todo : x # h => x \in Todo') /\ Todo' \subseteq Todo
  BY <1>2, TodoGoes DEF IInv, h
<1>10. Silenced(t, h.pub) \/ Deaf(t, h.sub)
  BY <1>3 DEF Reasons
<1>11. Mapped'
  <2>1. ASSUME NEW s \in Parts, NEW p \in Parts, down'[s][p] # 0
        PROVE  s # p /\ life'[s] # "out" /\ (Live(s)' => <<p, s, down'[s][p]>> \in bound')
    <3>1. ~(s = h.sub /\ p = h.pub) /\ down'[s][p] = down[s][p]
      BY <1>6, <2>1
    <3>2. s # p /\ life[s] # "out" /\ (Live(s) => <<p, s, down[s][p]>> \in bound)
      BY <2>1, <3>1 DEF IInv, Mapped
    <3> QED
      BY <1>4, <1>7, <3>1, <3>2
  <2>2. \A dt \in bound' : dt[2] # dt[1] /\ life'[dt[2]] # "out"
    BY <1>4, <1>7 DEF IInv, Mapped
  <2>3. \A x \in Todo' : Known(x)'
    BY <1>7, <1>9 DEF IInv, Mapped
  <2>4. \A p \in Parts : \A dt \in fanout'[p] : dt[1] = p /\ dt[2] # p /\ life'[dt[2]] # "out"
    BY <1>7 DEF IInv, Mapped
  <2> QED
    BY <2>1, <2>2, <2>3, <2>4 DEF Mapped
<1>12. Owed'
  <2> SUFFICES ASSUME NEW p \in Parts, NEW s \in Parts, Eligible(p, s), First(p), ~(down'[s][p] # 0)
               PROVE  \E x \in Todo' : Serves(x, p, s)
    BY <1>7 DEF Owed, Serves, First
  <2>1. ~(s = h.sub /\ p = h.pub)
    BY <1>10, Doomed
  <2>2. PICK x \in Todo : Serves(x, p, s)
    BY <1>6, <2>1 DEF IInv, Owed
  <2>3. x # h
    BY <1>1, <2>2, ServesHead DEF h
  <2> QED
    BY <1>9, <2>2, <2>3
<1>13. ASSUME ~overlapped' PROVE Lone' /\ Sequential'
  <2>1. Cleared'
    <3> SUFFICES ASSUME NEW p \in Parts, NEW s \in Parts, life[p] = "left", Live(s), down'[s][p] # 0
                 PROVE  Drop(p, s) \in Todo' \/ Detach(p) \in Todo'
      BY <1>7 DEF Cleared, Drop, Detach
    <3>1. ~(s = h.sub /\ p = h.pub) /\ down[s][p] # 0
      BY <1>6
    <3>2. Drop(p, s) \in Todo \/ Detach(p) \in Todo
      BY <1>8, <1>13, <3>1 DEF Sequential, Cleared
    <3>3. Drop(p, s) # h /\ Detach(p) # h
      BY <1>3, <3>1, StepFacts
    <3> QED
      BY <1>9, <3>2, <3>3
  <2>2. Filled'
    <3> SUFFICES ASSUME NEW p \in Parts, InService(p), Heard(fanout[p]) # Wanted(p)'
                 PROVE  \E x \in Todo' : Refills(x, p)
      <4>1. \A p \in Parts : Heard(fanout[p])' = Heard(fanout[p])
        BY <1>7 DEF Heard
      <4> QED
        BY <1>7, <4>1 DEF Filled, Refills
    <3>1. p = h.pub => ~ShouldForward(p, h.sub)
      BY <1>3, <1>8, <1>10, <1>13, Doomed
    <3>2. \A s \in Parts : ShouldForward(p, s) => down'[s][p] = down[s][p]
      BY <1>6, <3>1
    <3>3. Wanted(p)' = Wanted(p)
      BY <1>7, <3>2 DEF Wanted
    <3>4. PICK x \in Todo : Refills(x, p)
      BY <1>8, <1>13, <3>3 DEF Sequential, Filled
    <3>5. x # h
      BY <1>3, <3>4 DEF Refills
    <3> QED
      BY <1>9, <3>4, <3>5
  <2> QED
    BY <1>8, <1>13, <2>1, <2>2 DEF Sequential
<1> QED
  BY <1>2, <1>8, <1>11, <1>12, <1>13 DEF IInv, Alone

\* A step writes the fanout of publisher q, and removals take its place.
Rewrites(t, N, q, S) ==
  LET h == Head(job[t]) IN
  /\ \A dt \in S : dt[1] = q /\ dt[2] # q /\ life[dt[2]] # "out"
  /\ \A x \in N : x.op \in {"remove", "detach"} /\ Reasons(t, x)
  /\ \A p, s \in Parts : ~Serves(h, p, s)
  /\ \A p \in Parts : Refills(h, p) => p = q
  /\ ~overlapped => ~InService(q) \/ Heard(S) = Wanted(q)
  /\ \A p, s \in Parts : life[p] = "left" /\ Live(s) /\ h \in {Drop(p, s), Detach(p)} => Drop(p, s) \in N

LEMMA FanoutKeeps ==
  ASSUME IInv, NEW t \in Threads, NEW N, Goes(t, N), Regular', UNCHANGED <<roomVars, pktVars>>,
         NEW q \in Parts, NEW S, fanout' = [fanout EXCEPT ![q] = S], Rewrites(t, N, q, S)
  PROVE  IInv'
<1> DEFINE h == Head(job[t])
<1>1. Frame /\ down' = down /\ bound' = bound
  BY DEF Frame, roomVars
<1>2. /\ life' = life /\ caps' = caps /\ publishing' = publishing /\ tracks' = tracks /\ overlapped' = overlapped
      /\ \A p : (Live(p)' <=> Live(p)) /\ (InService(p)' <=> InService(p)) /\ Wanted(p)' = Wanted(p)
      /\ \A p, s : Eligible(p, s)' <=> Eligible(p, s)
      /\ \A R : Heard(R)' = Heard(R)
      /\ \A x : Known(x)' <=> Known(x)
  BY SameRoom DEF roomVars, Goes
<1>3. \A p \in Parts : fanout'[p] = IF p = q THEN S ELSE fanout[p]
  BY DEF IInv, Regular, Types
<1>4. /\ Joined' /\ Gated' /\ Removals'
      /\ ~overlapped' => ~overlapped /\ Sequential /\ Lone' /\ Present' /\ Collecting'
  <2>1. \A x \in N : Reasons(t, x) /\ Here(x) /\ x.op # "collect"
    BY DEF Here, Rewrites
  <2> QED
    BY <1>1, <2>1, FrameKeeps
<1>5. (\A x \in Todo : x # h => x \in Todo') /\ N \subseteq Todo' /\ \A x \in Todo' : x \in N \/ x \in Todo
  BY TodoGoes DEF IInv
<1> HIDE DEF h
<1>6. Mapped'
  <2>1. \A s, p \in Parts : down'[s][p] # 0 => /\ s # p /\ life'[s] # "out"
                                               /\ Live(s)' => <<p, s, down'[s][p]>> \in bound'
    BY <1>1, <1>2 DEF IInv, Mapped
  <2>2. \A dt \in bound' : dt[2] # dt[1] /\ life'[dt[2]] # "out"
    BY <1>1, <1>2 DEF IInv, Mapped
  <2>3. \A x \in N : Known(x)
    BY DEF Known, Rewrites
  <2>4. \A x \in Todo' : Known(x)'
    BY <1>2, <1>5, <2>3 DEF IInv, Mapped
  <2>5. \A p \in Parts : \A dt \in fanout'[p] : dt[1] = p /\ dt[2] # p /\ life'[dt[2]] # "out"
    BY <1>2, <1>3 DEF IInv, Mapped, Rewrites
  <2> QED
    BY <2>1, <2>2, <2>4, <2>5 DEF Mapped
<1>7. Owed'
  <2> SUFFICES ASSUME NEW p \in Parts, NEW s \in Parts, Eligible(p, s), First(p), ~(down[s][p] # 0)
               PROVE  \E x \in Todo' : Serves(x, p, s)
    BY <1>1, <1>2 DEF Owed, Serves, First
  <2>1. PICK x \in Todo : Serves(x, p, s)
    BY DEF IInv, Owed
  <2> QED
    BY <1>5, <2>1 DEF h, Rewrites
<1>8. ASSUME ~overlapped' PROVE Lone' /\ Sequential'
  <2>1. Cleared'
    <3> SUFFICES ASSUME NEW p \in Parts, NEW s \in Parts, life[p] = "left", Live(s), down[s][p] # 0
                 PROVE  Drop(p, s) \in Todo' \/ Detach(p) \in Todo'
      BY <1>1, <1>2 DEF Cleared, Drop, Detach
    <3>1. Drop(p, s) \in Todo \/ Detach(p) \in Todo
      BY <1>4, <1>8 DEF Sequential, Cleared
    <3>2. h \in {Drop(p, s), Detach(p)} => Drop(p, s) \in N
      BY DEF h, Rewrites
    <3> QED
      BY <1>5, <3>1, <3>2
  <2>2. Filled'
    <3> SUFFICES ASSUME NEW p \in Parts, InService(p), Heard(fanout'[p]) # Wanted(p)
                 PROVE  \E x \in Todo' : Refills(x, p)
      <4>1. \A p \in Parts : Heard(fanout[p])' = Heard(fanout'[p])
        BY <1>2 DEF Heard
      <4> QED
        BY <1>2, <4>1 DEF Filled, Refills
    <3>1. p # q /\ fanout'[p] = fanout[p]
      BY <1>3, <1>4, <1>8 DEF Rewrites
    <3>2. PICK x \in Todo : Refills(x, p)
      BY <1>4, <1>8, <3>1 DEF Sequential, Filled
    <3>3. x # h
      BY <3>1, <3>2 DEF h, Rewrites
    <3> QED
      BY <1>5, <3>2, <3>3
  <2> QED
    BY <1>4, <1>8, <2>1, <2>2 DEF Sequential
<1> QED
  BY <1>4, <1>6, <1>7, <1>8 DEF IInv, Alone

LEMMA DetachKeeps ==
  ASSUME IInv, NEW t \in Threads, DetachPublisher(t)
  PROVE  IInv'
<1> DEFINE h == Head(job[t])
           q == h.pub
           N == {Drop(q, s) : s \in Listed \ {q}}
<1>1. At(t, "detach") /\ fanout' = [fanout EXCEPT ![q] = {}] /\ UNCHANGED <<roomVars, pktVars>>
  BY DEF DetachPublisher
<1>2. Regular' /\ Goes(t, N)
  BY DetachGoes, EmptiedRegular DEF IInv
<1>3. h.op = "detach" /\ q \in Parts /\ Reasons(t, h)
  BY <1>1, HeadFacts DEF PubOps
<1>4. Silenced(t, q)
  BY <1>3 DEF Reasons
<1>5. ASSUME NEW x \in N PROVE x.op = "remove" /\ x.pub = q
  <2>1. Listed \subseteq Parts
    BY DEF Listed
  <2> QED
    BY <1>3, <1>5, <2>1, StepFacts
<1>6. \A p, s \in Parts : ~Serves(h, p, s)
  BY <1>1, ServesHead
<1>7. ASSUME NEW p \in Parts, NEW s \in Parts, life[p] = "left", Live(s), h \in {Drop(p, s), Detach(p)}
      PROVE  Drop(p, s) \in N
  <2>1. p = q
    BY <1>3, <1>7, StepFacts
  <2>2. s \in Listed \ {q}
    BY <1>7, <2>1 DEF Live, Listed
  <2> QED
    BY <2>1, <2>2
<1> HIDE DEF N
<1>8. \A x \in N : x.op \in {"remove", "detach"} /\ Reasons(t, x)
  BY <1>4, <1>5 DEF Reasons
<1>9. ~overlapped => ~InService(q)
  BY <1>3, <1>4, Doomed
<1>10. \A p \in Parts : ~Refills(h, p)
  BY <1>3 DEF Refills
<1> HIDE DEF h, q
<1> DEFINE S == {}
<1>11. fanout' = [fanout EXCEPT ![q] = S] /\ \A dt \in S : dt[1] = q /\ dt[2] # q /\ life[dt[2]] # "out"
  BY <1>1
<1> HIDE DEF S
<1>12. Rewrites(t, N, q, S)
  BY <1>6, <1>7, <1>8, <1>9, <1>10, <1>11 DEF Rewrites, h
<1> QED
  BY <1>1, <1>2, <1>3, <1>11, <1>12, FanoutKeeps

LEMMA PublishLostKeeps ==
  ASSUME IInv, NEW t \in Threads, PublishLost(t)
  PROVE  IInv'
<1> DEFINE h == Head(job[t])
           q == h.p
           N == IF q \in publishing THEN {Detach(q)} ELSE {}
<1>1. At(t, "publishLost") /\ fanout' = [fanout EXCEPT ![q] = {}] /\ UNCHANGED <<roomVars, pktVars>>
  BY DEF PublishLost
<1>2. Regular' /\ Goes(t, N)
  BY PublishLostGoes, EmptiedRegular DEF IInv
<1>3. h.op = "publishLost" /\ q \in Parts /\ Reasons(t, h)
  BY <1>1, HeadFacts DEF TaskOps
<1>4. Silenced(t, q)
  BY <1>3 DEF Reasons
<1>5. \A x \in N : x.op = "detach" /\ x.pub = q
  BY <1>3, StepFacts
<1>6. \A p, s \in Parts : ~Serves(h, p, s)
  BY <1>1, ServesHead
<1>7. \A p, s \in Parts : h \notin {Drop(p, s), Detach(p)}
  BY <1>3, StepFacts
<1> HIDE DEF N
<1>8. \A x \in N : x.op \in {"remove", "detach"} /\ Reasons(t, x)
  BY <1>4, <1>5 DEF Reasons
<1>9. ~overlapped => ~InService(q)
  BY <1>3, <1>4, Doomed
<1>10. \A p \in Parts : ~Refills(h, p)
  BY <1>3 DEF Refills
<1> HIDE DEF h, q
<1> DEFINE S == {}
<1>11. fanout' = [fanout EXCEPT ![q] = S] /\ \A dt \in S : dt[1] = q /\ dt[2] # q /\ life[dt[2]] # "out"
  BY <1>1
<1> HIDE DEF S
<1>12. Rewrites(t, N, q, S)
  BY <1>6, <1>7, <1>8, <1>9, <1>10, <1>11 DEF Rewrites, h
<1> QED
  BY <1>1, <1>2, <1>3, <1>11, <1>12, FanoutKeeps

LEMMA StoreKeeps ==
  ASSUME IInv, NEW t \in Threads, StoreFanout(t)
  PROVE  IInv'
<1> DEFINE h == Head(job[t])
<1>1. At(t, "collect") /\ fanout' = [fanout EXCEPT ![h.pub] = h.list] /\ h.rest = {} /\ UNCHANGED <<roomVars, pktVars>>
  BY DEF StoreFanout
<1>2. Regular' /\ Goes(t, {})
  BY StoreRegular DEF IInv
<1>3. h.op = "collect" /\ h.pub \in Parts /\ Apart(h) /\ Known(h) /\ (~overlapped => Right(h))
  BY <1>1, HeadFacts
<1>4. \A p, s \in Parts : ~Serves(h, p, s)
  BY <1>1, ServesHead
<1>5. \A p, s \in Parts : h \notin {Drop(p, s), Detach(p)}
  BY <1>3, StepFacts
<1> HIDE DEF h
<1>6. \A dt \in h.list : dt[1] = h.pub /\ dt[2] # h.pub /\ life[dt[2]] # "out"
  BY <1>3 DEF Apart, Known
<1>7. ~overlapped => Heard(h.list) = Wanted(h.pub)
  BY <1>1, <1>3 DEF Right
<1>8. \A p \in Parts : Refills(h, p) => p = h.pub
  BY <1>3 DEF Refills
<1> DEFINE N == {}
<1>9. Goes(t, N) /\ \A x \in N : x.op \in {"remove", "detach"} /\ Reasons(t, x)
  BY <1>2
<1> HIDE DEF N
<1> DEFINE q == h.pub
           S == h.list
<1>10. Rewrites(t, N, q, S)
  BY <1>4, <1>5, <1>6, <1>7, <1>8, <1>9 DEF Rewrites, h
<1>11. q \in Parts /\ fanout' = [fanout EXCEPT ![q] = S]
  BY <1>1, <1>3
<1> HIDE DEF q, S
<1> QED
  BY <1>1, <1>2, <1>9, <1>10, <1>11, FanoutKeeps

LEMMA RemoveParticipantKeeps ==
  ASSUME IInv, NEW t \in Threads, RemoveParticipant(t)
  PROVE  IInv'
<1> DEFINE h == Head(job[t])
<1>0. PICK q \in Parts : q = h.p
  BY HeadFacts DEF RemoveParticipant, TaskOps
<1>1. At(t, "unlist") /\ life' = [life EXCEPT ![q] = "left"]
  BY <1>0 DEF RemoveParticipant
<1>2. /\ caps' = caps /\ publishing' = publishing /\ tracks' = tracks /\ down' = down /\ bound' = bound
      /\ unsub' = unsub /\ fanout' = fanout /\ pkt' = pkt /\ held' = held
  BY DEF RemoveParticipant, pktVars
<1>3. Regular' /\ Goes(t, {Detach(q)})
  BY <1>0, RemoveParticipantRegular, RemoveParticipantGoes DEF IInv
<1>4. h.op = "unlist" /\ Reasons(t, h)
  BY <1>1, HeadFacts DEF TaskOps
<1>5. t = <<"close", q>> /\ life[q] = "closed"
  BY <1>0, <1>4 DEF Reasons
<1>6. overlapped' = overlapped
  BY <1>3 DEF Goes
<1>7. /\ \A x \in Todo : x # h => x \in Todo'
      /\ Detach(q) \in Todo'
      /\ \A u \in Threads : \A x \in Left(u)' : (u = t /\ x = Detach(q)) \/ x \in Left(u)
      /\ \A x \in Todo' : x = Detach(q) \/ x \in Todo
      /\ Lone => Lone' /\ Todo' = {Detach(q)} \cup Rest(t)
  BY <1>3, TodoGoes DEF IInv
<1>8. Rest(t) = {} /\ Left(t)' = {Detach(q)}
  <2>1. Rest(t) = {}
    BY <1>1, <1>4, RestFacts DEF IInv, At
  <2> QED
    BY <1>3, <2>1 DEF Goes, Left2
<1>9. Detach(q).op = "detach" /\ Detach(q).pub = q
  BY StepFacts
<1>10. \A p, s \in Parts : ~Serves(h, p, s)
  BY <1>1, ServesHead
<1>11. \A p, s \in Parts : h # Drop(p, s) /\ h # Detach(p)
  BY <1>4, StepFacts
<1> HIDE DEF h
<1>12. life \in [Parts -> {"out", "in", "connected", "closed", "left"}]
  BY DEF IInv, Regular, Types
<1>13. \A p \in Parts : life'[p] = IF p = q THEN "left" ELSE life[p]
  BY <1>1, <1>12
<1>14. \A p \in Parts : (Live(p)' <=> Live(p)) /\ (life'[p] = "out" <=> life[p] = "out")
                        /\ (life'[p] = "connected" <=> life[p] = "connected")
  BY <1>5, <1>13 DEF Live
<1>15. \A p, s \in Parts : (ShouldForward(p, s)' <=> ShouldForward(p, s)) /\ (Eligible(p, s)' <=> Eligible(p, s))
  BY <1>2, <1>14 DEF ShouldForward, Eligible
<1>16. \A p \in Parts : fanout[p] \subseteq Dts
  BY DEF IInv, Regular, Types
<1>17. \A dt \in Dts : dt[2] \in Parts
  BY DEF Dts
<1>18. Mapped'
  <2>1. \A s, p \in Parts : down'[s][p] # 0 => /\ s # p /\ life'[s] # "out"
                                               /\ Live(s)' => <<p, s, down'[s][p]>> \in bound'
    BY <1>2, <1>14 DEF IInv, Mapped
  <2>2. bound \subseteq Dts
    BY DEF IInv, Regular, Types
  <2>3. \A dt \in bound' : dt[2] # dt[1] /\ life'[dt[2]] # "out"
    BY <1>2, <1>14, <1>17, <2>2 DEF IInv, Mapped
  <2>4. \A p \in Parts : \A dt \in fanout'[p] : dt[1] = p /\ dt[2] # p /\ life'[dt[2]] # "out"
    BY <1>2, <1>14, <1>16, <1>17 DEF IInv, Mapped
  <2>5. ASSUME NEW x \in Todo' PROVE Known(x)'
    <3>1. CASE x = Detach(q)
      BY <1>9, <3>1 DEF Known
    <3>2. CASE x \in Todo
      <4>1. Known(x) /\ x \in Steps
        BY <3>2, TodoSteps DEF IInv, Mapped
      <4>2. x.op = "collect" => x.list \subseteq Dts
        BY <4>1, StepKinds
      <4> QED
        BY <1>14, <1>17, <4>1, <4>2 DEF Known
    <3> QED
      BY <1>7, <3>1, <3>2
  <2> QED
    BY <2>1, <2>3, <2>4, <2>5 DEF Mapped
<1>19. Joined' /\ Gated'
  BY <1>2, <1>14 DEF IInv, Joined, Gated
<1>20. Removals'
  <2> SUFFICES ASSUME NEW u \in Threads, NEW x \in Left(u)' PROVE Reasons(u, x)'
    BY DEF Removals
  <2>1. CASE u = t
    <3>1. x = Detach(q)
      BY <1>8, <2>1
    <3>2. Silenced(t, q)'
      BY <1>5, <1>13 DEF Silenced
    <3> QED
      BY <1>9, <2>1, <3>1, <3>2 DEF Reasons
  <2>2. CASE u # t
    <3>1. Reasons(u, x) /\ x \in Todo
      BY <1>7, <2>2 DEF IInv, Removals, Todo
    <3>2. x \in Steps
      BY <3>1, TodoSteps DEF IInv
    <3>3. /\ x.op \in {"remove", "detach"} => x.pub \in Parts
          /\ x.op = "remove" => x.sub \in Parts
          /\ x.op \in {"trackEnded", "publishLost", "subscribeLost", "unlist"} => x.p \in Parts
      BY <3>2, StepKinds DEF PairOps, PubOps, TaskOps
    <3>4. \A p \in Parts : (Silenced(u, p) => Silenced(u, p)') /\ (Deaf(u, p) => Deaf(u, p)')
      BY <1>2, <1>6, <1>13, <1>14 DEF Silenced, Deaf, First
    <3>5. x.op = "unlist" => u = <<"close", x.p>> /\ life'[x.p] = "closed"
      <4>1. x.op = "unlist" => u = <<"close", x.p>> /\ life[x.p] = "closed"
        BY <3>1 DEF Reasons
      <4> QED
        BY <1>5, <1>13, <2>2, <3>3, <4>1
    <3> QED
      BY <3>1, <3>3, <3>4, <3>5 DEF Reasons
  <2> QED
    BY <2>1, <2>2
<1>21. Owed'
  <2> SUFFICES ASSUME NEW p \in Parts, NEW s \in Parts, Eligible(p, s), First(p), ~(down[s][p] # 0)
               PROVE  \E x \in Todo' : Serves(x, p, s)
    BY <1>2, <1>6, <1>15 DEF Owed, Serves, First
  <2>1. PICK x \in Todo : Serves(x, p, s)
    BY DEF IInv, Owed
  <2> QED
    BY <1>7, <1>10, <2>1
<1>22. ASSUME ~overlapped' PROVE Lone' /\ Sequential'
  <2>1. Lone /\ Sequential
    BY <1>6, <1>22 DEF IInv, Alone
  <2>2. Lone' /\ Todo' = {Detach(q)}
    BY <1>7, <1>8, <2>1
  <2>3. Present' /\ Collecting'
    BY <1>9, <2>2 DEF Present, Collecting, Here, Right
  <2>4. Cleared'
    <3> SUFFICES ASSUME NEW p \in Parts, NEW s \in Parts, p # q, life[p] = "left", Live(s), down[s][p] # 0
                 PROVE  Drop(p, s) \in Todo' \/ Detach(p) \in Todo'
      BY <1>2, <1>7, <1>13, <1>14 DEF Cleared, Drop, Detach
    <3>1. Drop(p, s) \in Todo \/ Detach(p) \in Todo
      BY <2>1 DEF Sequential, Cleared
    <3> QED
      BY <1>7, <1>11, <3>1
  <2>5. Filled'
    <3> SUFFICES ASSUME NEW p \in Parts, InService(p)', Heard(fanout[p])' # Wanted(p)'
                 PROVE  \E x \in Todo' : Refills(x, p)
      BY DEF Filled, Refills
    <3>1. InService(p)
      BY <1>2, <1>14 DEF InService
    <3>2. Heard(fanout[p])' = Heard(fanout[p])
      BY <1>2, <1>14, <1>16, <1>17 DEF Heard
    <3>3. Wanted(p)' = Wanted(p)
      BY <1>2, <1>14, <1>15 DEF Wanted
    <3>4. PICK x \in Todo : Refills(x, p)
      BY <2>1, <3>1, <3>2, <3>3 DEF Sequential, Filled
    <3>5. x # h
      BY <1>4, <3>4 DEF Refills
    <3> QED
      BY <1>7, <3>4, <3>5
  <2> QED
    BY <2>2, <2>3, <2>4, <2>5 DEF Sequential
<1> QED
  BY <1>3, <1>18, <1>19, <1>20, <1>21, <1>22 DEF IInv, Alone

-----------------------------------------------------------------------------
(* Operations that begin                                                   *)

\* An operation opens with the steps of N: they serve who is to be served now
\* and was not before, and refill the fanouts that are no longer right.
Opens(t, N) ==
  /\ \A x \in N : Reasons(t, x)'
  /\ \A u \in Threads : u # t => \A x \in Left(u) : Reasons(u, x)'
  /\ \A p, s \in Parts : Eligible(p, s)' /\ First(p)' =>
       (Eligible(p, s) /\ First(p)) \/ \E x \in N : Serves(x, p, s)
  /\ \A x \in N : Here(x)' /\ x.op # "collect"
  /\ \A p, s \in Parts : life'[p] = "left" /\ Live(s)' => life[p] = "left" /\ Live(s)
  /\ \A p \in Parts : InService(p)' =>
       \/ \E x \in N : Refills(x, p)
       \/ InService(p) /\ (Heard(fanout[p]) = Wanted(p) => Heard(fanout[p])' = Wanted(p)')

LEMMA OpensKeeps ==
  ASSUME IInv, NEW t \in Threads, NEW N, Begins(t, N), Opens(t, N), Regular', Mapped', Joined', Gated',
         UNCHANGED down
  PROVE  IInv'
<1>1. /\ Todo' = Todo \cup N
      /\ \A u \in Threads : \A x \in Left(u)' : (u = t /\ x \in N) \/ (u # t /\ x \in Left(u))
      /\ ~overlapped' => /\ ~overlapped /\ Todo = {} /\ Todo' = N /\ Lone'
  BY TodoBegins DEF IInv
<1>2. Removals'
  <2> SUFFICES ASSUME NEW u \in Threads, NEW x \in Left(u)' PROVE Reasons(u, x)'
    BY DEF Removals
  <2> QED
    BY <1>1 DEF Opens
<1>3. Owed'
  <2> SUFFICES ASSUME NEW p \in Parts, NEW s \in Parts, Eligible(p, s)', First(p)', ~(down[s][p] # 0)
               PROVE  \E x \in Todo' : Serves(x, p, s)
    BY DEF Owed, Serves
  <2>1. CASE Eligible(p, s) /\ First(p)
    <3>1. PICK x \in Todo : Serves(x, p, s)
      BY <2>1 DEF IInv, Owed
    <3> QED
      BY <1>1, <3>1
  <2>2. CASE \E x \in N : Serves(x, p, s)
    BY <1>1, <2>2
  <2> QED
    BY <2>1, <2>2 DEF Opens
<1>4. ASSUME ~overlapped' PROVE Lone' /\ Sequential'
  <2>1. ~overlapped /\ Todo = {} /\ Todo' = N /\ Lone' /\ Sequential
    BY <1>1, <1>4 DEF IInv, Alone
  <2>2. Present' /\ Collecting'
    BY <2>1 DEF Opens, Present, Collecting, Right
  <2>3. Cleared'
    BY <2>1 DEF Opens, Cleared, Sequential
  <2>4. Filled'
    <3> SUFFICES ASSUME NEW p \in Parts, InService(p)', Heard(fanout[p])' # Wanted(p)'
                 PROVE  \E x \in Todo' : Refills(x, p)
      BY DEF Filled, Refills
    <3>1. InService(p) => Heard(fanout[p]) = Wanted(p)
      BY <2>1 DEF Sequential, Filled
    <3> QED
      BY <2>1, <3>1 DEF Opens
  <2> QED
    BY <2>1, <2>2, <2>3, <2>4 DEF Sequential
<1> QED
  BY <1>2, <1>3, <1>4 DEF IInv, Alone

\* What was taken down stays so.
LEMMA ReasonsStay ==
  ASSUME IInv, NEW u \in Threads, NEW x \in Left(u), overlapped => overlapped',
         \A p \in Parts : /\ life[p] # "out" => life'[p] # "out"
                          /\ life[p] \in {"closed", "left"} => life'[p] = life[p]
                          /\ u = Control /\ life[p] # "out" => caps'[p] = caps[p]
                          /\ u = <<"ended", p>> /\ tracks[p] >= 1 /\ (p \in publishing => ~First(p))
                               => tracks'[p] >= 1 /\ (p \in publishing' => ~First(p)')
  PROVE  Reasons(u, x)'
<1>1. Reasons(u, x)
  BY DEF IInv, Removals
<1>2. x \in Steps
  BY TodoSteps DEF IInv, Todo
<1>3. /\ x.op \in {"remove", "detach"} => x.pub \in Parts
      /\ x.op = "remove" => x.sub \in Parts
      /\ x.op \in {"trackEnded", "publishLost", "subscribeLost", "unlist"} => x.p \in Parts
  BY <1>2, StepKinds DEF PairOps, PubOps, TaskOps
<1>4. \A p \in Parts : (Silenced(u, p) => Silenced(u, p)') /\ (Deaf(u, p) => Deaf(u, p)')
  BY DEF Silenced, Deaf
<1>5. x.op = "unlist" => u = <<"close", x.p>> /\ life'[x.p] = "closed"
  BY <1>1, <1>3 DEF Reasons
<1> QED
  BY <1>1, <1>3, <1>4, <1>5 DEF Reasons

\* Where the members of the room stay what they are to the room.
LEMMA KnownStay ==
  ASSUME IInv, \A p \in Parts : life[p] # "out" => life'[p] # "out"
  PROVE  /\ \A dt \in bound : dt[2] # dt[1] /\ life'[dt[2]] # "out"
         /\ \A p \in Parts : \A dt \in fanout[p] :
              dt[1] = p /\ dt[2] \in Parts \ {p} /\ life[dt[2]] # "out" /\ life'[dt[2]] # "out"
         /\ \A x \in Todo : Known(x)'
<1>1. bound \subseteq Dts /\ \A p \in Parts : fanout[p] \subseteq Dts
  BY DEF IInv, Regular, Types
<1>2. \A dt \in Dts : dt[2] \in Parts
  BY DEF Dts
<1>3. \A dt \in bound : dt[2] # dt[1] /\ life'[dt[2]] # "out"
  BY <1>1, <1>2 DEF IInv, Mapped
<1>4. \A p \in Parts : \A dt \in fanout[p] :
        dt[1] = p /\ dt[2] \in Parts \ {p} /\ life[dt[2]] # "out" /\ life'[dt[2]] # "out"
  BY <1>1, <1>2 DEF IInv, Mapped
<1>5. ASSUME NEW x \in Todo PROVE Known(x)'
  <2>1. Known(x) /\ x \in Steps
    BY TodoSteps DEF IInv, Mapped
  <2>2. x.op = "collect" => x.list \subseteq Dts
    BY <2>1, StepKinds
  <2> QED
    BY <1>2, <2>1, <2>2 DEF Known
<1> QED
  BY <1>3, <1>4, <1>5

LEMMA ConnectedKeeps ==
  ASSUME IInv, NEW q \in Parts, Connected(q)
  PROVE  IInv'
<1> DEFINE t == <<"connect", q>>
           N == {Task("attachPubs", q)}
<1>1. life[q] = "in" /\ life' = [life EXCEPT ![q] = "connected"]
  BY DEF Connected
<1>2. /\ caps' = caps /\ publishing' = publishing /\ tracks' = tracks /\ down' = down /\ bound' = bound
      /\ unsub' = unsub /\ fanout' = fanout /\ pkt' = pkt /\ held' = held
  BY DEF Connected, pktVars
<1>3. t \in Threads /\ Begins(t, N) /\ Regular'
  BY ConnectedBegins, ThreadFacts, BeginsRegular DEF IInv
<1>4. /\ Task("attachPubs", q) \in Steps /\ Task("attachPubs", q).op = "attachPubs"
      /\ Task("attachPubs", q).p = q
  BY StepFacts DEF TaskOps
<1>5. life \in [Parts -> {"out", "in", "connected", "closed", "left"}]
  BY DEF IInv, Regular, Types
<1>6. \A p \in Parts : life'[p] = IF p = q THEN "connected" ELSE life[p]
  BY <1>1, <1>5
<1>7. \A p \in Parts : (Live(p)' <=> Live(p)) /\ (life[p] # "out" => life'[p] # "out")
                       /\ (life'[p] = "left" <=> life[p] = "left")
  BY <1>1, <1>6 DEF Live
<1>8. \A p, s \in Parts : ShouldForward(p, s)' <=> ShouldForward(p, s)
  BY <1>2 DEF ShouldForward
<1>9. /\ Todo' = Todo \cup N /\ (overlapped => overlapped')
  BY <1>3, TodoBegins DEF IInv
<1> HIDE DEF t
<1>10. Mapped'
  <2>1. \A s, p \in Parts : down'[s][p] # 0 => /\ s # p /\ life'[s] # "out"
                                               /\ Live(s)' => <<p, s, down'[s][p]>> \in bound'
    BY <1>2, <1>7 DEF IInv, Mapped
  <2>2. /\ \A dt \in bound : dt[2] # dt[1] /\ life'[dt[2]] # "out"
        /\ \A p \in Parts : \A dt \in fanout[p] :
             dt[1] = p /\ dt[2] \in Parts \ {p} /\ life[dt[2]] # "out" /\ life'[dt[2]] # "out"
        /\ \A x \in Todo : Known(x)'
    BY <1>7, KnownStay
  <2>3. Known(Task("attachPubs", q))'
    BY <1>4 DEF Known
  <2>4. \A x \in Todo' : Known(x)'
    BY <1>9, <2>2, <2>3
  <2> QED
    BY <1>2, <2>1, <2>2, <2>4 DEF Mapped
<1>11. Joined' /\ Gated'
  BY <1>2, <1>7 DEF IInv, Joined, Gated
<1>12. Opens(t, N)
  <2>1. \A x \in N : Reasons(t, x)' /\ Here(x)' /\ x.op # "collect"
    BY <1>4 DEF Reasons, Here
  <2>2. ASSUME NEW u \in Threads, NEW x \in Left(u) PROVE Reasons(u, x)'
    BY <1>1, <1>2, <1>6, <1>7, <1>9, ReasonsStay DEF First
  <2>3. ASSUME NEW p \in Parts, NEW s \in Parts, Eligible(p, s)', First(p)'
        PROVE  (Eligible(p, s) /\ First(p)) \/ \E x \in N : Serves(x, p, s)
    <3>1. CASE s = q
      BY <3>1 DEF Serves
    <3>2. CASE s # q
      BY <1>2, <1>6, <1>7, <1>8, <1>9, <2>3, <3>2 DEF Eligible, First
    <3> QED
      BY <3>1, <3>2
  <2>4. ASSUME NEW p \in Parts, InService(p)'
        PROVE  InService(p) /\ (Heard(fanout[p]) = Wanted(p) => Heard(fanout[p])' = Wanted(p)')
    <3>1. InService(p)
      BY <1>2, <1>7, <2>4 DEF InService
    <3>2. \A dt \in fanout[p] : dt[2] \in Parts
      BY <1>7, KnownStay
    <3>3. Heard(fanout[p])' = Heard(fanout[p])
      BY <1>2, <1>7, <3>2 DEF Heard
    <3>4. Wanted(p)' = Wanted(p)
      BY <1>2, <1>7, <1>8 DEF Wanted
    <3> QED
      BY <3>1, <3>3, <3>4
  <2> HIDE DEF N
  <2> QED
    BY <1>7, <2>1, <2>2, <2>3, <2>4 DEF Opens
<1> HIDE DEF N
<1> QED
  BY <1>2, <1>3, <1>10, <1>11, <1>12, OpensKeeps

LEMMA OnAudioTrackKeeps ==
  ASSUME IInv, NEW q \in Parts, OnAudioTrack(q)
  PROVE  IInv'
<1> DEFINE t == <<"track", q>>
           N == {Announce(q)}
<1>1. life[q] = "connected" /\ publishing' = publishing \cup {q} /\ tracks' = [tracks EXCEPT ![q] = @ + 1]
  BY DEF OnAudioTrack
<1>2. /\ life' = life /\ caps' = caps /\ down' = down /\ bound' = bound
      /\ unsub' = unsub /\ fanout' = fanout /\ pkt' = pkt /\ held' = held
  BY DEF OnAudioTrack, pktVars
<1>3. t \in Threads /\ Begins(t, N) /\ Regular'
  BY OnAudioTrackBegins, ThreadFacts, BeginsRegular DEF IInv
<1>4. Announce(q) \in Steps /\ Announce(q).op = "announce" /\ Announce(q).pub = q
  BY StepFacts
<1>5. tracks \in [Parts -> Nat]
  BY BoundAssumption DEF IInv, Regular, Types
<1>6. tracks'[q] = tracks[q] + 1 /\ \A p \in Parts : p # q => tracks'[p] = tracks[p]
  BY <1>1, <1>5
<1>7. \A p \in Parts : (Live(p)' <=> Live(p)) /\ (life[p] # "out" => life'[p] # "out")
                       /\ (life'[p] = "left" <=> life[p] = "left")
  BY <1>2 DEF Live
<1>8. \A p, s \in Parts : ShouldForward(p, s)' <=> ShouldForward(p, s)
  BY <1>2 DEF ShouldForward
<1>9. /\ Todo' = Todo \cup N /\ (overlapped => overlapped')
      /\ \A u \in Threads : Left(u) # {} => overlapped'
  BY <1>3, TodoBegins DEF IInv
<1> HIDE DEF t
<1>10. Mapped'
  <2>1. \A s, p \in Parts : down'[s][p] # 0 => /\ s # p /\ life'[s] # "out"
                                               /\ Live(s)' => <<p, s, down'[s][p]>> \in bound'
    BY <1>2, <1>7 DEF IInv, Mapped
  <2>2. /\ \A dt \in bound : dt[2] # dt[1] /\ life'[dt[2]] # "out"
        /\ \A p \in Parts : \A dt \in fanout[p] :
             dt[1] = p /\ dt[2] \in Parts \ {p} /\ life[dt[2]] # "out" /\ life'[dt[2]] # "out"
        /\ \A x \in Todo : Known(x)'
    BY <1>7, KnownStay
  <2>3. Known(Announce(q))'
    BY <1>4 DEF Known
  <2>4. \A x \in Todo' : Known(x)'
    BY <1>9, <2>2, <2>3
  <2> QED
    BY <1>2, <2>1, <2>2, <2>4 DEF Mapped
<1>11. Joined' /\ Gated'
  BY <1>1, <1>2, <1>5, <1>6 DEF IInv, Joined, Gated
<1>12. Opens(t, N)
  <2>1. \A x \in N : Reasons(t, x)' /\ Here(x)' /\ x.op # "collect"
    BY <1>1, <1>2, <1>4 DEF Reasons, Here, Listed
  <2>2. ASSUME NEW u \in Threads, NEW x \in Left(u) PROVE Reasons(u, x)'
    <3>1. overlapped'
      BY <1>9, <2>2
    <3>2. ASSUME NEW p \in Parts, tracks[p] >= 1, p \in publishing => ~First(p)
          PROVE  tracks'[p] >= 1 /\ (p \in publishing' => ~First(p)')
      <4>1. CASE p = q
        BY <1>5, <1>6, <3>1, <3>2, <4>1 DEF First
      <4>2. CASE p # q
        BY <1>1, <1>6, <3>1, <3>2, <4>2 DEF First
      <4> QED
        BY <4>1, <4>2
    <3> QED
      BY <1>2, <3>1, <3>2, ReasonsStay
  <2>3. ASSUME NEW p \in Parts, NEW s \in Parts, Eligible(p, s)', First(p)'
        PROVE  (Eligible(p, s) /\ First(p)) \/ \E x \in N : Serves(x, p, s)
    <3>1. CASE p = q
      BY <3>1 DEF Serves
    <3>2. CASE p # q
      BY <1>1, <1>2, <1>6, <1>7, <1>8, <1>9, <2>3, <3>2 DEF Eligible, First
    <3> QED
      BY <3>1, <3>2
  <2>4. ASSUME NEW p \in Parts, InService(p)'
        PROVE  \/ \E x \in N : Refills(x, p)
               \/ InService(p) /\ (Heard(fanout[p]) = Wanted(p) => Heard(fanout[p])' = Wanted(p)')
    <3>1. CASE p = q
      BY <1>4, <3>1 DEF Refills
    <3>2. CASE p # q
      <4>1. InService(p)
        BY <1>1, <1>2, <1>7, <2>4, <3>2 DEF InService
      <4>2. \A dt \in fanout[p] : dt[2] \in Parts
        BY <1>7, KnownStay
      <4>3. Heard(fanout[p])' = Heard(fanout[p])
        BY <1>2, <1>7, <4>2 DEF Heard
      <4>4. Wanted(p)' = Wanted(p)
        BY <1>2, <1>7, <1>8 DEF Wanted
      <4> QED
        BY <4>1, <4>3, <4>4
    <3> QED
      BY <3>1, <3>2
  <2> HIDE DEF N
  <2> QED
    BY <1>7, <2>1, <2>2, <2>3, <2>4 DEF Opens
<1> HIDE DEF N
<1> QED
  BY <1>2, <1>3, <1>10, <1>11, <1>12, OpensKeeps

LEMMA CloseKeeps ==
  ASSUME IInv, NEW q \in Parts, Close(q)
  PROVE  IInv'
<1> DEFINE t == <<"close", q>>
           N == {Task("unlist", q)}
<1>1. Live(q) /\ life' = [life EXCEPT ![q] = "closed"] /\ bound' = {dt \in bound : dt[2] # q}
  BY DEF Close
<1>2. /\ caps' = caps /\ publishing' = publishing /\ tracks' = tracks /\ down' = down
      /\ unsub' = unsub /\ fanout' = fanout /\ pkt' = pkt /\ held' = held
  BY DEF Close, pktVars
<1>3. t \in Threads /\ Begins(t, N) /\ Regular'
  BY CloseBegins, ThreadFacts, BeginsRegular DEF IInv
<1>4. Task("unlist", q) \in Steps /\ Task("unlist", q).op = "unlist" /\ Task("unlist", q).p = q
  BY StepFacts DEF TaskOps
<1>5. life \in [Parts -> {"out", "in", "connected", "closed", "left"}]
  BY DEF IInv, Regular, Types
<1>6. \A p \in Parts : life'[p] = IF p = q THEN "closed" ELSE life[p]
  BY <1>1, <1>5
<1>7. \A p \in Parts : (Live(p)' <=> Live(p) /\ p # q) /\ (life[p] # "out" => life'[p] # "out")
                       /\ (life'[p] = "left" <=> life[p] = "left")
                       /\ (life[p] \in {"closed", "left"} => life'[p] = life[p])
  BY <1>1, <1>6 DEF Live
<1>8. \A p, s \in Parts : ShouldForward(p, s)' <=> ShouldForward(p, s)
  BY <1>2 DEF ShouldForward
<1>9. /\ Todo' = Todo \cup N /\ (overlapped => overlapped')
  BY <1>3, TodoBegins DEF IInv
<1>10. Mapped'
  <2>1. ASSUME NEW s \in Parts, NEW p \in Parts, down'[s][p] # 0
        PROVE  s # p /\ life'[s] # "out" /\ (Live(s)' => <<p, s, down'[s][p]>> \in bound')
    <3>1. s # p /\ life[s] # "out" /\ (Live(s) => <<p, s, down[s][p]>> \in bound)
      BY <1>2, <2>1 DEF IInv, Mapped
    <3>2. <<p, s, down[s][p]>>[2] = s
      OBVIOUS
    <3> QED
      BY <1>1, <1>2, <1>7, <3>1, <3>2
  <2>2. /\ \A dt \in bound : dt[2] # dt[1] /\ life'[dt[2]] # "out"
        /\ \A p \in Parts : \A dt \in fanout[p] :
             dt[1] = p /\ dt[2] \in Parts \ {p} /\ life[dt[2]] # "out" /\ life'[dt[2]] # "out"
        /\ \A x \in Todo : Known(x)'
    BY <1>7, KnownStay
  <2>3. Known(Task("unlist", q))'
    BY <1>4 DEF Known
  <2>4. \A x \in Todo' : Known(x)'
    BY <1>9, <2>2, <2>3
  <2> QED
    BY <1>1, <1>2, <2>1, <2>2, <2>4 DEF Mapped
<1>11. Joined' /\ Gated'
  BY <1>2, <1>7 DEF IInv, Joined, Gated
<1>12. Opens(t, N)
  <2>1. \A x \in N : Reasons(t, x)' /\ Here(x)' /\ x.op # "collect"
    BY <1>4, <1>6 DEF Reasons, Here
  <2>2. ASSUME NEW u \in Threads, NEW x \in Left(u) PROVE Reasons(u, x)'
    BY <1>2, <1>7, <1>9, ReasonsStay DEF First
  <2>3. ASSUME NEW p \in Parts, NEW s \in Parts, Eligible(p, s)', First(p)'
        PROVE  Eligible(p, s) /\ First(p)
    BY <1>2, <1>6, <1>7, <1>8, <1>9, <2>3 DEF Eligible, First
  <2>4. ASSUME NEW p \in Parts, InService(p)'
        PROVE  InService(p) /\ (Heard(fanout[p]) = Wanted(p) => Heard(fanout[p])' = Wanted(p)')
    <3>1. InService(p)
      BY <1>2, <1>7, <2>4 DEF InService
    <3>2. \A dt \in fanout[p] : dt[2] \in Parts
      BY <1>7, KnownStay
    <3>3. Heard(fanout[p])' = {dt \in Heard(fanout[p]) : dt[2] # q}
      BY <1>2, <1>7, <3>2 DEF Heard
    <3>4. Wanted(p)' = {dt \in Wanted(p) : dt[2] # q}
      BY <1>2, <1>7, <1>8 DEF Wanted
    <3> QED
      BY <3>1, <3>3, <3>4
  <2> HIDE DEF N
  <2> QED
    BY <1>7, <2>1, <2>2, <2>3, <2>4 DEF Opens
<1> HIDE DEF N, t
<1> QED
  BY <1>2, <1>3, <1>10, <1>11, <1>12, OpensKeeps

LEMMA SetSubscriptionKeeps ==
  ASSUME IInv, NEW r \in Parts, NEW q \in Parts, NEW want \in BOOLEAN, SetSubscription(r, q, want)
  PROVE  IInv'
<1> DEFINE t == <<"loop", r>>
           N == {Apply(q, r, want)}
<1>1. unsub' = [unsub EXCEPT ![r] = IF want THEN @ \ {q} ELSE @ \cup {q}]
  BY DEF SetSubscription
<1>2. /\ life' = life /\ caps' = caps /\ publishing' = publishing /\ tracks' = tracks /\ down' = down
      /\ bound' = bound /\ fanout' = fanout /\ pkt' = pkt /\ held' = held
  BY DEF SetSubscription, pktVars
<1>3. t \in Threads /\ Begins(t, N) /\ Regular'
  BY SetSubscriptionBegins, ThreadFacts, BeginsRegular DEF IInv
<1>4. Apply(q, r, want).op = "apply" /\ Apply(q, r, want).pub = q
  BY StepFacts
<1>5. unsub \in [Parts -> SUBSET Parts]
  BY DEF IInv, Regular, Types
<1>6. /\ \A p, s \in Parts : ~(p = q /\ s = r) => (p \in unsub'[s] <=> p \in unsub[s])
      /\ q \in unsub'[r] <=> ~want
  BY <1>1, <1>5
<1>7. \A p \in Parts : (Live(p)' <=> Live(p)) /\ (life[p] # "out" => life'[p] # "out")
  BY <1>2 DEF Live
<1>8. \A p, s \in Parts : ~(p = q /\ s = r) => (ShouldForward(p, s)' <=> ShouldForward(p, s))
  BY <1>2, <1>6 DEF ShouldForward
<1>9. /\ Todo' = Todo \cup N /\ (overlapped => overlapped')
  BY <1>3, TodoBegins DEF IInv
<1> HIDE DEF t
<1>10. Mapped'
  <2>1. \A s, p \in Parts : down'[s][p] # 0 => /\ s # p /\ life'[s] # "out"
                                               /\ Live(s)' => <<p, s, down'[s][p]>> \in bound'
    BY <1>2, <1>7 DEF IInv, Mapped
  <2>2. /\ \A dt \in bound : dt[2] # dt[1] /\ life'[dt[2]] # "out"
        /\ \A p \in Parts : \A dt \in fanout[p] :
             dt[1] = p /\ dt[2] \in Parts \ {p} /\ life[dt[2]] # "out" /\ life'[dt[2]] # "out"
        /\ \A x \in Todo : Known(x)'
    BY <1>7, KnownStay
  <2>3. Known(Apply(q, r, want))'
    BY <1>4 DEF Known
  <2>4. \A x \in Todo' : Known(x)'
    BY <1>9, <2>2, <2>3
  <2> QED
    BY <1>2, <2>1, <2>2, <2>4 DEF Mapped
<1>11. Joined' /\ Gated'
  BY <1>2 DEF IInv, Joined, Gated
<1>12. Opens(t, N)
  <2>1. \A x \in N : Reasons(t, x)' /\ Here(x)' /\ x.op # "collect"
    BY <1>4 DEF Reasons, Here
  <2>2. ASSUME NEW u \in Threads, NEW x \in Left(u) PROVE Reasons(u, x)'
    BY <1>2, <1>9, ReasonsStay DEF First
  <2>3. ASSUME NEW p \in Parts, NEW s \in Parts, Eligible(p, s)', First(p)'
        PROVE  (Eligible(p, s) /\ First(p)) \/ \E x \in N : Serves(x, p, s)
    <3>1. CASE p = q /\ s = r
      <4>1. want
        BY <1>6, <2>3, <3>1 DEF Eligible, ShouldForward
      <4>2. want = TRUE
        BY <4>1
      <4> QED
        BY <3>1, <4>2 DEF Serves, Apply
    <3>2. CASE ~(p = q /\ s = r)
      BY <1>2, <1>7, <1>8, <1>9, <2>3, <3>2 DEF Eligible, First
    <3> QED
      BY <3>1, <3>2
  <2>4. ASSUME NEW p \in Parts, InService(p)'
        PROVE  \/ \E x \in N : Refills(x, p)
               \/ InService(p) /\ (Heard(fanout[p]) = Wanted(p) => Heard(fanout[p])' = Wanted(p)')
    <3>1. CASE p = q
      BY <1>4, <3>1 DEF Refills
    <3>2. CASE p # q
      <4>1. InService(p)
        BY <1>2, <1>7, <2>4 DEF InService
      <4>2. \A dt \in fanout[p] : dt[2] \in Parts
        BY <1>7, KnownStay
      <4>3. Heard(fanout[p])' = Heard(fanout[p])
        BY <1>2, <1>7, <4>2 DEF Heard
      <4>4. Wanted(p)' = Wanted(p)
        BY <1>2, <1>7, <1>8, <3>2 DEF Wanted
      <4> QED
        BY <4>1, <4>3, <4>4
    <3> QED
      BY <3>1, <3>2
  <2> HIDE DEF N
  <2> QED
    BY <1>2, <1>7, <2>1, <2>2, <2>3, <2>4 DEF Opens
<1> HIDE DEF N
<1> QED
  BY <1>2, <1>3, <1>10, <1>11, <1>12, OpensKeeps

LEMMA ApplyCapsKeeps ==
  ASSUME IInv, NEW q \in Parts, NEW new \in SUBSET Caps, ApplyCaps(q, new)
  PROVE  IInv'
<1>0. PICK N : N = CapsTasks(q, new)
  OBVIOUS
<1>1. q \in Listed /\ caps' = [caps EXCEPT ![q] = new] /\ held' = [held EXCEPT ![q] = @ \/ "publish" \in new]
  BY DEF ApplyCaps
<1>2. /\ life' = life /\ publishing' = publishing /\ tracks' = tracks /\ down' = down
      /\ bound' = bound /\ unsub' = unsub /\ fanout' = fanout /\ pkt' = pkt
  BY DEF ApplyCaps
<1>3. Control \in Threads /\ Begins(Control, N) /\ Regular'
  BY <1>0, ApplyCapsBegins, ThreadFacts, BeginsRegular DEF IInv
<1>4. \A op \in TaskOps : Task(op, q).op = op /\ Task(op, q).p = q
  BY StepFacts
<1>5. {"publishLost", "publishGained", "subscribeLost", "attachPubs", "rebuildAll"} \subseteq TaskOps
  BY DEF TaskOps
<1>6. /\ caps \in [Parts -> SUBSET Caps] /\ held \in [Parts -> BOOLEAN]
      /\ life \in [Parts -> {"out", "in", "connected", "closed", "left"}]
  BY DEF IInv, Regular, Types
<1>7. caps'[q] = new /\ \A p \in Parts : p # q => caps'[p] = caps[p]
  BY <1>1, <1>6
<1>8. (held'[q] <=> held[q] \/ "publish" \in new) /\ \A p \in Parts : p # q => held'[p] = held[p]
  BY <1>1, <1>6
<1>9. \A p \in Parts : (Live(p)' <=> Live(p)) /\ (life[p] # "out" => life'[p] # "out")
  BY <1>2 DEF Live
<1>10. Todo' = Todo \cup N /\ (overlapped => overlapped')
  BY <1>3, TodoBegins DEF IInv
<1>11. /\ \A x \in N : \E op \in {"publishLost", "publishGained", "subscribeLost", "attachPubs", "rebuildAll"} :
            x.op = op /\ x.p = q
       /\ \A x \in N : x.op = "publishLost" => "publish" \notin new
       /\ \A x \in N : x.op = "subscribeLost" => "subscribe" \notin new
       /\ "publish" \in new \ caps[q] => Task("publishGained", q) \in N
       /\ "subscribe" \in new \ caps[q] => Task("attachPubs", q) \in N
       /\ Task("rebuildAll", q) \in N
  BY <1>0, <1>4, <1>5 DEF CapsTasks
<1>12. Mapped'
  <2>1. \A s, p \in Parts : down'[s][p] # 0 => /\ s # p /\ life'[s] # "out"
                                               /\ Live(s)' => <<p, s, down'[s][p]>> \in bound'
    BY <1>2, <1>9 DEF IInv, Mapped
  <2>2. /\ \A dt \in bound : dt[2] # dt[1] /\ life'[dt[2]] # "out"
        /\ \A p \in Parts : \A dt \in fanout[p] :
             dt[1] = p /\ dt[2] \in Parts \ {p} /\ life[dt[2]] # "out" /\ life'[dt[2]] # "out"
        /\ \A x \in Todo : Known(x)'
    BY <1>9, KnownStay
  <2>3. \A x \in N : Known(x)'
    BY <1>11 DEF Known
  <2>4. \A x \in Todo' : Known(x)'
    BY <1>10, <2>2, <2>3
  <2> QED
    BY <1>2, <2>1, <2>2, <2>4 DEF Mapped
<1>13. Joined' /\ Gated'
  <2>1. Joined'
    BY <1>2 DEF IInv, Joined
  <2>2. ASSUME NEW p \in Parts
        PROVE  /\ pkt'[p] = "passed" => held'[p]
               /\ pkt'[p] = "read" /\ "publish" \in caps'[p] => held'[p]
    <3>1. CASE p = q
      BY <1>2, <1>7, <1>8, <3>1 DEF IInv, Gated
    <3>2. CASE p # q
      BY <1>2, <1>7, <1>8, <3>2 DEF IInv, Gated
    <3> QED
      BY <3>1, <3>2
  <2> QED
    BY <2>1, <2>2 DEF Gated
<1>14. Opens(Control, N)
  <2>1. ASSUME NEW x \in N PROVE Reasons(Control, x)' /\ Here(x)' /\ x.op # "collect"
    <3>1. life'[q] # "out" /\ q \in Listed'
      BY <1>1, <1>2 DEF Listed
    <3> QED
      BY <1>7, <1>11, <3>1 DEF Reasons, Here, Silenced, Deaf
  <2>2. ASSUME NEW u \in Threads, u # Control, NEW x \in Left(u) PROVE Reasons(u, x)'
    BY <1>2, <1>10, <2>2, ReasonsStay DEF First
  <2>3. ASSUME NEW p \in Parts, NEW s \in Parts, Eligible(p, s)', First(p)'
        PROVE  (Eligible(p, s) /\ First(p)) \/ \E x \in N : Serves(x, p, s)
    <3>1. First(p)
      BY <1>2, <1>10, <2>3 DEF First
    <3>2. /\ p # s /\ Live(p) /\ life[s] = "connected" /\ p \in publishing /\ p \notin unsub[s]
          /\ "publish" \in caps'[p] /\ "subscribe" \in caps'[s]
      BY <1>2, <1>9, <2>3 DEF Eligible, ShouldForward
    <3>3. CASE "publish" \in caps[p] /\ "subscribe" \in caps[s]
      BY <3>1, <3>2, <3>3 DEF Eligible, ShouldForward
    <3>4. CASE "publish" \notin caps[p]
      <4>1. p = q /\ "publish" \in new \ caps[q]
        BY <1>7, <3>2, <3>4
      <4> QED
        BY <1>11, <4>1 DEF Serves
    <3>5. CASE "subscribe" \notin caps[s]
      <4>1. s = q /\ "subscribe" \in new \ caps[q]
        BY <1>7, <3>2, <3>5
      <4> QED
        BY <1>11, <4>1 DEF Serves
    <3> QED
      BY <3>3, <3>4, <3>5
  <2>4. \A p \in Parts : \E x \in N : Refills(x, p)
    BY <1>4, <1>5, <1>11 DEF Refills
  <2> QED
    BY <1>2, <1>9, <2>1, <2>2, <2>3, <2>4 DEF Opens
<1> QED
  BY <1>2, <1>3, <1>12, <1>13, <1>14, OpensKeeps

\* The goroutine that takes the track down has been started.
LEMMA TrackEndsKeeps ==
  ASSUME IInv, NEW q \in Parts, TrackEnds(q)
  PROVE  IInv'
<1>1. q \in publishing /\ pkt[q] = "none" /\ publishing' = publishing \ {q}
  BY DEF TrackEnds, Forwarding
<1>2. /\ life' = life /\ caps' = caps /\ tracks' = tracks /\ down' = down /\ bound' = bound
      /\ unsub' = unsub /\ fanout' = fanout /\ pkt' = pkt /\ held' = held
  BY DEF TrackEnds, pktVars
<1>3. Regular'
  BY BeginsRegular DEF IInv
<1>4. \A p : Live(p)' <=> Live(p)
  BY <1>2 DEF Live
<1>5. \A p, s : (ShouldForward(p, s)' <=> ShouldForward(p, s)) /\ (Eligible(p, s)' => Eligible(p, s))
  BY <1>1, <1>2, <1>4 DEF ShouldForward, Eligible
<1>6. /\ \A p : InService(p)' => InService(p)
      /\ \A p \in Parts : Wanted(p)' = Wanted(p)
      /\ \A S : Heard(S)' = Heard(S)
  BY <1>1, <1>2, <1>4, <1>5 DEF InService, Wanted, Heard
<1>7. \A p \in Parts : Heard(fanout[p])' = Heard(fanout[p])
  BY <1>2, <1>4 DEF Heard
<1>8. Joined' /\ Gated'
  BY <1>1, <1>2 DEF IInv, Joined, Gated
<1>9. /\ \A s, p \in Parts : down'[s][p] # 0 => /\ s # p /\ life'[s] # "out"
                                                /\ Live(s)' => <<p, s, down'[s][p]>> \in bound'
      /\ \A dt \in bound' : dt[2] # dt[1] /\ life'[dt[2]] # "out"
      /\ \A p \in Parts : \A dt \in fanout'[p] : dt[1] = p /\ dt[2] # p /\ life'[dt[2]] # "out"
      /\ \A x \in Todo : Known(x)'
  BY <1>2, <1>4 DEF IInv, Mapped, Known
<1> DEFINE t == <<"ended", q>>
           N == {Task("trackEnded", q)}
<1>10. t \in Threads /\ Begins(t, N)
  BY TrackEndsBegins, ThreadFacts DEF IInv
<1>11. Task("trackEnded", q).op = "trackEnded" /\ Task("trackEnded", q).p = q
  BY StepFacts DEF TaskOps
<1>12. Todo' = Todo \cup N /\ (overlapped => overlapped')
  BY <1>10, TodoBegins DEF IInv
<1>13. Mapped'
  <2>1. Known(Task("trackEnded", q))'
    BY <1>11 DEF Known
  <2> QED
    BY <1>9, <1>12, <2>1 DEF Mapped
<1>14. Opens(t, N)
  <2>1. Silenced(t, q)'
    BY <1>1, <1>2 DEF IInv, Joined, Silenced
  <2>2. \A x \in N : Reasons(t, x)' /\ Here(x)' /\ x.op # "collect"
    BY <1>11, <2>1 DEF Reasons, Here
  <2>3. ASSUME NEW u \in Threads, NEW x \in Left(u) PROVE Reasons(u, x)'
    BY <1>1, <1>2, <1>12, ReasonsStay DEF First
  <2>4. \A p, s \in Parts : Eligible(p, s)' /\ First(p)' => Eligible(p, s) /\ First(p)
    BY <1>2, <1>5, <1>12 DEF First
  <2> HIDE DEF N, t
  <2> QED
    BY <1>2, <1>4, <1>6, <1>7, <2>2, <2>3, <2>4 DEF Opens
<1> HIDE DEF N, t
<1> QED
  BY <1>2, <1>3, <1>8, <1>10, <1>13, <1>14, OpensKeeps

LEMMA JoinKeeps ==
  ASSUME IInv, NEW q \in Parts, NEW c \in SUBSET Caps, Join(q, c)
  PROVE  IInv'
<1>1. life[q] = "out" /\ life' = [life EXCEPT ![q] = "in"] /\ caps' = [caps EXCEPT ![q] = c]
  BY DEF Join
<1>2. /\ publishing' = publishing /\ tracks' = tracks /\ down' = down /\ bound' = bound /\ unsub' = unsub
      /\ fanout' = fanout /\ job' = job /\ overlapped' = overlapped /\ pkt' = pkt /\ held' = held
  BY DEF Join, pktVars
<1>3. Regular'
  BY BeginsRegular DEF IInv
<1>4. /\ life \in [Parts -> {"out", "in", "connected", "closed", "left"}]
      /\ caps \in [Parts -> SUBSET Caps]
  BY DEF IInv, Regular, Types
<1>5. \A p \in Parts : p # q => life'[p] = life[p] /\ caps'[p] = caps[p]
  BY <1>1, <1>4
<1>6. life'[q] = "in"
  BY <1>1, <1>4
<1>7. /\ \A p \in Parts : life[p] # "out" => p # q
      /\ \A p \in Parts : life[p] # "out" => life'[p] # "out"
      /\ \A p \in Parts : p # q => (Live(p)' <=> Live(p))
      /\ ~Live(q)
  BY <1>1, <1>5 DEF Live
<1>8. \A p \in Parts : down[q][p] = 0
  BY <1>1 DEF IInv, Mapped
<1>9. q \notin publishing /\ pkt[q] = "none"
  BY <1>1 DEF IInv, Joined
<1>10. (\A u \in Threads : Left(u)' = Left(u)) /\ Todo' = Todo /\ (Lone' <=> Lone)
  BY <1>2 DEF Left, Todo, Lone, Active
<1>11. /\ \A dt \in bound : dt[2] # dt[1] /\ life'[dt[2]] # "out"
       /\ \A p \in Parts : \A dt \in fanout[p] :
            dt[1] = p /\ dt[2] \in Parts \ {p} /\ life[dt[2]] # "out" /\ life'[dt[2]] # "out"
       /\ \A x \in Todo : Known(x)'
  BY <1>7, KnownStay
<1>12. Mapped'
  <2>1. ASSUME NEW s \in Parts, NEW p \in Parts, down'[s][p] # 0
        PROVE  s # p /\ life'[s] # "out" /\ (Live(s)' => <<p, s, down'[s][p]>> \in bound')
    <3>1. s # p /\ life[s] # "out" /\ (Live(s) => <<p, s, down[s][p]>> \in bound)
      BY <1>2, <2>1 DEF IInv, Mapped
    <3> QED
      BY <1>2, <1>7, <3>1
  <2> QED
    BY <1>2, <1>10, <1>11, <2>1 DEF Mapped
<1>13. Joined' /\ Gated'
  <2>1. Joined'
    BY <1>2, <1>7 DEF IInv, Joined
  <2>2. Gated'
    BY <1>2, <1>5, <1>9 DEF IInv, Gated
  <2> QED
    BY <2>1, <2>2
<1>14. Removals'
  <2> SUFFICES ASSUME NEW u \in Threads, NEW x \in Left(u) PROVE Reasons(u, x)'
    BY <1>10 DEF Removals
  <2> QED
    BY <1>1, <1>2, <1>5, <1>7, ReasonsStay DEF First
<1>15. \A p, s \in Parts : Eligible(p, s)' => Eligible(p, s)
  <2> SUFFICES ASSUME NEW p \in Parts, NEW s \in Parts, Eligible(p, s)' PROVE Eligible(p, s)
    OBVIOUS
  <2>1. p # q /\ s # q
    BY <1>2, <1>6, <1>9 DEF Eligible
  <2> QED
    BY <1>2, <1>5, <1>7, <2>1 DEF Eligible, ShouldForward
<1>16. Owed'
  BY <1>2, <1>10, <1>15 DEF IInv, Owed, First, Serves
<1>17. ASSUME ~overlapped' PROVE Lone' /\ Sequential'
  <2>1. Lone /\ Present /\ Cleared /\ Filled /\ Collecting
    BY <1>2, <1>17 DEF IInv, Alone, Sequential
  <2>2. Listed \subseteq Listed' /\ q \notin Listed
    BY <1>1, <1>5 DEF Listed
  <2>3. Present'
    BY <1>10, <2>1, <2>2 DEF Present, Here
  <2>4. Cleared'
    <3> SUFFICES ASSUME NEW p \in Parts, NEW s \in Parts, life'[p] = "left", Live(s)', down[s][p] # 0
                 PROVE  Drop(p, s) \in Todo \/ Detach(p) \in Todo
      BY <1>2, <1>10 DEF Cleared, Drop, Detach
    <3>1. p # q /\ s # q
      BY <1>6, <1>8
    <3> QED
      BY <1>5, <1>7, <2>1, <3>1 DEF Cleared
  <2>5. ASSUME NEW p \in Parts, p # q PROVE Wanted(p)' = Wanted(p)
    <3>1. \A s \in Parts : s # q => (ShouldForward(p, s)' <=> ShouldForward(p, s))
      BY <1>2, <1>5, <2>5 DEF ShouldForward
    <3> DEFINE W == {s \in Parts \ {p} : down[s][p] # 0 /\ Live(s) /\ ShouldForward(p, s)}
    <3>2. W' = W
      BY <1>2, <1>7, <1>8, <3>1
    <3> HIDE DEF W
    <3>3. Wanted(p) = {<<p, s, down[s][p]>> : s \in W} /\ Wanted(p)' = {<<p, s, down'[s][p]>> : s \in W'}
      BY DEF Wanted, W
    <3> QED
      BY <1>2, <3>2, <3>3
  <2>6. Filled'
    <3> SUFFICES ASSUME NEW p \in Parts, InService(p)', Heard(fanout[p])' # Wanted(p)'
                 PROVE  \E x \in Todo : Refills(x, p)
      BY <1>10 DEF Filled, Refills
    <3>1. p # q
      BY <1>2, <1>9 DEF InService
    <3>2. InService(p)
      BY <1>2, <1>5, <1>7, <3>1 DEF InService
    <3>3. Heard(fanout[p])' = Heard(fanout[p])
      BY <1>2, <1>7, <1>11 DEF Heard
    <3> QED
      BY <2>1, <2>5, <3>1, <3>2, <3>3 DEF Filled
  <2>7. Collecting'
    <3> SUFFICES ASSUME NEW x \in Todo, x.op = "collect"
                 PROVE  /\ x.may <=> "publish" \in caps'[x.pub]
                        /\ Heard(x.list)' = {dt \in Wanted(x.pub)' : dt[2] \notin x.rest}
      BY <1>10 DEF Collecting, Right
    <3>1. Right(x) /\ x \in Steps /\ Here(x) /\ Known(x)
      BY <2>1, TodoSteps DEF IInv, Collecting, Present, Mapped
    <3>2. x.pub \in Parts /\ x.pub # q /\ x.list \subseteq Dts
      BY <2>2, <3>1, StepKinds DEF Here
    <3>3. \A dt \in x.list : dt[2] \in Parts /\ dt[2] # q
      BY <1>1, <3>1, <3>2 DEF Known, Dts
    <3>4. Heard(x.list)' = Heard(x.list)
      BY <1>7, <3>3 DEF Heard
    <3>5. Wanted(x.pub)' = Wanted(x.pub)
      BY <2>5, <3>2
    <3> QED
      BY <1>5, <3>1, <3>2, <3>4, <3>5 DEF Right
  <2> QED
    BY <1>10, <2>1, <2>3, <2>4, <2>6, <2>7 DEF Sequential
<1> QED
  BY <1>3, <1>12, <1>13, <1>14, <1>16, <1>17 DEF IInv, Alone

LEMMA RoomKeeps ==
  ASSUME IInv, UNCHANGED <<roomVars, fanout, job, overlapped>>, Regular', Joined', Gated'
  PROVE  IInv'
<1>1. /\ life' = life /\ caps' = caps /\ publishing' = publishing /\ tracks' = tracks
      /\ down' = down /\ bound' = bound /\ fanout' = fanout /\ overlapped' = overlapped /\ job' = job
  BY DEF roomVars
<1>2. (\A u \in Threads : Left(u)' = Left(u)) /\ Todo' = Todo /\ (Lone' <=> Lone)
  BY <1>1 DEF Left, Todo, Lone, Active
<1>3. /\ \A p : (Live(p)' <=> Live(p)) /\ (InService(p)' <=> InService(p)) /\ Wanted(p)' = Wanted(p)
      /\ \A p, s : Eligible(p, s)' <=> Eligible(p, s)
      /\ \A x : (Known(x)' <=> Known(x)) /\ (Here(x)' <=> Here(x))
      /\ \A x : Right(x)' <=> Right(x)
  BY SameRoom
<1>4. Mapped'
  BY <1>1, <1>2, <1>3 DEF IInv, Mapped
<1>5. Removals'
  <2> SUFFICES ASSUME NEW u \in Threads, NEW x \in Left(u) PROVE Reasons(u, x)'
    BY <1>2 DEF Removals
  <2> QED
    BY <1>1, ReasonsStay DEF First
<1>6. Owed'
  BY <1>1, <1>2, <1>3 DEF IInv, Owed, First, Serves
<1>7. ASSUME ~overlapped' PROVE Lone' /\ Sequential'
  <2>1. Lone /\ Present /\ Cleared /\ Filled /\ Collecting
    BY <1>1, <1>7 DEF IInv, Alone, Sequential
  <2>2. Present' /\ Collecting'
    BY <1>2, <1>3, <2>1 DEF Present, Collecting
  <2>3. Cleared'
    BY <1>1, <1>2, <1>3, <2>1 DEF Cleared, Drop, Detach
  <2>4. \A p \in Parts : Heard(fanout[p])' = Heard(fanout[p])
    BY <1>1, <1>3 DEF Heard
  <2>5. Filled'
    BY <1>2, <1>3, <2>1, <2>4 DEF Filled, Refills
  <2> QED
    BY <1>2, <2>1, <2>2, <2>3, <2>5 DEF Sequential
<1> QED
  BY <1>4, <1>5, <1>6, <1>7 DEF IInv, Alone

LEMMA PacketKeeps ==
  ASSUME IInv, NEW q \in Parts, Packet(q)
  PROVE  IInv'
<1>1. Regular' /\ UNCHANGED <<roomVars, fanout, job, overlapped>>
  <2>1. Regular'
    BY BeginsRegular DEF IInv
  <2> QED
    BY <2>1 DEF Packet, ReadPacket, GatePacket, WritePacket
<1>2. life' = life /\ caps' = caps /\ publishing' = publishing /\ tracks' = tracks
  BY <1>1 DEF roomVars
<1>3. pkt \in [Parts -> {"none", "read", "passed"}] /\ held \in [Parts -> BOOLEAN]
  BY DEF IInv, Regular, Types
<1>4. \A p \in Parts : p # q => pkt'[p] = pkt[p] /\ held'[p] = held[p]
  BY <1>3 DEF Packet, ReadPacket, GatePacket, WritePacket
<1>5. /\ pkt'[q] = "passed" => held'[q]
      /\ pkt'[q] = "read" /\ "publish" \in caps[q] => held'[q]
      /\ pkt'[q] # "none" => q \in publishing
  <2>1. CASE ReadPacket(q)
    <3>1. pkt'[q] = "read" /\ (held'[q] <=> "publish" \in caps[q]) /\ q \in publishing
      BY <1>3, <2>1 DEF ReadPacket, Forwarding
    <3> QED
      BY <3>1
  <2>2. CASE GatePacket(q)
    <3>1. pkt[q] = "read" /\ held'[q] = held[q] /\ pkt'[q] = IF "publish" \in caps[q] THEN "passed" ELSE "none"
      BY <1>3, <2>2 DEF GatePacket
    <3> QED
      BY <3>1 DEF IInv, Gated, Joined
  <2>3. CASE WritePacket(q)
    <3>1. pkt'[q] = "none"
      BY <1>3, <2>3 DEF WritePacket
    <3> QED
      BY <3>1
  <2> QED
    BY <2>1, <2>2, <2>3 DEF Packet
<1>6. Joined'
  BY <1>2, <1>4, <1>5 DEF IInv, Joined
<1>7. Gated'
  BY <1>2, <1>4, <1>5 DEF IInv, Gated
<1> QED
  BY <1>1, <1>6, <1>7, RoomKeeps

LEMMA Stutters ==
  ASSUME IInv, UNCHANGED vars
  PROVE  IInv'
<1>1. UNCHANGED <<roomVars, fanout, job, overlapped, orders, pkt, held>>
  BY DEF vars, pktVars
<1>2. Regular'
  BY <1>1 DEF IInv, Regular, Types, roomVars, Left
<1>3. Joined' /\ Gated'
  BY <1>1 DEF IInv, Joined, Gated, roomVars
<1> QED
  BY <1>1, <1>2, <1>3, RoomKeeps

LEMMA StepKeeps ==
  ASSUME IInv, NEW t \in Threads, Step(t)
  PROVE  IInv'
BY EnsureKeeps, CreateKeeps, RemoveKeeps, AttachSubscribersKeeps, AttachPublishersKeeps, AttachPublisherKeeps,
   DetachKeeps, StartRebuildKeeps, CollectKeeps, StoreKeeps, AnnounceKeeps, RemoveParticipantKeeps,
   ApplySubscriptionKeeps, PublishLostKeeps, PublishGainedKeeps, SubscribeLostKeeps, RebuildAllKeeps,
   TakeDownKeeps DEF Step

LEMMA NextKeeps ==
  ASSUME IInv, [Next]_vars
  PROVE  IInv'
<1>1. CASE AllLeft \/ UNCHANGED vars
  BY <1>1, Stutters DEF AllLeft
<1>2. ASSUME NEW t \in Threads, Step(t) PROVE IInv'
  BY <1>2, StepKeeps
<1>3. ASSUME NEW p \in Parts, Connected(p) \/ OnAudioTrack(p) \/ TrackEnds(p) \/ Close(p) \/ Packet(p) PROVE IInv'
  BY <1>3, ConnectedKeeps, OnAudioTrackKeeps, TrackEndsKeeps, CloseKeeps, PacketKeeps
<1>4. ASSUME NEW p \in Parts, NEW c \in SUBSET Caps, Join(p, c) \/ ApplyCaps(p, c) PROVE IInv'
  BY <1>4, JoinKeeps, ApplyCapsKeeps
<1>5. ASSUME NEW p \in Parts, NEW q \in Publishers, NEW want \in BOOLEAN, SetSubscription(p, q, want) PROVE IInv'
  <2>1. q \in Parts
    BY PartsAssumption
  <2> QED
    BY <1>5, <2>1, SetSubscriptionKeeps
<1> QED
  BY <1>1, <1>2, <1>3, <1>4, <1>5 DEF Next

LEMMA InitIInv ==
  ASSUME Init
  PROVE  IInv
<1>1. \A t \in Threads : job[t] = <<>> /\ Left(t) = {}
  BY MembersFacts DEF Init, Left
<1>2. Todo = {} /\ Active = {}
  BY <1>1 DEF Todo, Active
<1>3. Types
  <2>1. <<>> \in Seq(Steps) /\ IsFiniteSet({})
    BY FS_EmptySet
  <2>2. 0 \in 0..MaxTracks /\ 0 \in 0..MaxOrders
    BY BoundAssumption
  <2>3. down \in [Parts -> [Parts -> Nat]]
    <3>1. [p \in Parts |-> 0] \in [Parts -> Nat]
      OBVIOUS
    <3> QED
      BY <3>1 DEF Init
  <2>4. job \in [Threads -> Seq(Steps)]
    BY <2>1 DEF Init
  <2>5. fanout \in [Parts -> SUBSET Dts] /\ \A p \in Parts : IsFiniteSet(fanout[p])
    BY <2>1 DEF Init
  <2> QED
    BY <2>1, <2>2, <2>3, <2>4, <2>5 DEF Init, Types
<1>4. Tidy(<<>>)
  BY DEF Tidy
<1>5. Regular
  BY <1>1, <1>3, <1>4 DEF Regular
<1>6. Mapped /\ Joined /\ Gated /\ Removals
  BY <1>1, <1>2 DEF Init, Mapped, Joined, Gated, Removals
<1>7. Owed
  BY DEF Init, Owed, Eligible
<1>8. Lone /\ Present /\ Collecting
  BY <1>2 DEF Lone, Present, Collecting
<1>9. Cleared /\ Filled
  BY DEF Init, Cleared, Filled, InService
<1> QED
  BY <1>5, <1>6, <1>7, <1>8, <1>9 DEF IInv, Alone, Sequential

\* Spec keeps IInv, the inductive invariant of audio forwarding, from which
\* everything below follows.
THEOREM Invariant == Spec => []IInv
BY InitIInv, NextKeeps, PTL DEF Spec

-----------------------------------------------------------------------------
(* What follows                                                            *)

\* The tables of a room keep their types: nobody has a down track of itself, and
\* what a down track map names is sent by the subscriber's connection while that
\* is open.
THEOREM TypeCorrect == Spec => []TypeOK
<1>1. ASSUME IInv PROVE TypeOK
  <2>1. bound \subseteq Dts /\ \A p \in Parts : fanout[p] \subseteq Dts
    BY <1>1 DEF IInv, Regular, Types
  <2>2. \A dt \in Dts : dt[1] \in Publishers /\ dt[2] \in Parts
    BY DEF Dts
  <2>3. ASSUME NEW dt \in Referenced PROVE dt[1] \in Publishers /\ dt[2] \in Parts \ {dt[1]}
    <3>1. CASE dt \in bound
      BY <1>1, <2>1, <2>2, <3>1 DEF IInv, Mapped
    <3>2. CASE \E p \in Parts : dt \in fanout[p]
      BY <1>1, <2>1, <2>2, <3>2 DEF IInv, Mapped
    <3>3. CASE dt \in Lists
      <4>1. PICK t \in Threads : At(t, "collect") /\ dt \in Head(job[t]).list
        BY <3>3 DEF Lists
      <4>2. LET h == Head(job[t]) IN h \in Steps /\ h.op = "collect" /\ Apart(h) /\ Known(h)
        BY <1>1, <4>1, HeadFacts
      <4>3. Head(job[t]).list \subseteq Dts
        BY <4>2, StepKinds
      <4>4. dt[1] = Head(job[t]).pub /\ dt[2] # Head(job[t]).pub
        BY <4>1, <4>2 DEF Apart, Known
      <4> QED
        BY <2>2, <4>1, <4>3, <4>4
    <3> QED
      BY <3>1, <3>2, <3>3 DEF Referenced
  <2>4. \A s, p \in Parts :
          /\ down[s][p] \in Nat
          /\ down[s][p] # 0 => s # p /\ (Live(s) => <<p, s, down[s][p]>> \in bound)
    BY <1>1 DEF IInv, Regular, Types, Mapped
  <2>5. \A p \in Parts : \A dt \in fanout[p] : dt[1] = p
    BY <1>1 DEF IInv, Mapped
  <2> QED
    BY <1>1, <2>3, <2>4, <2>5 DEF IInv, Regular, Types, TypeOK
<1> QED
  BY <1>1, Invariant, PTL

LEMMA QuietFacts ==
  ASSUME IInv, Quiet
  PROVE  /\ Todo = {}
         /\ \A p, s \in Parts : Eligible(p, s) /\ First(p) => <<p, s, down[s][p]>> \in bound
<1>1. \A t \in Threads : Left(t) = {}
  BY EmptyJobs DEF IInv, Quiet, Active
<1>2. Todo = {}
  BY <1>1 DEF Todo
<1>3. ASSUME NEW p \in Parts, NEW s \in Parts, Eligible(p, s), First(p) PROVE <<p, s, down[s][p]>> \in bound
  <2>1. down[s][p] # 0
    BY <1>2, <1>3 DEF IInv, Owed
  <2>2. Live(s)
    BY <1>3, LiveListed DEF IInv
  <2> QED
    BY <2>1, <2>2 DEF IInv, Mapped
<1> QED
  BY <1>2, <1>3

\* TracksComplete for the publishers that are at their first track.
FirstTracksComplete ==
  Quiet => \A pub, sub \in Parts :
    Eligible(pub, sub) /\ tracks[pub] <= 1 => <<pub, sub, down[sub][pub]>> \in bound

\* No down track of a publisher's first track is missed, whatever else it or
\* anybody publishes later: however onAudioTrack, onConnected, setSubscription and
\* applyCaps overlap, one of them sees what the others have stored.
THEOREM FirstComplete == Spec => []FirstTracksComplete
<1>1. IInv => FirstTracksComplete
  BY QuietFacts DEF FirstTracksComplete, First
<1> QED
  BY <1>1, Invariant, PTL

\* In a room where nobody publishes a second track no down track is missed.  The
\* hypothesis is needed: onAudioTrack's epilogue for an ended track may take
\* away the down track of the one that follows it.
THEOREM Complete == MaxTracks <= 1 => (Spec => []TracksComplete)
<1>1. ASSUME MaxTracks <= 1 PROVE IInv => TracksComplete
  <2> SUFFICES ASSUME IInv, Quiet, NEW p \in Parts, NEW s \in Parts, Eligible(p, s)
               PROVE  <<p, s, down[s][p]>> \in bound
    BY DEF TracksComplete
  <2>1. tracks[p] <= 1
    BY <1>1, BoundAssumption DEF IInv, Regular, Types
  <2> QED
    BY <2>1, QuietFacts DEF First
<1>2. SUFFICES ASSUME MaxTracks <= 1 PROVE Spec => []TracksComplete
  OBVIOUS
<1> QED
  BY <1>1, <1>2, Invariant, PTL

\* As long as the operations on a room have come one after the other, in whatever
\* order and number, rebuildFanout has left every publisher in service with exactly
\* the audience that shouldForward admits, and nobody keeps a down track of one
\* that has left.
THEOREM ExactAlone == Spec => []FanoutExactAlone
<1>1. ASSUME IInv, ~overlapped, Quiet
      PROVE  /\ FanoutExact
             /\ \A p, s \in Parts : life[p] = "left" /\ Live(s) => down[s][p] = 0
  <2>1. Todo = {} /\ Sequential
    BY <1>1, QuietFacts DEF IInv, Alone
  <2>2. \A p, s \in Parts : life[p] = "left" /\ Live(s) => down[s][p] = 0
    BY <2>1 DEF Sequential, Cleared
  <2>3. ASSUME NEW p \in Parts, NEW s \in Parts,
               p \in publishing, "publish" \in caps[p], Live(p), life[s] = "connected"
        PROVE  s \in Audience(p) <=> Eligible(p, s)
    <3>1. Heard(fanout[p]) = Wanted(p)
      BY <2>1, <2>3 DEF Sequential, Filled, InService
    <3>2. Live(s)
      BY <2>3 DEF Live
    <3>3. ASSUME s \in Audience(p) PROVE Eligible(p, s)
      <4>1. PICK dt \in fanout[p] : dt[2] = s
        BY <3>3 DEF Audience
      <4>2. dt \in Wanted(p)
        BY <3>1, <3>2, <4>1 DEF Heard
      <4>3. p # s /\ ShouldForward(p, s)
        BY <4>1, <4>2, WantedFacts
      <4> QED
        BY <2>3, <4>3 DEF Eligible
    <3>4. ASSUME Eligible(p, s) PROVE s \in Audience(p)
      <4> DEFINE dt == <<p, s, down[s][p]>>
      <4>1. dt \in bound /\ dt[2] = s
        BY <1>1, <3>4, QuietFacts DEF First
      <4>2. down[s][p] # 0
        BY <1>1, <2>1, <3>4 DEF IInv, Owed, First
      <4>3. p # s /\ ShouldForward(p, s)
        BY <3>4 DEF Eligible
      <4>4. dt \in Wanted(p)
        BY <3>2, <4>2, <4>3, WantedFacts
      <4> HIDE DEF dt
      <4>5. dt \in fanout[p]
        BY <3>1, <4>4 DEF Heard
      <4> QED
        BY <4>1, <4>5 DEF Audience
    <3> QED
      BY <3>3, <3>4
  <2> QED
    BY <2>2, <2>3 DEF FanoutExact
<1>2. IInv => FanoutExactAlone
  BY <1>1 DEF FanoutExactAlone, FanoutExact
<1> QED
  BY <1>2, Invariant, PTL

\* forwardLoop's test of publish_audio holds for every interleaving: a packet that
\* is sent to anyone has a publisher that had the cap at some moment since the packet
\* was read, whatever fanout an overtaken rebuild has stored.
THEOREM RevokedSilent == Spec => RevokedPublisherSilent
<1> DEFINE A == \A p \in Parts : pkt[p] = "passed" /\ pkt'[p] = "none" /\ Audience(p) # {} => held[p]
<1>1. IInv => A
  BY DEF IInv, Gated
<1>2. IInv => [A]_vars
  BY <1>1
<1>3. RevokedPublisherSilent <=> [][A]_vars
  BY DEF RevokedPublisherSilent
<1> HIDE DEF A
<1> QED
  BY <1>2, <1>3, Invariant, PTL DEF RevokedPublisherSilent
=============================================================================
