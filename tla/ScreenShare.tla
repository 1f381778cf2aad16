---------------------------- MODULE ScreenShare ----------------------------
(***************************************************************************)
(* Screen sharing by one publisher of a room (internal/room screen.go, and *)
(* the cascade sinks of cascade_api.go).  A screen is one transceiver with *)
(* one track per simulcast layer, each with its own OnTrack callback and   *)
(* read loop; a companion audio track may go with it.  Each layer has a    *)
(* fanout, rebuilt by the callbacks, the read loops' epilogues, the        *)
(* viewers' websocket loops, the control channel, the cascade and whoever  *)
(* closes the session.                                                     *)
(*                                                                         *)
(* As in Forwarding, job[t] is the sequence of atomic steps goroutine t    *)
(* has left.  Abstractions: a rebuild is one step (how a stale snapshot    *)
(* overwrites a newer one is Forwarding's subject), the down tracks made   *)
(* for the same viewer are not told apart, and viewers hold the cap to     *)
(* join.  The keyframe request of a new viewer has no state but its        *)
(* throttle and is left out.                                               *)
(***************************************************************************)
EXTENDS Integers, FiniteSets, Sequences, SequencesExt

CONSTANTS
  Viewers,    \* the other participants
  Sink,       \* the cascade's track for this screen, if one is attached
  Tracks,     \* video tracks the client may send, each of them once
  Companions, \* its second audio tracks
  Uplink,     \* transceiver and rid of each track
  SinkKinds,  \* the kinds that the cascade attaches sinks for
  Asked,      \* the qualities that viewers ask for
  MaxActive,  \* bound: goroutines in the midst of an operation
  MaxOrders,  \* bound: frames, caps commands and sink changes
  MaxSent,    \* bound: uplink tracks that the client sends
  None

ASSUME UplinkAssumption ==
  \A t \in Tracks \cup Companions : Uplink[t].tcv \in Nat \ {0} /\ Uplink[t].rid \in STRING
ASSUME NameAssumption ==
  /\ Sink \notin Viewers /\ None \notin Tracks \cup Companions
  /\ Tracks \cap Companions = {}
  /\ Asked \subseteq {"high", "medium", "low"} /\ SinkKinds \subseteq {"screen", "screen_audio"}
ASSUME BoundAssumption == MaxActive \in Nat /\ MaxOrders \in Nat /\ MaxSent \in Nat

VARIABLES
  life,       \* of the publisher: in (Room.parts), closed (still listed), left
  cap,        \* the publisher holds publish_screen
  up,         \* an uplink track: off, called (OnTrack), live (read loop), over
  stopped,    \* transceivers the SFU has stopped
  publishing, \* Participant.screenPublishing
  tcv,        \* Participant.screenTcv, 0 for nil
  layers,     \* Participant.screenLayers: the track of each quality
  gauge,      \* Manager.screenTracks
  told,       \* the last of ScreenTrackActive and ScreenTrackEnded
  cascaded,   \* kinds that the cascade has among its localSpeakers
  companion,  \* Participant.screenAudioPublishing
  companionTcv,
  fan,        \* screenLayer.fanout of a track, screenAudioFanout at None
  down,       \* <<kind, viewer>> for the entries of Participant.screenDown
  sinks,      \* kinds with an entry in Room.cascadeSinks
  watching,   \* viewers that are connected
  unsub,      \* viewers that have unsubscribed, the video dimension
  sel,        \* screenLayerSel of each viewer
  job, orders, overlapped

pubVars == <<publishing, tcv, layers, gauge, told, cascaded, companion, companionTcv>>
viewVars == <<fan, down>>
frameVars == <<sinks, watching, unsub, sel>>
linkVars == <<life, cap, up, stopped>>
vars == <<linkVars, pubVars, viewVars, frameVars, job, orders, overlapped>>

Screen == "screen"
Audio == "screen_audio"
Kinds == {Screen, Audio}
Uplinks == Tracks \cup Companions
Qualities == {"high", "medium", "low"}
Tcv(t) == Uplink[t].tcv

\* ridQuality; "" for a rid that is not known.
Quality(t) ==
  LET rid == Uplink[t].rid
  IN  IF rid \in {"", "a", "h"} THEN "high"
      ELSE IF rid \in {"b", "m"} THEN "medium"
      ELSE IF rid \in {"c", "l"} THEN "low" ELSE ""

Control == <<"control", None>>
Closer == <<"close", None>>
Cascade == <<"cascade", None>>
Threads == {Control, Closer, Cascade} \cup ({"track"} \X Uplinks) \cup ({"loop", "connect"} \X Viewers)

Active == {t \in Threads : job[t] # <<>>}
Quiet == Active = {}

Start(t, steps) ==
  /\ job[t] = <<>>
  /\ Cardinality(Active) < MaxActive
  /\ job' = [job EXCEPT ![t] = steps]
  /\ overlapped' = (overlapped \/ Active # {})

Order == orders < MaxOrders /\ orders' = orders + 1

At(t, op) == job[t] # <<>> /\ Head(job[t]).op = op
Continue(t, steps) == job' = [job EXCEPT ![t] = steps \o Tail(job[t])] /\ UNCHANGED <<orders, overlapped>>

Do(op) == [op |-> op]
For(op, kind) == [op |-> op, kind |-> kind]
Rebuild(kind) == For("rebuild", kind)
RebuildBoth == <<Rebuild(Screen), Rebuild(Audio)>>

NoLayers == [q \in Qualities |-> None]
On(kind) == IF kind = Screen THEN publishing ELSE companion
LayerTracks == {layers[q] : q \in Qualities} \ {None}

Init ==
  /\ life = "in" /\ cap \in BOOLEAN
  /\ up = [t \in Uplinks |-> "off"] /\ stopped = {}
  /\ publishing = FALSE /\ tcv = 0 /\ layers = NoLayers
  /\ gauge = 0 /\ told = "ended" /\ cascaded = {}
  /\ companion = FALSE /\ companionTcv = 0
  /\ fan = [t \in Tracks \cup {None} |-> {}] /\ down = {}
  /\ sinks = {} /\ watching = {} /\ unsub = {} /\ sel = [v \in Viewers |-> "high"]
  /\ job = [t \in Threads |-> <<>>] /\ orders = 0 /\ overlapped = FALSE

-----------------------------------------------------------------------------
(* Uplink tracks                                                           *)

\* onTrack: the client's track arrives on a transceiver that is not stopped.
\* Without the cap it is stripped, a layer with an unknown rid is drained.
OnTrack(t) ==
  /\ life = "in" /\ up[t] = "off" /\ Tcv(t) \notin stopped
  /\ Cardinality({u \in Uplinks : up[u] # "off"}) < MaxSent
  /\ up' = [up EXCEPT ![t] = "called"]
  /\ Start(<<"track", t>>,
           IF ~cap THEN <<Do("strip")>>
           ELSE IF t \in Companions THEN <<Do("admitCompanion")>>
           ELSE IF Quality(t) = "" THEN <<Do("live")>> ELSE <<Do("admit")>>)
  /\ UNCHANGED orders
  /\ UNCHANGED <<life, cap, stopped, pubVars, viewVars, frameVars>>

\* stripVideoTransceiver: Stop ends the transceiver's tracks.
Strip(t) ==
  /\ At(t, "strip")
  /\ stopped' = stopped \cup {Tcv(t[2])}
  /\ up' = [up EXCEPT ![t[2]] = "over"]
  /\ Continue(t, <<>>)
  /\ UNCHANGED <<life, cap, pubVars, viewVars, frameVars>>

\* onScreenTrack, the critical section: the first layer takes the screen, a
\* further rid of the same transceiver joins it, anything else is refused.
Admit(t) ==
  /\ At(t, "admit")
  /\ LET track == t[2]
         refused == publishing /\ (Uplink[track].rid = "" \/ tcv # Tcv(track))
     IN  IF refused
         THEN /\ Continue(t, <<Do("strip")>>)
              /\ UNCHANGED <<publishing, tcv, layers>>
         ELSE /\ publishing' = TRUE
              /\ tcv' = IF publishing THEN tcv ELSE Tcv(track)
              /\ layers' = [layers EXCEPT ![Quality(track)] = track]
              /\ Continue(t, IF publishing THEN <<Rebuild(Screen), Do("live")>>
                             ELSE <<Do("announce"), Do("attach"),
                                    For("cascade", Screen), Do("live")>>)
  /\ UNCHANGED <<gauge, told, cascaded, companion, companionTcv>>
  /\ UNCHANGED <<linkVars, viewVars, frameVars>>

\* ... after which the first layer is counted and reported,
Announce(t) ==
  /\ At(t, "announce") /\ gauge' = gauge + 1 /\ told' = "active"
  /\ Continue(t, <<>>)
  /\ UNCHANGED <<publishing, tcv, layers, cascaded, companion, companionTcv>>
  /\ UNCHANGED <<linkVars, viewVars, frameVars>>

\* and once it has its down tracks cascadePublish(..., true) offers it.
CascadePublish(t) ==
  /\ At(t, "cascade") /\ cascaded' = cascaded \cup {Head(job[t]).kind}
  /\ Continue(t, <<>>)
  /\ UNCHANGED <<publishing, tcv, layers, gauge, told, companion, companionTcv>>
  /\ UNCHANGED <<linkVars, viewVars, frameVars>>

\* onScreenAudioTrack: one companion at a time, by CompareAndSwap.
AdmitCompanion(t) ==
  /\ At(t, "admitCompanion")
  /\ companion' = TRUE
  /\ Continue(t, IF companion THEN <<Do("strip")>>
                 ELSE <<Do("companionTcv"), Do("attachCompanion"), For("cascade", Audio), Do("live")>>)
  /\ UNCHANGED <<publishing, tcv, layers, gauge, told, cascaded, companionTcv>>
  /\ UNCHANGED <<linkVars, viewVars, frameVars>>

StoreCompanionTcv(t) ==
  /\ At(t, "companionTcv") /\ companionTcv' = Tcv(t[2])
  /\ Continue(t, <<>>)
  /\ UNCHANGED <<publishing, tcv, layers, gauge, told, cascaded, companion>>
  /\ UNCHANGED <<linkVars, viewVars, frameVars>>

StartLoop(t) ==
  /\ At(t, "live") /\ up' = [up EXCEPT ![t[2]] = "live"]
  /\ Continue(t, <<>>)
  /\ UNCHANGED <<life, cap, stopped, pubVars, viewVars, frameVars>>

\* The client stops sending, the transceiver is stopped or the connection is
\* closed: the read loop returns.  A track that was drained leaves no trace.
LoopReturns(t) ==
  /\ up[t] = "live"
  /\ up' = [up EXCEPT ![t] = "over"]
  /\ IF t \in Tracks /\ Quality(t) = "" THEN UNCHANGED <<job, overlapped>>
     ELSE Start(<<"track", t>>, <<Do(IF t \in Tracks THEN "epilogue" ELSE "finishCompanion")>>)
  /\ UNCHANGED orders
  /\ UNCHANGED <<life, cap, stopped, pubVars, viewVars, frameVars>>

\* Mutant: a layer that was replaced or cleared does not end the publication.
EpilogueOfOwnLayer(t) ==
  /\ At(t, "epilogue")
  /\ LET track == t[2]
     IN  /\ layers' = [q \in Qualities |-> IF layers[q] = track THEN None ELSE layers[q]]
         /\ Continue(t, IF layers' = NoLayers /\ layers # NoLayers THEN <<Do("finish")>>
                        ELSE <<Rebuild(Screen)>>)
  /\ UNCHANGED <<publishing, tcv, gauge, told, cascaded, companion, companionTcv>>
  /\ UNCHANGED <<linkVars, viewVars, frameVars>>

\* The read loop's epilogue: the layer is taken out if it is still this one,
\* and the last layer ends the publication.
Epilogue(t) ==
  /\ At(t, "epilogue")
  /\ LET track == t[2]
     IN  /\ layers' = [q \in Qualities |-> IF layers[q] = track THEN None ELSE layers[q]]
         /\ Continue(t, IF layers' = NoLayers THEN <<Do("finish")>> ELSE <<Rebuild(Screen)>>)
  /\ UNCHANGED <<publishing, tcv, gauge, told, cascaded, companion, companionTcv>>
  /\ UNCHANGED <<linkVars, viewVars, frameVars>>

-----------------------------------------------------------------------------
(* The end of a publication                                                *)

\* Mutant: the flag is read and stored instead of compared and swapped.
FinishAgain(t) ==
  /\ At(t, "finish")
  /\ publishing' = FALSE
  /\ Continue(t, <<Do("clear"), Do("uncount"), Do("finishCompanion"), Do("tellEnded")>>)
  /\ UNCHANGED <<tcv, layers, gauge, told, cascaded, companion, companionTcv>>
  /\ UNCHANGED <<linkVars, viewVars, frameVars>>

\* finishScreenPublish: who wins the flag does the rest.
Finish(t) ==
  /\ At(t, "finish")
  /\ publishing' = FALSE
  /\ Continue(t, IF publishing
                 THEN <<Do("clear"), Do("uncount"), Do("finishCompanion"), Do("tellEnded")>>
                 ELSE <<>>)
  /\ UNCHANGED <<tcv, layers, gauge, told, cascaded, companion, companionTcv>>
  /\ UNCHANGED <<linkVars, viewVars, frameVars>>

ClearLayers(t) ==
  /\ At(t, "clear") /\ layers' = NoLayers
  /\ Continue(t, <<>>)
  /\ UNCHANGED <<publishing, tcv, gauge, told, cascaded, companion, companionTcv>>
  /\ UNCHANGED <<linkVars, viewVars, frameVars>>

\* The counter, and cascadePublish(..., false).
Uncount(t) ==
  /\ At(t, "uncount") /\ gauge' = gauge - 1 /\ cascaded' = cascaded \ {Screen}
  /\ Continue(t, <<>>)
  /\ UNCHANGED <<publishing, tcv, layers, told, companion, companionTcv>>
  /\ UNCHANGED <<linkVars, viewVars, frameVars>>

\* Unless the session is closed: track_ended, the down tracks, the report.
TellEnded(t) ==
  /\ At(t, "tellEnded")
  /\ Continue(t, IF life = "in" THEN <<For("detach", Screen), Do("reportEnded")>> ELSE <<>>)
  /\ UNCHANGED <<linkVars, pubVars, viewVars, frameVars>>

ReportEnded(t) ==
  /\ At(t, "reportEnded") /\ told' = "ended"
  /\ Continue(t, <<>>)
  /\ UNCHANGED <<publishing, tcv, layers, gauge, cascaded, companion, companionTcv>>
  /\ UNCHANGED <<linkVars, viewVars, frameVars>>

\* finishScreenAudioPublish.
FinishCompanion(t) ==
  /\ At(t, "finishCompanion")
  /\ companion' = FALSE
  /\ Continue(t, IF companion THEN <<Do("endCompanion")>> ELSE <<>>)
  /\ UNCHANGED <<publishing, tcv, layers, gauge, told, cascaded, companionTcv>>
  /\ UNCHANGED <<linkVars, viewVars, frameVars>>

EndCompanion(t) ==
  /\ At(t, "endCompanion")
  /\ fan' = [fan EXCEPT ![None] = {}]
  /\ cascaded' = cascaded \ {Audio}
  /\ Continue(t, IF life = "in" THEN <<For("detach", Audio)>> ELSE <<>>)
  /\ UNCHANGED <<publishing, tcv, layers, gauge, told, companion, companionTcv>>
  /\ UNCHANGED <<linkVars, down, frameVars>>

\* stopScreenUplink, then stopScreenAudioUplink: take the transceiver, stop it.
StopScreenUplink(t) ==
  /\ At(t, "stopUplink")
  /\ stopped' = stopped \cup ({tcv} \ {0}) /\ tcv' = 0
  /\ Continue(t, <<>>)
  /\ UNCHANGED <<publishing, layers, gauge, told, cascaded, companion, companionTcv>>
  /\ UNCHANGED <<life, cap, up, viewVars, frameVars>>

StopScreenAudioUplink(t) ==
  /\ At(t, "stopCompanion")
  /\ stopped' = stopped \cup ({companionTcv} \ {0}) /\ companionTcv' = 0
  /\ Continue(t, <<>>)
  /\ UNCHANGED <<publishing, tcv, layers, gauge, told, cascaded, companion>>
  /\ UNCHANGED <<life, cap, up, viewVars, frameVars>>

-----------------------------------------------------------------------------
(* Down tracks and fanouts                                                 *)

\* ShouldForwardScreen; the viewers hold join.
ShouldForwardScreen(may, v) == may /\ v \notin unsub

\* ensureScreenDownTrack and ensureScreenAudioDownTrack: the entries of those
\* viewers who are connected and are to get this kind.
Ensured(kind, viewers) ==
  {<<kind, v>> : v \in {w \in viewers \cap watching : On(kind) /\ ShouldForwardScreen(cap, w)}}

\* attachScreenSubscribers, attachScreenAudioSubscribers: ensure*DownTrack for
\* every member, then the fanout.
Attach(t, op, kind) ==
  /\ At(t, op)
  /\ down' = down \cup Ensured(kind, Viewers)
  /\ Continue(t, <<Rebuild(kind)>>)
  /\ UNCHANGED <<linkVars, pubVars, fan, frameVars>>

AttachScreen(t) == Attach(t, "attach", Screen)
AttachCompanion(t) == Attach(t, "attachCompanion", Audio)

\* setSubscription: ensure*DownTrack for one kind and viewer.
EnsureDownTrack(t) ==
  /\ At(t, "ensure")
  /\ down' = down \cup Ensured(Head(job[t]).kind, {t[2]})
  /\ Continue(t, <<>>)
  /\ UNCHANGED <<linkVars, pubVars, fan, frameVars>>

\* attachPublishersToSubscriber, one kind: only if it is being published.
Follow(t) ==
  /\ At(t, "follow")
  /\ LET kind == Head(job[t]).kind
     IN  /\ down' = down \cup Ensured(kind, {t[2]})
         /\ Continue(t, IF On(kind) THEN <<Rebuild(kind)>> ELSE <<>>)
  /\ UNCHANGED <<linkVars, pubVars, fan, frameVars>>

\* detachScreenPublisher: the fanouts of the layers there are, the down tracks.
DetachScreenPublisher(t) ==
  /\ At(t, "detach") /\ Head(job[t]).kind = Screen
  /\ fan' = [x \in DOMAIN fan |-> IF x \in LayerTracks THEN {} ELSE fan[x]]
  /\ down' = {d \in down : d[1] # Screen}
  /\ Continue(t, <<>>)
  /\ UNCHANGED <<linkVars, pubVars, frameVars>>

\* detachScreenAudioPublisher: the companion has one fanout.
DetachScreenAudioPublisher(t) ==
  /\ At(t, "detach") /\ Head(job[t]).kind = Audio
  /\ fan' = [fan EXCEPT ![None] = {}]
  /\ down' = {d \in down : d[1] # Audio}
  /\ Continue(t, <<>>)
  /\ UNCHANGED <<linkVars, pubVars, frameVars>>

\* pickScreenLayer: the quality asked for, else the best there is.
PickScreenLayer(ls, want) ==
  IF ls[want] # None THEN ls[want]
  ELSE IF ls["high"] # None THEN ls["high"]
  ELSE IF ls["medium"] # None THEN ls["medium"] ELSE ls["low"]

\* Whom rebuildScreenFanout and rebuildScreenAudioFanout collect: the viewers
\* with a down track, and the sink.
Takers(kind) ==
  {v \in watching : <<kind, v>> \in down /\ ShouldForwardScreen(cap, v)}
    \cup (IF cap /\ kind \in sinks THEN {Sink} ELSE {})

\* rebuildScreenFanout: the takers, sorted by the layer they are to get;
\* without a layer nothing is done.
RebuildScreenFanout(t) ==
  /\ At(t, "rebuild") /\ Head(job[t]).kind = Screen
  /\ LET Layer(v) == PickScreenLayer(layers, IF v = Sink THEN "high" ELSE sel[v])
     IN  fan' = [x \in DOMAIN fan |-> IF x \in LayerTracks THEN {v \in Takers(Screen) : Layer(v) = x}
                                     ELSE fan[x]]
  /\ Continue(t, <<>>)
  /\ UNCHANGED <<linkVars, pubVars, down, frameVars>>

\* rebuildScreenAudioFanout: one list.
RebuildScreenAudioFanout(t) ==
  /\ At(t, "rebuild") /\ Head(job[t]).kind = Audio
  /\ fan' = [fan EXCEPT ![None] = Takers(Audio)]
  /\ Continue(t, <<>>)
  /\ UNCHANGED <<linkVars, pubVars, down, frameVars>>

-----------------------------------------------------------------------------
(* Viewers, control channel, cascade, closing                              *)

\* A viewer's connection is up: attachPublishersToSubscriber.
Connected(v) ==
  /\ v \notin watching /\ life # "left"
  /\ watching' = watching \cup {v}
  /\ Start(<<"connect", v>>, <<For("follow", Screen), For("follow", Audio)>>)
  /\ UNCHANGED <<sinks, unsub, sel, orders>>
  /\ UNCHANGED <<linkVars, pubVars, viewVars>>

\* setSubscription, the video dimension.
SetSubscription(v, want) ==
  /\ Order /\ v \in watching
  /\ unsub' = IF want THEN unsub \ {v} ELSE unsub \cup {v}
  /\ Start(<<"loop", v>>,
           IF life = "left" THEN <<>>
           ELSE IF want THEN <<For("ensure", Screen), For("ensure", Audio)>> \o RebuildBoth
           ELSE RebuildBoth)
  /\ UNCHANGED <<sinks, watching, sel>>
  /\ UNCHANGED <<linkVars, pubVars, viewVars>>

\* Mutant: the choice is written down and not carried out.
SetScreenLayerOnly(v, q) ==
  /\ Order /\ v \in watching
  /\ sel' = [sel EXCEPT ![v] = q]
  /\ Start(<<"loop", v>>, <<>>)
  /\ UNCHANGED <<sinks, watching, unsub>>
  /\ UNCHANGED <<linkVars, pubVars, viewVars>>

\* SetScreenLayer.
SetScreenLayer(v, q) ==
  /\ Order /\ v \in watching
  /\ sel' = [sel EXCEPT ![v] = q]
  /\ Start(<<"loop", v>>, IF life # "left" /\ publishing THEN <<Rebuild(Screen)>> ELSE <<>>)
  /\ UNCHANGED <<sinks, watching, unsub>>
  /\ UNCHANGED <<linkVars, pubVars, viewVars>>

\* applyScreenCaps, when the cap is withdrawn.
Withdrawal == <<Do("finish"), Do("stopUplink"), Do("stopCompanion")>>

\* UpdateCaps and applyCaps: applyScreenCaps and the rebuilds after it.
ApplyCaps(new) ==
  /\ Order /\ life # "left"
  /\ cap' = new
  /\ Start(Control, (IF cap /\ ~new THEN Withdrawal ELSE <<>>) \o RebuildBoth)
  /\ UNCHANGED <<life, up, stopped, pubVars, viewVars, frameVars>>

\* AttachCascadeSink and its detach function: the list under Manager.mu, then
\* the fanout.
ChangeSink(kind) ==
  /\ Order /\ life # "left"
  /\ sinks' = IF kind \in sinks THEN sinks \ {kind} ELSE sinks \cup {kind}
  /\ Start(Cascade, <<Rebuild(kind)>>)
  /\ UNCHANGED <<watching, unsub, sel>>
  /\ UNCHANGED <<linkVars, pubVars, viewVars>>

\* The publisher's session: Close, then removeParticipant.
Close ==
  /\ life = "in" /\ life' = "closed"
  /\ Start(Closer, <<Do("unlist")>>)
  /\ UNCHANGED orders
  /\ UNCHANGED <<cap, up, stopped, pubVars, viewVars, frameVars>>

RemoveParticipant(t) ==
  /\ At(t, "unlist") /\ life' = "left"
  /\ Continue(t, <<Do("finish"), Do("finishCompanion"), For("detach", Screen), For("detach", Audio)>>)
  /\ UNCHANGED <<cap, up, stopped, pubVars, viewVars, frameVars>>

-----------------------------------------------------------------------------
\* forwardScreenLayerLoop, forwardScreenAudioLoop: whom a packet that is read
\* now reaches, the gate of the cap included.
Delivered(x) == IF cap THEN fan[x] ELSE {}
CompanionDelivered == Delivered(None)

-----------------------------------------------------------------------------
Step(t) ==
  /\ job[t] # <<>>
  /\ \/ Strip(t) \/ Admit(t) \/ Announce(t) \/ CascadePublish(t)
     \/ AdmitCompanion(t) \/ StoreCompanionTcv(t) \/ StartLoop(t) \/ Epilogue(t)
     \/ Finish(t) \/ ClearLayers(t) \/ Uncount(t) \/ TellEnded(t) \/ ReportEnded(t)
     \/ FinishCompanion(t) \/ EndCompanion(t)
     \/ StopScreenUplink(t) \/ StopScreenAudioUplink(t)
     \/ AttachScreen(t) \/ AttachCompanion(t) \/ EnsureDownTrack(t) \/ Follow(t)
     \/ DetachScreenPublisher(t) \/ DetachScreenAudioPublisher(t)
     \/ RebuildScreenFanout(t) \/ RebuildScreenAudioFanout(t) \/ RemoveParticipant(t)

\* The publisher has left and its loops have returned.
Gone == life = "left" /\ Quiet /\ UNCHANGED vars

Next ==
  \/ Gone \/ Close
  \/ \E t \in Threads : Step(t)
  \/ \E t \in Uplinks : OnTrack(t) \/ LoopReturns(t)
  \/ \E v \in Viewers : \/ Connected(v)
                        \/ \E want \in BOOLEAN : SetSubscription(v, want)
                        \/ \E q \in Asked : SetScreenLayer(v, q)
  \/ \E new \in BOOLEAN : ApplyCaps(new)
  \/ \E kind \in SinkKinds : ChangeSink(kind)

Spec == Init /\ [][Next]_vars

-----------------------------------------------------------------------------
(* Properties                                                              *)

\* Type invariant.  A layer is filed under its own quality, and only uplinks
\* that OnTrack has reported are layers.
TypeOK ==
  /\ life \in {"in", "closed", "left"} /\ cap \in BOOLEAN
  /\ up \in [Uplinks -> {"off", "called", "live", "over"}]
  /\ publishing \in BOOLEAN /\ companion \in BOOLEAN /\ gauge \in Int
  /\ \A q \in Qualities : layers[q] # None =>
       layers[q] \in Tracks /\ Quality(layers[q]) = q /\ up[layers[q]] # "off"
  /\ \A x \in DOMAIN fan : fan[x] \subseteq Viewers \cup {Sink}
  /\ down \subseteq Kinds \X Viewers /\ cascaded \subseteq Kinds
  /\ unsub \subseteq watching /\ watching \subseteq Viewers
  /\ orders \in 0..MaxOrders

\* Goroutines that have a step op left.
Owing(op) == Cardinality({t \in Threads : \E i \in 1..Len(job[t]) : job[t][i] = Do(op)})

\* The number of screens that the heartbeat reports, although callbacks, read
\* loops, caps commands and the closing of the session all start and end
\* publications: each is counted once and discounted once.
GaugeExact == gauge + Owing("announce") - Owing("uncount") = IF publishing THEN 1 ELSE 0

\* Nothing of a screen survives its tracks: once no read loop is running and
\* nothing is under way, no screen or companion is published, filed or counted,
\* whichever publications, withdrawals and replacements overlapped.
EndedIsEnded ==
  Quiet /\ (\A t \in Uplinks : up[t] \in {"off", "over"}) =>
    ~publishing /\ layers = NoLayers /\ gauge = 0 /\ ~companion

\* The tracks whose packets reach v; a stopped transceiver brings no more.
Reaching(v) == {t \in Tracks : v \in Delivered(t) /\ up[t] = "live" /\ Tcv(t) \notin stopped}

\* The layers a viewer receives: its connection still sends its down track.
Serving(v) == {t \in Reaching(v) : <<Screen, v>> \in down}

\* As long as operations have come one after the other: a screen is published
\* exactly while it has a layer, with the cap; the Server and the cascade know
\* of exactly that screen; and everyone who watches receives one layer, the
\* one asked for or the best there is, and the sink the best.
ScreenExactAlone ==
  Quiet /\ life = "in" /\ ~overlapped =>
    /\ publishing = (layers # NoLayers)
    /\ publishing => cap
    /\ (told = "active") = publishing
    /\ (Screen \in cascaded) = publishing /\ (Audio \in cascaded) = companion
    /\ \A v \in watching :
         Serving(v) = IF publishing /\ v \notin unsub THEN {PickScreenLayer(layers, sel[v])} ELSE {}
    /\ companionTcv # 0 => \A v \in watching :
         v \in CompanionDelivered <=> companion /\ v \notin unsub /\ cap
    /\ publishing => Reaching(Sink) = IF Screen \in sinks THEN {PickScreenLayer(layers, "high")} ELSE {}

\* "Withdrawal of publish_screen: stop forwarding at once, ... stop receiving
\* the uplink" (applyScreenCaps): with nothing under way nobody publishes a
\* screen without the cap.  No invariant: a publication whose critical section
\* comes after the withdrawal is accepted (README, findings).
NoScreenWithoutCap == Quiet /\ publishing => cap
=============================================================================
