------------------------------- MODULE Panels -------------------------------
(***************************************************************************)
(* The Browser Panels of one profile, as host.ts composes them: the shared   *)
(* session (panel-session.ts), the panel capabilities and their gateways     *)
(* (panel-capability.ts, panel-gateway.ts, panel-gateway-pool.ts) and the     *)
(* transports that a panel's sockets reach (panel-transport.ts).             *)
(*                                                                         *)
(* A transport is one openPanelTransport call: a gateway with a capability    *)
(* of its own, a generation of its panel's connection and a socket.  Time    *)
(* passes in ticks; a window with `left` ticks is over at 0.  Frames, dialogs, *)
(* viewports and tabs are left out, and so are agents' leases, which only     *)
(* delay the end of an idle session.  One call of the session is one step;    *)
(* what it awaits is in `calls`.  What the capability store and the pool keep  *)
(* of a capability that has been redeemed is left out: nothing reads it.       *)
(***************************************************************************)
EXTENDS Naturals, FiniteSets

CONSTANTS Panels, Transports,
          Window,       \* PANEL_RECLAIM_WINDOW_MS in ticks
          MaxIdlers,    \* bound: releaseIfIdle calls under way
          MaxReleases,  \* bound: releases of panels by their owner
          Streamers,    \* bound: the panels that open transports
          MaxVisible,   \* bound: panels visible at a time
          None

ASSUME BoundsAssumption ==
  /\ Window \in Nat \ {0} /\ MaxIdlers \in Nat \ {0}
  /\ MaxReleases \in Nat /\ MaxVisible \in Nat
ASSUME StreamersAssumption == Streamers \subseteq Panels
ASSUME NoneAssumption == None \notin Panels /\ None \notin Transports /\ None \notin Nat

VARIABLES
  session,    \* the registry's session of the profile
  bound,      \* boundTransports of that session
  transport,  \* per transport: what has become of it
  calls,      \* stopTransports and stopAllTransports that await their stops
  idlers,     \* releaseIfIdle calls that await the release of the stream
  releases    \* how many panels have been released

vars == <<session, bound, transport, calls, idlers, releases>>

Left == 0..Window \cup {None}
Member == [in: BOOLEAN, connected: BOOLEAN, role: {"controller", "spectator"},
           auth: Nat, pending: Nat, next: Nat,  \* generations, 0 if there is none
           left: Left]                          \* of reclaimUntil
Session == [member: [Panels -> Member],
            controller: Panels \cup {None},
            owner: Panels \cup {None}, left: Left,  \* reclaimOwnerPanelId, reclaimDeadline
            expired: SUBSET Panels, visible: SUBSET Panels,
            timer: Left]                            \* of the armed reclaim expiry
TransportRecord ==
  [panel: Panels \cup {None}, gen: Nat,
   phase: {"unused", "joining", "starting", "listening", "stopping", "stopped"},
   authorized: BOOLEAN,
   cap: {"none", "pending", "spent"},
   live: BOOLEAN]                               \* its session is the registry's
CallRecord ==
  [by: {"join", "activate", "release", "idle"}, panel: Panels \cup {None},
   of: Transports \cup {None}, bound: SUBSET Transports, stopping: SUBSET Transports,
   hangs: BOOLEAN, live: BOOLEAN]

TypeOK ==
  /\ session \in Session
  /\ bound \in [Panels -> SUBSET Transports]
  /\ transport \in [Transports -> TransportRecord]
  /\ calls \subseteq CallRecord
  /\ idlers \in 0..MaxIdlers /\ releases \in 0..MaxReleases

NoMember == [in |-> FALSE, connected |-> FALSE, role |-> "spectator",
             auth |-> 0, pending |-> 0, next |-> 0, left |-> None]
NewSession == [member |-> [p \in Panels |-> NoMember], controller |-> None,
               owner |-> None, left |-> None, expired |-> {}, visible |-> {}, timer |-> None]
Unused == [panel |-> None, gen |-> 0, phase |-> "unused", authorized |-> FALSE,
           cap |-> "none", live |-> FALSE]

Init ==
  /\ session = NewSession
  /\ bound = [p \in Panels |-> {}]
  /\ transport = [t \in Transports |-> Unused]
  /\ calls = {} /\ idlers = 0 /\ releases = 0

-----------------------------------------------------------------------------
(* The session's operations, as functions of its state *)

Expired(s) == {p \in Panels : s.member[p].in /\ ~s.member[p].connected /\ s.member[p].left = 0}

\* expireReclaim, which every operation begins with.
Expire(s) ==
  LET E == Expired(s)
      over == s.owner \in E \/ s.left = 0
  IN [s EXCEPT
       !.member = [p \in Panels |-> IF p \in E THEN NoMember ELSE s.member[p]],
       !.controller = IF @ \in E THEN None ELSE @,
       !.owner = IF over THEN None ELSE @,
       !.left = IF over THEN None ELSE @,
       !.expired = @ \cup E,
       !.visible = @ \ E]

Windows(s) == {s.member[p].left : p \in {q \in Panels : s.member[q].in /\ ~s.member[q].connected}}
                \ {None}
\* MUTANT of Arm: armed for the tick after the window.
ArmLate(s) ==
  [s EXCEPT !.timer =
     IF Windows(s) = {} THEN None
     ELSE (CHOOSE w \in Windows(s) : \A v \in Windows(s) : w <= v) + 1]

\* armReclaimExpiry: for the earliest window of a disconnected panel.
Arm(s) ==
  [s EXCEPT !.timer =
     IF Windows(s) = {} THEN None ELSE CHOOSE w \in Windows(s) : \A v \in Windows(s) : w <= v]

NoReclaim(s) == [s EXCEPT !.owner = None, !.left = None]
Demoted(s, p) == [s EXCEPT !.member[p].role = "spectator", !.member[p].left = None]

\* MUTANT of BecomeController: the panel that was in control stays controller.
BecomeControllerToo(s, p) ==
  [s EXCEPT !.member[p].role = "controller", !.member[p].left = None, !.controller = p]

\* becomeController, after the panel that is in control has been demoted.
BecomeController(s, p) ==
  LET prior == IF s.controller = None THEN s ELSE Demoted(s, s.controller)
  IN [prior EXCEPT !.member[p].role = "controller", !.member[p].left = None,
                   !.controller = p]

\* MUTANT of Add: a panel that has lost its window joins like any other.
AddForgiven(s, p) ==
  LET drives == s.controller = None
  IN [s EXCEPT
       !.member[p] = [NoMember EXCEPT !.in = TRUE, !.connected = TRUE,
                                      !.role = IF drives THEN "controller" ELSE "spectator"],
       !.controller = IF drives THEN p ELSE @,
       !.expired = @ \ {p}]

\* addPanel: a panel that comes back after its window only watches.
Add(s, p) ==
  LET drives == p \notin s.expired /\ s.controller = None
  IN [s EXCEPT
       !.member[p] = [NoMember EXCEPT !.in = TRUE, !.connected = TRUE,
                                      !.role = IF drives THEN "controller" ELSE "spectator"],
       !.controller = IF drives THEN p ELSE @,
       !.expired = @ \ {p}]

\* connectPanel.
Connect(s, p) ==
  Arm(IF s.member[p].in
      THEN [s EXCEPT !.member[p].connected = TRUE, !.member[p].left = None]
      ELSE Add(s, p))

\* reserveConnection.
Reserve(s, p) ==
  LET c == IF s.member[p].in
           THEN [s EXCEPT !.member[p].connected = TRUE, !.member[p].left = None]
           ELSE Add(s, p)
      g == c.member[p].next + 1
  IN Arm([c EXCEPT !.member[p].next = g, !.member[p].pending = g])

\* MUTANT of Disconnect: the timer is not armed.
DisconnectUntimed(s, p) ==
  IF s.member[p].role = "controller"
  THEN [s EXCEPT !.member[p].connected = FALSE, !.member[p].left = Window,
                 !.member[p].role = "spectator",
                 !.owner = p, !.left = Window,
                 !.controller = IF @ = p THEN None ELSE @]
  ELSE [s EXCEPT !.member[p].connected = FALSE, !.member[p].left = Window]

\* disconnectPanel: the panel in control may reclaim it for a while.
Disconnect(s, p) ==
  LET away == [s EXCEPT !.member[p].connected = FALSE, !.member[p].left = Window]
  IN Arm(IF s.member[p].role = "controller"
         THEN [away EXCEPT !.member[p].role = "spectator",
                           !.owner = p, !.left = Window,
                           !.controller = IF @ = p THEN None ELSE @]
         ELSE away)

\* MUTANT of Take: control is free while another panel may reclaim it.
TakeReserved(s, p) ==
  IF ~s.member[p].in \/ ~s.member[p].connected \/ s.controller = p
  THEN s
  ELSE NoReclaim(BecomeController(s, p))

\* takeControl.
Take(s, p) ==
  IF ~s.member[p].in \/ ~s.member[p].connected \/ s.controller = p
     \/ (s.owner # None /\ s.owner # p)
  THEN s
  ELSE NoReclaim(BecomeController(s, p))

\* reclaimControl of the session; the host's handler then takes control.
Reclaim(s, p) ==
  IF ~s.member[p].in \/ ~s.member[p].connected \/ s.owner # p THEN s
  ELSE IF s.controller # None
       THEN NoReclaim([s EXCEPT !.member[p].left = None])
       ELSE NoReclaim(BecomeController(s, p))

\* releaseControl.
GiveUp(s, p) ==
  IF s.member[p].role # "controller" THEN s
  ELSE NoReclaim([Demoted(s, p) EXCEPT !.controller = IF @ = p THEN None ELSE @])

\* closePanel.
Close(s, p) ==
  IF ~s.member[p].in THEN s
  ELSE LET c == IF s.member[p].role = "controller"
                THEN NoReclaim([s EXCEPT !.controller = IF @ = p THEN None ELSE @])
                ELSE IF s.owner = p THEN NoReclaim(s) ELSE s
       IN Arm([c EXCEPT !.member[p] = NoMember])

\* revoke: the profile stops, or its host disconnects.
Revoked(s) ==
  NoReclaim([s EXCEPT !.controller = None,
                      !.member = [p \in Panels |->
                        [s.member[p] EXCEPT !.role = "spectator", !.left = None]]])

\* isIdle.
Idle(s) == /\ \A p \in Panels : ~s.member[p].in
           /\ s.visible = {} /\ s.owner = None

\* acceptsGeneration, for a transport.
Accepts(s, t) ==
  LET m == s.member[transport[t].panel]
  IN transport[t].live /\ m.in /\ m.connected /\ m.auth = transport[t].gen

-----------------------------------------------------------------------------
(* Panels that only call the host *)

Now == Expire(session)
Rest == <<bound, transport, calls, releases>>

ConnectPanel(p) == session' = Connect(Now, p) /\ UNCHANGED <<Rest, idlers>>
TakeControl(p) == session' = Take(Now, p) /\ UNCHANGED <<Rest, idlers>>
ReclaimControl(p) == session' = Reclaim(Now, p) /\ UNCHANGED <<Rest, idlers>>
ReleaseControl(p) == session' = GiveUp(Now, p) /\ UNCHANGED <<Rest, idlers>>
RevokeSession == session' = Revoked(Now) /\ UNCHANGED <<Rest, idlers>>

ShowPanel(p) ==
  /\ Cardinality(session.visible) < MaxVisible
  /\ session' = [session EXCEPT !.visible = @ \cup {p}]
  /\ UNCHANGED <<Rest, idlers>>

\* releaseIfIdle up to its first await.
ReleaseIfIdle(s) ==
  idlers' = IF Idle(s) /\ idlers < MaxIdlers THEN idlers + 1 ELSE idlers

HidePanel(p) ==
  LET s == Expire([session EXCEPT !.visible = @ \ {p}])
  IN /\ session' = s
     /\ ReleaseIfIdle(s)
     /\ UNCHANGED Rest

Tick ==
  LET Passed(w) == IF w = None \/ w = 0 THEN w ELSE w - 1
  IN /\ session' = [session EXCEPT
            !.member = [p \in Panels |->
               [session.member[p] EXCEPT !.left = Passed(@)]],
            !.left = Passed(@), !.timer = Passed(@)]
     /\ session' # session
     /\ UNCHANGED <<Rest, idlers>>

\* onReclaimDeadline.
ReclaimDeadline ==
  LET s == Arm(Now)
  IN /\ session.timer = 0
     /\ session' = s
     /\ ReleaseIfIdle(s)
     /\ UNCHANGED Rest

-----------------------------------------------------------------------------
(* Transports *)

Stopping(T, ts) ==
  [t \in Transports |->
     IF t \in T /\ ts[t].phase = "listening" THEN [ts[t] EXCEPT !.phase = "stopping", !.cap = "spent"] ELSE ts[t]]
\* A stop of what has stopped already never settles: there is no server to close.
StopCall(by, p, t, B, S) ==
  [by |-> by, panel |-> p, of |-> t, bound |-> B, stopping |-> S, live |-> TRUE,
   hangs |-> \E u \in S : transport[u].phase = "stopped"]

\* openPanelTransport up to the first await of joinPanel, which stops the bound
\* transports of neither the authoritative nor the new generation.
Open(t, p) ==
  LET s == Reserve(Now, p)
      g == s.member[p].next
      obsolete == {u \in bound[p] : transport[u].gen \notin {g, s.member[p].auth}}
  IN /\ transport[t].phase = "unused"
     /\ session' = s
     /\ transport' = Stopping(obsolete, [transport EXCEPT ![t] =
          [panel |-> p, gen |-> g, authorized |-> FALSE, cap |-> "pending", live |-> TRUE,
           phase |-> IF obsolete = {} THEN "starting" ELSE "joining"]])
     /\ calls' = IF obsolete = {} THEN calls
                 ELSE calls \cup {StopCall("join", p, t, bound[p], obsolete)}
     /\ UNCHANGED <<bound, idlers, releases>>

\* start, bindTransport; the session may not be the registry's any more.
Listen(t) ==
  LET p == transport[t].panel
  IN /\ transport[t].phase = "starting"
     /\ transport' = [transport EXCEPT ![t].phase = "listening"]
     /\ bound' = IF transport[t].live THEN [bound EXCEPT ![p] = @ \cup {t}] ELSE bound
     /\ UNCHANGED <<session, calls, idlers, releases>>

\* The panel's socket redeems the capability; activate stops the transport of
\* the generation that is superseded.
Redeem(t) ==
  LET p == transport[t].panel
      m == Now.member[p]
      activates == transport[t].live /\ m.in /\ m.pending = transport[t].gen
                   /\ transport[t].gen > m.auth
      superseded == IF activates /\ m.auth # 0
                    THEN {u \in bound[p] : transport[u].gen = m.auth} ELSE {}
  IN /\ transport[t].phase = "listening" /\ transport[t].cap = "pending"
     /\ session' = IF activates
                   THEN [Now EXCEPT !.member[p].auth = transport[t].gen, !.member[p].pending = 0]
                   ELSE Now
     /\ transport' = Stopping(superseded,
          [transport EXCEPT ![t].authorized = TRUE, ![t].cap = "spent"])
     /\ calls' = IF superseded = {} THEN calls
                 ELSE calls \cup {StopCall("activate", p, t, bound[p], superseded)}
     /\ UNCHANGED <<bound, idlers, releases>>

\* handleDisconnect's callback: only the authoritative generation disconnects.
Disconnects(t) ==
  LET s == Now
      accepted == Accepts(s, t)
      after == IF accepted THEN Disconnect(s, transport[t].panel) ELSE s
  IN /\ session' = after
     /\ IF accepted THEN ReleaseIfIdle(after) ELSE UNCHANGED idlers

\* A socket closes.  Its gateway redeems nothing else.
SocketCloses(t) ==
  /\ transport[t].authorized /\ transport[t].phase = "listening"
  /\ transport' = [transport EXCEPT ![t].authorized = FALSE]
  /\ Disconnects(t)
  /\ UNCHANGED <<bound, calls, releases>>

\* The time to live of a capability.
CapabilityExpires(t) ==
  /\ transport[t].cap = "pending" /\ transport[t].phase = "listening"
  /\ transport' = [transport EXCEPT ![t].cap = "spent"]
  /\ UNCHANGED <<session, bound, calls, idlers, releases>>

\* stop: its socket closes, its server closes, its gateway closes.
Stop(t) ==
  /\ transport[t].phase = "stopping"
  /\ transport' = [transport EXCEPT ![t].phase = "stopped", ![t].authorized = FALSE]
  /\ IF transport[t].authorized THEN Disconnects(t) ELSE UNCHANGED <<session, idlers>>
  /\ UNCHANGED <<bound, calls, releases>>

-----------------------------------------------------------------------------
(* What awaits the stops *)

Settled(c) == ~c.hangs /\ \A t \in c.stopping : transport[t].phase = "stopped"

\* stopTransports after its await: `remaining` is of the list it began with.
Forgets(c) ==
  bound' = IF c.live THEN [bound EXCEPT ![c.panel] = c.bound \ c.stopping] ELSE bound

Joined(c) ==
  /\ c \in calls /\ c.by = "join" /\ Settled(c)
  /\ calls' = calls \ {c}
  /\ Forgets(c)
  /\ transport' = [transport EXCEPT ![c.of].phase = "starting"]
  /\ UNCHANGED <<session, idlers, releases>>

Activated(c) ==
  /\ c \in calls /\ c.by = "activate" /\ Settled(c)
  /\ calls' = calls \ {c}
  /\ Forgets(c)
  /\ UNCHANGED <<session, transport, idlers, releases>>

\* releasePanelTransport up to its first await.
Release(p) ==
  LET s == Close(Now, p)
  IN /\ releases < MaxReleases
     /\ releases' = releases + 1
     /\ session' = [s EXCEPT !.visible = @ \ {p}]
     /\ transport' = Stopping(bound[p], transport)
     /\ calls' = calls \cup {StopCall("release", p, None, bound[p], bound[p])}
     /\ UNCHANGED <<bound, idlers>>

\* The rest of it; the panel's latest gateway is closed, which revokes only a
\* capability that has been redeemed.
Released(c) ==
  /\ c \in calls /\ c.by = "release" /\ Settled(c)
  /\ calls' = calls \ {c}
  /\ Forgets(c)
  /\ session' = Now
  /\ ReleaseIfIdle(Now)
  /\ UNCHANGED <<transport, releases>>

\* releaseIfIdle after the release of the stream: stopAllTransports.
StopAll ==
  LET B == UNION {bound[p] : p \in Panels}
  IN /\ idlers > 0
     /\ idlers' = idlers - 1
     /\ bound' = [p \in Panels |-> {}]
     /\ transport' = Stopping(B, transport)
     /\ calls' = calls \cup {StopCall("idle", None, None, {}, B)}
     /\ UNCHANGED <<session, releases>>

\* dropIdle: looks again, and disposes of the session.
DropIdle(c) ==
  LET B == UNION {bound[p] : p \in Panels}
  IN /\ c \in calls /\ c.by = "idle" /\ Settled(c)
     /\ IF c.live /\ Idle(Now)
        THEN /\ session' = NewSession
             /\ bound' = [p \in Panels |-> {}]
             /\ transport' = Stopping(B, [t \in Transports |-> [transport[t] EXCEPT !.live = FALSE]])
             /\ calls' = {[d EXCEPT !.live = FALSE] : d \in calls \ {c}}
        ELSE /\ session' = Now
             /\ calls' = calls \ {c}
             /\ UNCHANGED <<bound, transport>>
     /\ UNCHANGED <<idlers, releases>>

-----------------------------------------------------------------------------
HostStep(t) == Listen(t) \/ Stop(t) \/ CapabilityExpires(t)
CallStep(c) == Joined(c) \/ Activated(c) \/ Released(c) \/ DropIdle(c)

Next ==
  \/ \E p \in Panels : \/ ConnectPanel(p) \/ TakeControl(p) \/ ReclaimControl(p)
                       \/ ReleaseControl(p) \/ ShowPanel(p) \/ HidePanel(p) \/ Release(p)
  \/ \E t \in Transports, p \in Streamers : Open(t, p)
  \/ \E t \in Transports : Redeem(t) \/ SocketCloses(t) \/ HostStep(t)
  \/ \E c \in calls : CallStep(c)
  \/ RevokeSession \/ Tick \/ ReclaimDeadline \/ StopAll

Spec == Init /\ [][Next]_vars

-----------------------------------------------------------------------------
(* Properties *)

\* Only one panel is in control, it is a connected member, and it knows: the
\* roles the panels are told and the controller the session checks agree
\* (panel-session.ts becomeController, addPanel, disconnectPanel, closePanel).
OneController ==
  /\ \A p \in Panels :
       session.member[p].role = "controller" <=> session.controller = p
  /\ session.controller # None =>
       /\ session.member[session.controller].in
       /\ session.member[session.controller].connected

\* The window of a panel that went away is over in time although nobody calls:
\* the timer goes off when it ends or earlier (armReclaimExpiry).  A session
\* whose last panel went away would otherwise keep its stream for ever.
WindowsAreTimed ==
  \A w \in Windows(session) : session.timer # None /\ session.timer <= w

\* While the panel that lost its connection may still reclaim control, no other
\* member takes it (takeControl, reclaimControl, releaseControl); one that joins
\* anew may be given it (addPanel).
ReclaimIsKept ==
  [][LET p == session'.controller
     IN p \notin {None, session.controller} /\ Now.owner # None
        => p = Now.owner \/ ~Now.member[p].in]_vars

\* A panel that comes back after its window only watches until it takes control
\* as a member (addPanel, expireReclaim): whether it expired by the timer or by
\* its own call.
LateReturnWatches ==
  [][LET p == session'.controller
     IN p \notin {None, session.controller} /\ p \in Now.expired => Now.member[p].in]_vars
=============================================================================
