------------------------------ MODULE SafeLogin ------------------------------
(***************************************************************************)
(* Safe Login Mode, src/src/browser/safe-login.ts: an owner takes one       *)
(* profile out of automation for a bounded time to sign in by hand.  The    *)
(* state of profiles is independent, so one profile is modelled.            *)
(*                                                                         *)
(* enter and the exits await effects of their caller (interrupting agents,  *)
(* relaunching the browser, returning it to automation), so calls overlap   *)
(* at these awaits.  A restart of the worker loses everything but the       *)
(* intent in the durable store.                                             *)
(*                                                                         *)
(* Time is counted in ticks, as what is left of a lease and of a timer.  A  *)
(* timer fires at any time once nothing is left of it.  What an effect does *)
(* to the browser, Activity Records and expiry warnings are left out.       *)
(***************************************************************************)
EXTENDS Naturals

CONSTANTS
  Sessions,      \* calls of enter, with the session each creates
  Exits,         \* exits that can be under way at a time
  Panels,        \* owner panels of the profile (SafeLoginPanelBinding)
  Lease,         \* leaseMs, in ticks
  MaxExtension,  \* maxExtensionMs
  MaxTotal,      \* maxTotalMs
  MaxRestarts,   \* bound on worker restarts
  None

ASSUME LeaseAssumption ==
  /\ Lease \in Nat \ {0} /\ MaxExtension \in Nat /\ MaxTotal \in Nat
  /\ Lease <= MaxTotal /\ MaxRestarts \in Nat
ASSUME NoneAssumption == None \notin Sessions \cup Panels

VARIABLES
  mode,        \* "automation" or "safe-login"
  transition,  \* "idle", "entering" or "exiting"
  intent,      \* the intent in memory
  stored,      \* the intent in the durable store
  session,     \* the active session
  entry,       \* per call of enter: how far it is, and its ActiveSession
  held,        \* relaunchBySession: sessions whose effects are retained
  exit,        \* per exit: how far it is, and the session it was called for
  reconciling, \* a reconcile awaits its return to automation
  disposed,
  restarts,
  overlapped   \* history: a transition was under way when an exit or a
               \* reconcile was asked for

vars == <<mode, transition, intent, stored, session, entry, held, exit,
          reconciling, disposed, restarts, overlapped>>

Intents == {"none", "entering", "exiting"}
EntryRecord ==
  [pc: {"unused", "interrupting", "relaunching", "entered", "over"},
   panel: Panels \cup {None},
   joined: BOOLEAN,              \* its panel is in initiatingPanels
   left: 0..MaxTotal,            \* until expiresAt
   total: 0..MaxTotal,           \* expiresAt - startedAt
   timers: SUBSET (0..MaxTotal)] \* expiry timers, until they are due
ExitRecord ==
  [pc: {"idle", "consuming", "returning"},
   session: Sessions \cup {None},
   expired: BOOLEAN]             \* the action recorded for it

TypeOK ==
  /\ mode \in {"automation", "safe-login"}
  /\ transition \in {"idle", "entering", "exiting"}
  /\ intent \in Intents /\ stored \in Intents
  /\ session \in Sessions \cup {None}
  /\ entry \in [Sessions -> EntryRecord]
  /\ held \subseteq Sessions
  /\ exit \in [Exits -> ExitRecord]
  /\ reconciling \in BOOLEAN
  /\ disposed \in BOOLEAN
  /\ restarts \in 0..MaxRestarts
  /\ overlapped \in BOOLEAN

NoEntry == [pc |-> "unused", panel |-> None, joined |-> FALSE, left |-> 0,
            total |-> 0, timers |-> {}]
NoExit == [pc |-> "idle", session |-> None, expired |-> FALSE]

Init ==
  /\ mode = "automation" /\ transition = "idle"
  /\ intent = "none" /\ stored = "none"
  /\ session = None
  /\ entry = [s \in Sessions |-> NoEntry]
  /\ held = {}
  /\ exit = [e \in Exits |-> NoExit]
  /\ reconciling = FALSE
  /\ disposed = FALSE /\ restarts = 0 /\ overlapped = FALSE

-----------------------------------------------------------------------------
(* enter *)

\* setIntent mirrors the intent to the durable store.
SetIntent(i) == intent' = i /\ stored' = i
\* The entries once the active session is dropped: only its timers are left.
Dropped(en) ==
  IF session = None THEN en
  ELSE [en EXCEPT ![session] = [NoEntry EXCEPT !.pc = "over", !.timers = en[session].timers]]

Unused == {s \in Sessions : entry[s].pc = "unused"}
Enter(b) ==
  LET s == CHOOSE u \in Unused : TRUE IN
  /\ Unused # {}
  /\ ~disposed /\ mode # "safe-login" /\ transition = "idle"
  /\ transition' = "entering"
  /\ SetIntent("entering")
  /\ entry' = [entry EXCEPT ![s] = [NoEntry EXCEPT !.pc = "interrupting",
                  !.panel = b, !.left = Lease, !.total = Lease]]
  /\ UNCHANGED <<mode, session, held, exit, reconciling, disposed,
                 restarts, overlapped>>

\* interruptAgents has resolved.
AgentsInterrupted(s) ==
  /\ entry[s].pc = "interrupting"
  /\ entry' = [entry EXCEPT ![s].pc = "relaunching"]
  /\ UNCHANGED <<mode, transition, intent, stored, session, held, exit,
                 reconciling, disposed, restarts, overlapped>>

\* One of the effects has rejected: back to Automation Mode.
EnterFails(s) ==
  /\ entry[s].pc \in {"interrupting", "relaunching"}
  /\ entry' = [entry EXCEPT ![s] = [NoEntry EXCEPT !.pc = "over"]]
  /\ transition' = "idle"
  /\ SetIntent("none")
  /\ mode' = "automation"
  /\ UNCHANGED <<session, held, exit, reconciling, disposed,
                 restarts, overlapped>>

\* relaunchWithoutAutomation has resolved: the session begins.
Entered(s) ==
  /\ entry[s].pc = "relaunching"
  /\ entry' = [Dropped(entry) EXCEPT ![s].pc = "entered", ![s].joined = TRUE,
                                     ![s].timers = {entry[s].left}]
  /\ session' = s
  /\ held' = held \cup {s}
  /\ transition' = "idle"
  /\ SetIntent("none")
  /\ mode' = "safe-login"
  /\ UNCHANGED <<exit, reconciling, disposed,
                 restarts, overlapped>>

-----------------------------------------------------------------------------
(* extend, joinPanel *)

\* MUTANT of Extend: the timer of the old expiry stays armed.
ExtendKeepingTimer(s, n) ==
  /\ ~disposed /\ session = s
  /\ mode = "safe-login" /\ transition = "idle"
  /\ entry[s].total + n <= MaxTotal
  /\ entry' = [entry EXCEPT ![s].left = @ + n, ![s].total = @ + n,
                            ![s].timers = @ \cup {entry[s].left + n}]
  /\ UNCHANGED <<mode, transition, intent, stored, session, held, exit,
                 reconciling, disposed, restarts, overlapped>>

\* MUTANT of Extend: the bound is on the extension alone, not on the total.
ExtendUnbounded(s, n) ==
  /\ ~disposed /\ session = s
  /\ mode = "safe-login" /\ transition = "idle"
  /\ entry' = [entry EXCEPT ![s].left = @ + n, ![s].total = @ + n,
                            ![s].timers = {entry[s].left + n}]
  /\ UNCHANGED <<mode, transition, intent, stored, session, held, exit,
                 reconciling, disposed, restarts, overlapped>>

\* extend by n of the bounded values (the caller checks 0 < n <= MaxExtension).
Extend(s, n) ==
  /\ ~disposed /\ session = s
  /\ mode = "safe-login" /\ transition = "idle"
  /\ entry[s].total + n <= MaxTotal
  /\ entry' = [entry EXCEPT ![s].left = @ + n, ![s].total = @ + n,
                            ![s].timers = {entry[s].left + n}]
  /\ UNCHANGED <<mode, transition, intent, stored, session, held, exit,
                 reconciling, disposed, restarts, overlapped>>

\* joinPanel by the initiating panel; other panels are turned away.
JoinPanel(b) ==
  /\ ~disposed /\ session # None
  /\ entry[session].panel = b
  /\ entry' = [entry EXCEPT ![session].joined = TRUE]
  /\ UNCHANGED <<mode, transition, intent, stored, session, held, exit,
                 reconciling, disposed, restarts, overlapped>>

-----------------------------------------------------------------------------
(* The exits *)

Free == {e \in Exits : exit[e].pc = "idle"}
FreeExit == CHOOSE e \in Free : TRUE

Overlaps(e) == \E d \in Exits \ {e} : exit[d].pc # "idle"
Relaunching == \E s \in Sessions : entry[s].pc \in {"interrupting", "relaunching"}
Returning == \E e \in Exits : exit[e].pc = "returning"
InTransition == Relaunching \/ \E e \in Exits : exit[e].pc # "idle"

\* MUTANT of ExitSession: the relaunch effects stay retained.
ExitSessionRetaining(e, s) ==
  /\ transition' = "exiting"
  /\ SetIntent("exiting")
  /\ held' = held
  /\ overlapped' = (overlapped \/ Overlaps(e))

\* MUTANT of ExitSession: no intent is persisted.
ExitSessionUnrecorded(e, s) ==
  /\ transition' = "exiting"
  /\ UNCHANGED <<intent, stored>>
  /\ held' = held \ {s}
  /\ overlapped' = (overlapped \/ Overlaps(e))

\* exitSession for s and runExit up to its await, but for the timers: runExit
\* clears those of the active session, whichever it is by now.
ExitSession(e, s) ==
  /\ transition' = "exiting"
  /\ SetIntent("exiting")
  /\ held' = held \ {s}
  /\ overlapped' = (overlapped \/ Overlaps(e))
TimersCleared(en) ==
  IF session = None THEN en ELSE [en EXCEPT ![session].timers = {}]

\* done by the owner.  It awaits consumeRelaunch, which other steps can precede.
Done(s) ==
  LET e == FreeExit IN
  /\ Free # {}
  /\ ~disposed /\ session = s /\ mode = "safe-login" /\ entry[s].joined
  /\ exit' = [exit EXCEPT ![e] = [pc |-> "consuming", session |-> s, expired |-> FALSE]]
  /\ overlapped' = (overlapped \/ Overlaps(e))
  /\ UNCHANGED <<mode, transition, intent, stored, session, entry, held,
                 reconciling, disposed, restarts>>

\* The exit of done begins; without retained effects it uses empty ones.
Consumed(e) ==
  /\ exit[e].pc = "consuming"
  /\ exit' = [exit EXCEPT ![e].pc = "returning"]
  /\ ExitSession(e, exit[e].session)
  /\ entry' = TimersCleared(entry)
  /\ UNCHANGED <<mode, session, reconciling, disposed, restarts>>

\* panelClosed: the exit begins when no initiating panel is left.
PanelClosed(b) ==
  LET e == FreeExit IN
  /\ Free # {}
  /\ ~disposed /\ session # None
  /\ entry[session].panel = b /\ entry[session].joined
  /\ exit' = [exit EXCEPT ![e] = [pc |-> "returning", session |-> session, expired |-> FALSE]]
  /\ ExitSession(e, session)
  /\ entry' = TimersCleared([entry EXCEPT ![session].joined = FALSE])
  /\ UNCHANGED <<mode, session, reconciling, disposed, restarts>>

\* MUTANT of ExpiryTimer: a lease that was extended is not ended.
ExpiryTimerOnce(s) ==
  LET e == FreeExit IN
  /\ 0 \in entry[s].timers
  /\ IF disposed \/ session # s \/ s \notin held \/ entry[s].total > Lease
     THEN /\ entry' = [entry EXCEPT ![s].timers = @ \ {0}]
          /\ UNCHANGED <<exit, transition, intent, stored, held, overlapped>>
     ELSE /\ Free # {}
          /\ exit' = [exit EXCEPT ![e] = [pc |-> "returning", session |-> s, expired |-> TRUE]]
          /\ ExitSession(e, s)
          /\ entry' = [entry EXCEPT ![s].timers = {}]
  /\ UNCHANGED <<mode, session, reconciling, disposed, restarts>>

\* The expiry timer fires: expire.  Its await is the first continuation to run
\* after the timer, so the exit begins in the same step.
ExpiryTimer(s) ==
  LET e == FreeExit IN
  /\ 0 \in entry[s].timers
  /\ IF disposed \/ session # s \/ s \notin held
     THEN /\ entry' = [entry EXCEPT ![s].timers = @ \ {0}]
          /\ UNCHANGED <<exit, transition, intent, stored, held, overlapped>>
     ELSE /\ Free # {}
          /\ exit' = [exit EXCEPT ![e] = [pc |-> "returning", session |-> s, expired |-> TRUE]]
          /\ ExitSession(e, s)
          /\ entry' = [entry EXCEPT ![s].timers = {}]
  /\ UNCHANGED <<mode, session, reconciling, disposed, restarts>>

\* returnToAutomation has settled, well or not: the profile is in Automation
\* Mode, whatever session it has by now.
Exited(e) ==
  /\ exit[e].pc = "returning"
  /\ exit' = [exit EXCEPT ![e] = NoExit]
  /\ session' = None
  /\ SetIntent("none")
  /\ transition' = "idle"
  /\ mode' = "automation"
  /\ entry' = Dropped(entry)
  /\ UNCHANGED <<held, reconciling, disposed, restarts, overlapped>>

-----------------------------------------------------------------------------
(* Restart, reconciliation, shutdown, time *)

\* The worker stops at any time; a new one loads the stored intent.
Restart ==
  /\ restarts < MaxRestarts
  /\ restarts' = restarts + 1
  /\ mode' = "automation" /\ transition' = "idle"
  /\ intent' = stored
  /\ session' = None
  /\ entry' = [s \in Sessions |-> IF entry[s].pc = "unused" THEN NoEntry
                                  ELSE [NoEntry EXCEPT !.pc = "over"]]
  /\ held' = {}
  /\ exit' = [e \in Exits |-> NoExit]
  /\ reconciling' = FALSE /\ disposed' = FALSE /\ overlapped' = FALSE
  /\ UNCHANGED stored

\* MUTANT of Reconcile: the effects of the session it drops stay retained.
ReconcileRetaining ==
  /\ ~disposed
  /\ session' = None /\ transition' = "idle" /\ mode' = "automation"
  /\ SetIntent("none")
  /\ entry' = Dropped(TimersCleared(entry))
  /\ overlapped' = (overlapped \/ InTransition)
  /\ reconciling' \in {reconciling, TRUE}
  /\ UNCHANGED <<held, exit, disposed, restarts>>

\* reconcile, up to the return to automation it awaits if it was given the
\* effects.  Nothing ties it to a restart: it acts on whatever state the profile
\* is in, a live session or a transition under way, and also once disposed, when
\* that is a fresh state.
Reconcile ==
  /\ IF disposed
     THEN /\ stored' = "none"
          /\ UNCHANGED <<mode, transition, intent, session, entry, held, overlapped>>
     ELSE /\ session' = None /\ transition' = "idle" /\ mode' = "automation"
          /\ SetIntent("none")
          /\ held' = held \ {session}
          /\ entry' = Dropped(TimersCleared(entry))
          /\ overlapped' = (overlapped \/ InTransition)
  /\ reconciling' \in {reconciling, TRUE}
  /\ UNCHANGED <<exit, disposed, restarts>>

\* Its returnToAutomation has settled, well or not.
Reconciled ==
  /\ reconciling
  /\ reconciling' = FALSE
  /\ UNCHANGED <<mode, transition, intent, stored, session, entry, held, exit,
                 disposed, restarts, overlapped>>

\* dispose; calls under way go on with the state it has dropped.
Dispose ==
  /\ ~disposed
  /\ disposed' = TRUE
  /\ entry' = TimersCleared(entry)
  /\ held' = {}
  /\ UNCHANGED <<mode, transition, intent, stored, session, exit, reconciling,
                 restarts, overlapped>>

Tick ==
  /\ \E s \in Sessions : entry[s].left > 0
  /\ entry' = [s \in Sessions |->
       [entry[s] EXCEPT !.left = IF @ = 0 THEN 0 ELSE @ - 1,
                        !.timers = {IF t = 0 THEN 0 ELSE t - 1 : t \in @}]]
  /\ UNCHANGED <<mode, transition, intent, stored, session, held, exit,
                 reconciling, disposed, restarts, overlapped>>

-----------------------------------------------------------------------------

Next ==
  \/ \E s \in Sessions : \/ AgentsInterrupted(s) \/ EnterFails(s) \/ Entered(s)
                         \/ Done(s) \/ ExpiryTimer(s)
  \/ \E s \in Sessions, n \in 1..MaxExtension : Extend(s, n)
  \/ \E b \in Panels : Enter(b) \/ JoinPanel(b) \/ PanelClosed(b)
  \/ \E e \in Exits : Consumed(e) \/ Exited(e)
  \/ Restart \/ Reconcile \/ Reconciled \/ Dispose \/ Tick

Spec == Init /\ [][Next]_vars

\* Time passes, due timers fire, awaits of settled promises resume, and the
\* effects that return the profile to automation settle.
Fairness ==
  /\ WF_vars(Tick)
  /\ \A s \in Sessions : WF_vars(ExpiryTimer(s))
  /\ \A e \in Exits : WF_vars(Consumed(e)) /\ WF_vars(Exited(e))
FairSpec == Spec /\ Fairness

-----------------------------------------------------------------------------
(* Properties *)

\* A live session is never without the timer that ends it, set for its current
\* expiry, unless an exit is already under way: extensions, rejoined panels and
\* exits that overlap cannot leave a profile in Safe Login for ever.
LiveSessionsAreTimed ==
  session # None /\ ~disposed =>
    \/ entry[session].timers = {entry[session].left}
    \/ \E e \in Exits : exit[e].pc = "returning"

\* No lease is cut short by its timer: an exit recorded as expired begins only
\* when nothing is left of the lease, whatever extensions came before.
ExpiryIsNeverEarly ==
  [][\A e \in Exits :
       exit[e].pc = "idle" /\ exit'[e].pc = "returning" /\ exit'[e].expired
       => entry[exit'[e].session].left = 0]_vars

\* Every Safe Login ends, if only by its lease (dispose drops the session).
SessionsEnd == \A s \in Sessions : session = s ~> session # s \/ disposed

\* While a panel may see the profile's pixels, agents are denied it, and the
\* effects of a session that is over are released, also by a reconcile of a live
\* session; as long as transitions do not overlap.  They do if a second exit of
\* a session is asked for while the first is returning, and if a reconcile
\* resets the profile under an enter or an exit that then goes on.
SoundUnlessTransitionsOverlap ==
  ~overlapped /\ ~disposed => /\ (session # None <=> mode = "safe-login")
                              /\ (session = None => held = {})

\* Whenever an enter or an exit is relaunching the browser or returning it, the
\* durable store says so, and a worker restarted at that moment finds an intent
\* to reconcile; as long as transitions do not overlap.  The return of the
\* browser by reconcile itself is not on record.
TransitionsAreOnRecord ==
  ~overlapped /\ ~disposed =>
    (Relaunching \/ Returning => stored # "none")

\* "Every exit path (Done, final panel close, and expiry) releases its effects,
\* so this is 0 whenever no live Safe Login session holds the profile"
\* (safe-login.ts:909-912).
EffectsAreReleased == session = None /\ ~disposed => held = {}
=============================================================================
