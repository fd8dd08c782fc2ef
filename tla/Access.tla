------------------------------- MODULE Access -------------------------------
(***************************************************************************)
(* Profile Grants and Grant Requests (authorization.ts, grant-requests.ts) and *)
(* the plugin server around them (browser-service.ts): agent scripts that are *)
(* authorized and run on the host, the owner's administration of grants, the  *)
(* lifecycle of the profile and of the deleted, and the queue that serializes *)
(* them (withGrantStateSerialization).  One project and one profile of a host. *)
(*                                                                         *)
(* Destinations are a site of the web and a raw localhost origin, which the    *)
(* whole web does not cover.  Elevations and subdomain scopes are left out.    *)
(* A grant that is revoked and a request that is denied, expired or revoked    *)
(* authorize nothing any more and are None here; what the history of them is    *)
(* shown for is left out.  The queue is a lock: who is next is not modelled.    *)
(* The epochs of the profile and the generations of the project are compared   *)
(* with what a call has seen; here a call holds whether they have changed.     *)
(***************************************************************************)
EXTENDS Naturals, FiniteSets

CONSTANTS Scripts, Grants, Requests,
          OwnerScopes,    \* bound: the scopes that the owner grants
          None

ASSUME ScopesAssumption == OwnerScopes \subseteq {"web", "local", "*"}
ASSUME IdsAssumption == Grants \cap Requests = {} /\ None \notin Grants \cup Requests

VARIABLES
  grants,    \* stored and not revoked, by id
  requests,  \* latest event of those that still matter, by id
  policy,    \* Default Access withdrawn, Origin Auto-Approval enabled
  deleted,   \* the tombstone of browser_profile_grant_projects
  profile,   \* the host's word on it: its state, an expiry not yet synchronized
  server,    \* memory: inactivity of the profile, a restore to be noted
  held,      \* the operation that holds the queue while it awaits the host
  scripts,   \* agent calls
  owner      \* the owner's call that awaits an inventory or its turn

vars == <<grants, requests, policy, deleted, profile, server, held, scripts, owner>>
stored == <<grants, requests, policy>>

Origins == {"web", "local"}
Scopes == Origins \cup {"*"}
States == {"active", "archived", "deleted"}
Grant == [scope: Scopes, lapsed: BOOLEAN]
Request == [status: {"pending", "approved", "consumed"}, origin: Origins,
            mode: {"none", "retry", "one-hour", "persist"}, due: BOOLEAN,
            grant: Grants \cup {None}]
ASSUME NoneAssumption == None \notin Grant /\ None \notin Request
Script == [pc: {"idle", "asked", "queued", "authorized", "running", "enriching"},
           origin: Origins, seen: BOOLEAN, current: BOOLEAN,
           by: Grants \cup Requests \cup {None}, aborted: BOOLEAN]
OwnerCall == [pc: {"idle", "asked", "queued"}, op: {"create", "decide"},
              scope: Scopes, request: Requests \cup {None},
              decision: {"none", "retry", "one-hour", "persist"},
              seen: BOOLEAN, current: BOOLEAN, known: BOOLEAN]

TypeOK ==
  /\ grants \in [Grants -> Grant \cup {None}]
  /\ requests \in [Requests -> Request \cup {None}]
  /\ policy \in [withdrawn: BOOLEAN, auto: BOOLEAN]
  /\ deleted \in BOOLEAN
  /\ profile \in [state: States, expiry: BOOLEAN]
  /\ server \in [inactive: BOOLEAN, restoring: BOOLEAN]
  /\ held \in [kind: {"archive", "delete", "archiveUnsaved", "deleteUnused"},
               done: BOOLEAN] \cup {None}
  /\ scripts \in [Scripts -> Script]
  /\ owner \in OwnerCall

Idle == [pc |-> "idle", origin |-> "web", seen |-> TRUE, current |-> FALSE,
         by |-> None, aborted |-> FALSE]
OwnerIdle == [pc |-> "idle", op |-> "create", scope |-> "*", request |-> None,
              decision |-> "none", seen |-> TRUE, current |-> FALSE, known |-> FALSE]

Init ==
  /\ grants = [g \in Grants |-> None] /\ requests = [r \in Requests |-> None]
  /\ policy = [withdrawn |-> FALSE, auto |-> TRUE]
  /\ deleted = FALSE
  /\ profile = [state |-> "active", expiry |-> FALSE]
  /\ server = [inactive |-> FALSE, restoring |-> FALSE]
  /\ held = None
  /\ scripts = [s \in Scripts |-> Idle]
  /\ owner = OwnerIdle

-----------------------------------------------------------------------------
(* The stores *)

Active == {g \in Grants : grants[g] # None}
Live == {r \in Requests : requests[r] # None}
\* An id is taken again when nothing names it.
FreeGrants == {g \in Grants \ Active : \A s \in Scripts : scripts[s].by # g}
FreeOf(reqs) == {r \in Requests : reqs[r] = None /\ owner.request # r
                                    /\ \A s \in Scripts : scripts[s].by # r}

\* matcherPermitsOrigin: the whole web leaves raw localhost out.
Covers(scope, o) == scope = o \/ (scope = "*" /\ o = "web")

\* abortGrantCalls, for the calls that the host has not answered.
Abort(S) ==
  [s \in Scripts |->
     IF scripts[s].pc = "running" /\ scripts[s].by \in S
     THEN [scripts[s] EXCEPT !.aborted = TRUE] ELSE scripts[s]]

\* expireRowsAt: requests nobody decided, approvals whose time is over.
Due == {r \in Live : requests[r].due}
Without(D) == [r \in Requests |-> IF r \in D THEN None ELSE requests[r]]

\* insertGrant: refused for a deleted project; the whole web restores Default
\* Access.
Insertable == ~deleted
Row(scope) == [scope |-> scope, lapsed |-> FALSE]
Policy(scope) == IF scope = "*" THEN [policy EXCEPT !.withdrawn = FALSE] ELSE policy

Covering(o) == {g \in Active : Covers(grants[g].scope, o)}
Permitted(o) == {g \in Covering(o) : ~grants[g].lapsed}
\* The broadest of them; which one of several alike is the order they are stored in.
Broadest(G) ==
  LET whole == {g \in G : grants[g].scope = "*"} IN IF whole = {} THEN G ELSE whole

\* defaultAccessGrant.
DefaultAccess(o) ==
  /\ Covering(o) = {} /\ \A g \in Active : grants[g].scope # "*"
  /\ ~policy.withdrawn /\ Insertable

\* MUTANT of AutoApproves: the owner's withdrawal is ignored.
AutoApprovesAnyway ==
  /\ policy.auto /\ Insertable
  /\ \A g \in Active : ~grants[g].lapsed

\* originAutoApprovalGrant.
AutoApproves ==
  /\ policy.auto /\ ~policy.withdrawn /\ Insertable
  /\ \A g \in Active : ~grants[g].lapsed

Outcome(G, R, D, B) == [grants |-> G, requests |-> R, ended |-> D, by |-> B]

\* authorize of the request store: an approval that still holds, or a new request.
FromRequests(o, G) ==
  LET R == Without(Due)
      approved == {r \in Requests : /\ R[r] # None /\ R[r].status = "approved"
                                    /\ R[r].mode # "persist" /\ R[r].origin = o}
  IN IF approved # {}
     THEN {Outcome(G, IF R[r].mode = "retry" THEN [R EXCEPT ![r].status = "consumed"] ELSE R,
                   Due, r) : r \in approved}
     ELSE {Outcome(G, [R EXCEPT ![r] = [status |-> "pending", origin |-> o, mode |-> "none",
                                        due |-> FALSE, grant |-> None]], Due, None) :
             r \in FreeOf(R)}

\* MUTANT of AutoApproved: the decision is not one that the history knows.
AutoApprovedAs(o, G) ==
  {Outcome([G EXCEPT ![g] = Row(o)],
           [requests EXCEPT ![r] = [status |-> "approved", origin |-> o, mode |-> "auto",
                                    due |-> FALSE, grant |-> g]], {}, g) :
     g \in {h \in FreeGrants : G[h] = None}, r \in FreeOf(requests)}

\* autoApprove: a request that is approved at once with a grant for the origin.
AutoApproved(o, G) ==
  {Outcome([G EXCEPT ![g] = Row(o)],
           [requests EXCEPT ![r] = [status |-> "approved", origin |-> o, mode |-> "persist",
                                    due |-> FALSE, grant |-> g]], {}, g) :
     g \in {h \in FreeGrants : G[h] = None}, r \in FreeOf(requests)}

\* authorizeStoredRequest: what it may come to.
Authorizations(o) ==
  LET Default(g) == [grants EXCEPT ![g] = Row("*")]
      Further(G) == IF AutoApproves THEN AutoApproved(o, G) ELSE FromRequests(o, G)
  IN IF Permitted(o) # {}
     THEN {Outcome(grants, requests, {}, g) : g \in Broadest(Permitted(o))}
     ELSE IF ~DefaultAccess(o) THEN Further(grants)
     ELSE IF o = "web" THEN {Outcome(Default(g), requests, {}, g) : g \in FreeGrants}
     ELSE UNION {Further(Default(g)) : g \in FreeGrants}

-----------------------------------------------------------------------------
(* Agent scripts *)

Others == <<policy, deleted, profile, server, held, owner>>
\* profileAuthorityIsCurrent, for the snapshot of a call.
Current(call) == call.current /\ ~server.inactive
Outdated(S) == [s \in Scripts |-> [S[s] EXCEPT !.current = FALSE]]
\* revokeProfile and revokeProject with the events of the requests: of the one
\* project and profile here, everything goes.
RevokeAll ==
  /\ grants' = [g \in Grants |-> None]
  /\ requests' = [r \in Requests |-> None]
Everything == Grants \cup Requests

\* authorizeAgentScript up to the host's answer.
Ask(s, o) ==
  /\ scripts[s].pc = "idle"
  /\ scripts' = [scripts EXCEPT ![s].pc = "asked", ![s].origin = o, ![s].seen = profile.state = "active"]
  /\ UNCHANGED <<stored, deleted, profile, server, held, owner>>

\* The answer; an archived or missing profile loses its grants at once.
Answered(s) ==
  /\ scripts[s].pc = "asked"
  /\ IF scripts[s].seen
     THEN /\ scripts' = [scripts EXCEPT ![s].pc = "queued", ![s].current = TRUE]
          /\ UNCHANGED <<grants, requests>>
     ELSE RevokeAll /\ scripts' = [Abort(Everything) EXCEPT ![s] = Idle]
  /\ UNCHANGED Others

\* MUTANT of Authorize: the lifecycle is not looked at again.
AuthorizeUnchecked(s) ==
  /\ scripts[s].pc = "queued" /\ held = None
  /\ \E a \in Authorizations(scripts[s].origin) :
          /\ grants' = a.grants /\ requests' = a.requests
          /\ scripts' = [Abort(a.ended) EXCEPT ![s] =
               IF a.by = None THEN Idle ELSE [Idle EXCEPT !.pc = "authorized", !.by = a.by]]
  /\ UNCHANGED Others

Authorize(s) ==
  /\ scripts[s].pc = "queued" /\ held = None
  /\ IF ~Current(scripts[s])
     THEN scripts' = [scripts EXCEPT ![s] = Idle] /\ UNCHANGED <<grants, requests>>
     ELSE \E a \in Authorizations(scripts[s].origin) :
          /\ grants' = a.grants /\ requests' = a.requests
          /\ scripts' = [Abort(a.ended) EXCEPT ![s] =
               IF a.by = None THEN Idle ELSE [Idle EXCEPT !.pc = "authorized", !.by = a.by]]
  /\ UNCHANGED Others

\* MUTANT of Begin: the grant is not inspected again.
BeginUnchecked(s) ==
  /\ scripts[s].pc = "authorized"
  /\ scripts' = [scripts EXCEPT ![s].pc = "running"]
  /\ UNCHANGED <<stored, deleted, profile, server, held, owner>>

\* runAuthorizedAgentScript: tracked, inspected again, and sent to the host.
\* inspectTemporaryGrant expires what is due.
Begin(s) ==
  LET b == scripts[s].by
      D == IF b \in Requests THEN Due ELSE {}
      holds == b \in Active \/ b \in Live \ D
  IN /\ scripts[s].pc = "authorized"
     /\ requests' = Without(D)
     /\ scripts' = [Abort(D) EXCEPT ![s] =
                      IF holds THEN [scripts[s] EXCEPT !.pc = "running"] ELSE Idle]
     /\ UNCHANGED <<grants, Others>>

\* The host's answer: the script went to an origin its scope does not cover.  What
\* is revoked from here on does not change the answer.
HostDenies(s, o) ==
  /\ scripts[s].pc = "running" /\ ~scripts[s].aborted
  /\ scripts' = [scripts EXCEPT ![s] = [Idle EXCEPT !.pc = "enriching", !.origin = o]]
  /\ UNCHANGED <<stored, deleted, profile, server, held, owner>>

\* enrichRealBrowserDenial: authorizes that origin, for a request to show.
Enrich(s) ==
  /\ scripts[s].pc = "enriching" /\ held = None
  /\ \E a \in Authorizations(scripts[s].origin) :
       /\ grants' = a.grants /\ requests' = a.requests
       /\ scripts' = [Abort(a.ended) EXCEPT ![s] = Idle]
  /\ UNCHANGED Others

\* The call ends: an answer, an error, its signal.
Finish(s) ==
  /\ scripts[s].pc = "running"
  /\ scripts' = [scripts EXCEPT ![s] = Idle]
  /\ UNCHANGED <<stored, deleted, profile, server, held, owner>>

\* MUTANT of ExpireRun: an approval that has been used is left alone.
ExpireRunUnused(s) ==
  LET b == scripts[s].by
  IN /\ scripts[s].pc = "running" /\ held = None
     /\ b \in Due /\ requests[b].status = "approved"
     /\ requests' = Without({b})
     /\ scripts' = Abort({b})
     /\ UNCHANGED <<grants, Others>>

\* The timer of a script that runs by a temporary grant.
ExpireRun(s) ==
  LET b == scripts[s].by
  IN /\ scripts[s].pc = "running" /\ held = None
     /\ b \in Due
     /\ requests' = Without({b})
     /\ scripts' = Abort({b})
     /\ UNCHANGED <<grants, Others>>

-----------------------------------------------------------------------------
(* The owner *)

\* createGrant up to the host's answer: the generation is read first.
CreateAsk(scope) ==
  /\ owner.pc = "idle"
  /\ owner' = [OwnerIdle EXCEPT !.pc = "asked", !.scope = scope, !.seen = profile.state = "active",
                                !.known = TRUE]
  /\ UNCHANGED <<stored, deleted, profile, server, held, scripts>>

\* decideGrantRequest up to the host's answer.
DecideAsk(r, d) ==
  /\ owner.pc = "idle" /\ r \in Live /\ requests[r].status = "pending"
  /\ requests' = Without({r} \cap Due)
  /\ owner' = IF r \in Due THEN owner
              ELSE [OwnerIdle EXCEPT !.pc = "asked", !.op = "decide", !.request = r,
                                     !.decision = d, !.seen = profile.state = "active"]
  /\ UNCHANGED <<grants, policy, deleted, profile, server, held, scripts>>

OwnerAnswered ==
  /\ owner.pc = "asked"
  /\ owner' = IF owner.seen
              THEN [owner EXCEPT !.pc = "queued", !.current = TRUE] ELSE OwnerIdle
  /\ UNCHANGED <<stored, deleted, profile, server, held, scripts>>

\* The rest of createGrant.
Create ==
  /\ owner.pc = "queued" /\ owner.op = "create" /\ held = None
  /\ owner' = OwnerIdle
  /\ IF Current(owner) /\ owner.known /\ Insertable
     THEN \E g \in FreeGrants : /\ grants' = [grants EXCEPT ![g] = Row(owner.scope)]
                                /\ policy' = Policy(owner.scope)
     ELSE UNCHANGED <<grants, policy>>
  /\ UNCHANGED <<requests, deleted, profile, server, held, scripts>>

\* MUTANT of Decide: nobody asks whether the project has been deleted.
DecideForDeleted ==
  LET r == owner.request
      R == Without(Due)
      Approved(g) == [R EXCEPT ![r].status = "approved", ![r].mode = owner.decision,
                               ![r].grant = g]
  IN /\ owner.pc = "queued" /\ owner.op = "decide" /\ held = None
     /\ owner' = OwnerIdle
     /\ IF ~Current(owner) THEN UNCHANGED <<grants, requests, scripts>>
        ELSE IF R[r] = None \/ R[r].status # "pending"
        THEN requests' = R /\ scripts' = Abort(Due) /\ UNCHANGED grants
        ELSE IF owner.decision = "persist"
        THEN \E g \in FreeGrants : /\ grants' = [grants EXCEPT ![g] = Row(R[r].origin)]
                                   /\ requests' = Approved(g) /\ scripts' = Abort(Due)
        ELSE requests' = Approved(None) /\ scripts' = Abort(Due) /\ UNCHANGED grants
     /\ UNCHANGED <<policy, deleted, profile, server, held>>

\* The rest of decideGrantRequest.  A grant that cannot be inserted undoes it all.
Decide ==
  LET r == owner.request
      R == Without(Due)
      Approved(g) == [R EXCEPT ![r].status = "approved", ![r].mode = owner.decision,
                               ![r].grant = g]
  IN /\ owner.pc = "queued" /\ owner.op = "decide" /\ held = None
     /\ owner' = OwnerIdle
     /\ IF ~Current(owner) \/ (owner.decision = "persist" /\ ~Insertable)
        THEN UNCHANGED <<grants, requests, scripts>>
        ELSE IF R[r] = None \/ R[r].status # "pending"
        THEN requests' = R /\ scripts' = Abort(Due) /\ UNCHANGED grants
        ELSE IF owner.decision = "persist"
        THEN \E g \in FreeGrants : /\ grants' = [grants EXCEPT ![g] = Row(R[r].origin)]
                                   /\ requests' = Approved(g) /\ scripts' = Abort(Due)
        ELSE requests' = Approved(None) /\ scripts' = Abort(Due) /\ UNCHANGED grants
     /\ UNCHANGED <<policy, deleted, profile, server, held>>

\* A denial needs no inventory.
Deny(r) ==
  /\ held = None /\ r \in Live /\ requests[r].status = "pending"
  /\ requests' = Without(Due \cup {r}) /\ scripts' = Abort(Due)
  /\ UNCHANGED <<grants, Others>>

\* MUTANT of RevokeGrant: the request it was approved by keeps its approval.
RevokeGrantOnly(g) ==
  /\ held = None /\ g \in Active
  /\ policy' = IF grants[g].scope = "*" THEN [policy EXCEPT !.withdrawn = TRUE] ELSE policy
  /\ grants' = [grants EXCEPT ![g] = None]
  /\ scripts' = Abort({g})
  /\ UNCHANGED <<requests, deleted, profile, server, held, owner>>

\* revokeGrant: the request it was approved by goes too, and with the whole web
\* Default Access.  The calls are aborted when its await of the queue returns,
\* which is before the next queued operation runs; a script that begins between
\* the two inspects its grant again (Begin).
RevokeGrant(g) ==
  /\ held = None /\ g \in Active
  /\ policy' = IF grants[g].scope = "*" THEN [policy EXCEPT !.withdrawn = TRUE] ELSE policy
  /\ grants' = [grants EXCEPT ![g] = None]
  /\ requests' = Without({r \in Live : requests[r].grant = g})
  /\ scripts' = Abort({g})
  /\ UNCHANGED <<deleted, profile, server, held, owner>>

\* revokeGrantRequest.
RevokeRequest(r) ==
  /\ held = None /\ r \in Live
  /\ LET g == requests[r].grant
     IN /\ grants' = IF g \in Active THEN [grants EXCEPT ![g] = None] ELSE grants
        /\ scripts' = Abort(Due \cup {r, g})
  /\ requests' = Without(Due \cup {r})
  /\ UNCHANGED Others

\* listRequests, which expires what is due, as do other reads of the requests.
ListRequests ==
  /\ Due # {}
  /\ requests' = Without(Due) /\ scripts' = Abort(Due)
  /\ UNCHANGED <<grants, Others>>

SetAutoApproval(enabled) ==
  /\ held = None /\ policy.auto # enabled
  /\ policy' = [policy EXCEPT !.auto = enabled]
  /\ UNCHANGED <<grants, requests, deleted, profile, server, held, scripts, owner>>

-----------------------------------------------------------------------------
(* The lifecycle of the profile and of the project *)

\* markProfileAuthorityInactive and revokeProfileAuthority.
Withdraw ==
  /\ server' = [server EXCEPT !.inactive = TRUE]
  /\ RevokeAll
  /\ scripts' = Outdated(Abort(Everything))
  /\ owner' = [owner EXCEPT !.current = FALSE]

\* runDestructiveProfileLifecycle: marked and revoked before the host is called.
\* (A reset is a deletion whose successor has another identity.)
BeginLifecycle(kind) ==
  /\ held = None /\ profile.state # "deleted"
  /\ held' = [kind |-> kind, done |-> FALSE]
  /\ Withdraw
  /\ UNCHANGED <<policy, deleted, profile>>

\* releaseThreadProfileOnHost, deleteUnusedProfile: the host is called first.
BeginUnused(kind) ==
  /\ held = None /\ profile.state = "active"
  /\ held' = [kind |-> kind, done |-> FALSE]
  /\ UNCHANGED <<stored, deleted, profile, server, scripts, owner>>

Archives == {"archive", "archiveUnsaved"}
\* The host archives or deletes the profile.
HostCommits ==
  /\ held # None /\ ~held.done
  /\ profile.state = "active" \/ (profile.state = "archived" /\ held.kind \notin Archives)
  /\ profile' = [profile EXCEPT !.state = IF held.kind \in Archives THEN "archived" ELSE "deleted"]
  /\ held' = [held EXCEPT !.done = TRUE]
  /\ UNCHANGED <<stored, deleted, server, scripts, owner>>

\* The host's answer, or an error of the call.
EndLifecycle ==
  /\ held # None
  /\ held' = None
  /\ IF held.done /\ held.kind \in {"archiveUnsaved", "deleteUnused"}
     THEN Withdraw
     ELSE UNCHANGED <<grants, requests, server, scripts, owner>>
  /\ UNCHANGED <<policy, deleted, profile>>

\* restoreArchivedProfile: the host first, the mark in its turn.
Restore ==
  /\ profile.state = "archived" /\ ~server.restoring
  /\ profile' = [profile EXCEPT !.state = "active"]
  /\ server' = [server EXCEPT !.restoring = TRUE]
  /\ UNCHANGED <<stored, deleted, held, scripts, owner>>

\* markProfileAuthorityActive.
MarkActive ==
  /\ server.restoring /\ held = None
  /\ server' = [inactive |-> FALSE, restoring |-> FALSE]
  /\ scripts' = Outdated(scripts) /\ owner' = [owner EXCEPT !.current = FALSE]
  /\ UNCHANGED <<stored, deleted, profile, held>>

\* The host deletes an archived profile whose time is over, and an activity
\* event tells the server at the next synchronization, in no queue.
HostExpires ==
  /\ profile.state = "archived"
  /\ profile' = [state |-> "deleted", expiry |-> TRUE]
  /\ UNCHANGED <<stored, deleted, server, held, scripts, owner>>

RevokeExpired ==
  /\ profile.expiry
  /\ profile' = [profile EXCEPT !.expiry = FALSE]
  /\ Withdraw
  /\ UNCHANGED <<policy, deleted, held>>

\* A project is created again before it is deleted, so that there is a row.
ProjectDeleted ==
  /\ held = None
  /\ deleted' = TRUE
  /\ RevokeAll /\ scripts' = Abort(Everything)
  /\ owner' = [owner EXCEPT !.known = FALSE]
  /\ UNCHANGED <<policy, profile, server, held>>

ProjectCreated ==
  /\ held = None /\ deleted
  /\ deleted' = FALSE
  /\ owner' = [owner EXCEPT !.known = FALSE]
  /\ UNCHANGED <<stored, profile, server, held, scripts>>

\* Time: a request's or a temporary grant's is over.
BecomesDue(r) ==
  /\ r \in Live \ Due /\ requests[r].mode # "persist"
  /\ requests' = [requests EXCEPT ![r].due = TRUE]
  /\ UNCHANGED <<grants, scripts, Others>>

Lapse(g) ==
  /\ g \in Active /\ grants[g].scope = "*" /\ ~grants[g].lapsed
  /\ grants' = [grants EXCEPT ![g].lapsed = TRUE]
  /\ UNCHANGED <<requests, policy, deleted, profile, server, held, scripts, owner>>

\* The server's memory is lost, its calls end; what the host does is done.
ServerRestart ==
  /\ server' = [inactive |-> FALSE, restoring |-> FALSE]
  /\ held' = None
  /\ scripts' = [s \in Scripts |-> Idle] /\ owner' = OwnerIdle
  /\ UNCHANGED <<stored, deleted, profile>>

-----------------------------------------------------------------------------
ScriptStep(s) == Answered(s) \/ Authorize(s) \/ Begin(s) \/ Enrich(s) \/ ExpireRun(s)
LifecycleStep == HostCommits \/ EndLifecycle \/ MarkActive \/ RevokeExpired

Next ==
  \/ \E s \in Scripts : \/ ScriptStep(s) \/ Finish(s)
                        \/ \E o \in Origins : Ask(s, o) \/ HostDenies(s, o)
  \/ \E scope \in OwnerScopes : CreateAsk(scope)
  \/ \E r \in Requests : \/ \E d \in {"retry", "one-hour", "persist"} : DecideAsk(r, d)
                         \/ Deny(r) \/ RevokeRequest(r) \/ BecomesDue(r)
  \/ OwnerAnswered \/ Create \/ Decide \/ ListRequests
  \/ \E g \in Grants : RevokeGrant(g) \/ Lapse(g)
  \/ \E e \in BOOLEAN : SetAutoApproval(e)
  \/ \E k \in {"archive", "delete"} : BeginLifecycle(k)
  \/ \E k \in {"archiveUnsaved", "deleteUnused"} : BeginUnused(k)
  \/ LifecycleStep \/ Restore \/ HostExpires
  \/ ProjectDeleted \/ ProjectCreated \/ ServerRestart

Spec == Init /\ [][Next]_vars

\* A call whose signal is aborted ends; timers go off; calls to the host have a
\* deadline, so the queue moves, and every operation in it has its turn (strong
\* fairness: in between the lock may be free for others again and again).
Fairness ==
  /\ WF_vars(EndLifecycle)
  /\ \A s \in Scripts : /\ SF_vars(ExpireRun(s))
                        /\ WF_vars(scripts[s].aborted /\ Finish(s))
FairSpec == Spec /\ Fairness

-----------------------------------------------------------------------------
(* Properties *)

Runs(s) == scripts[s].pc = "running" /\ ~scripts[s].aborted

\* A script that runs without having been told to stop has a grant that still
\* holds, whichever of the owner, a timer, the profile's or the project's
\* lifecycle took it away, and however close to its start ("Deleting a project or
\* revoking a grant interrupts active agent work", docs/browser/security.md).
RunningIsCovered ==
  \A s \in Scripts : Runs(s) => scripts[s].by \in Active \cup Live

\* A persistent approval in the request history and the grant it names go
\* together, on every path that revokes one of them.
ApprovalsAreBacked ==
  \A r \in Live : requests[r].mode = "persist" => requests[r].grant \in Active

\* The tombstone of a deleted project: no grant is active for it, not by an
\* owner's call or decision that was under way, nor by an agent's authorization.
TombstonesHold == deleted => Active = {}

\* Nothing runs on a profile the server knows to be archived or deleted, even if
\* the script was authorized, or its inventory read, while it was active.
InactiveRunsNothing == server.inactive => \A s \in Scripts : ~Runs(s)

\* Once the owner has taken Default Access away, no new grant appears but by the
\* owner: agents' authorizations create none, and neither does auto-approval.
WithdrawalHolds ==
  [][policy.withdrawn /\ policy'.withdrawn /\ owner' = owner
     => \A g \in Grants : grants'[g] # None => grants[g] # None]_vars

\* A script that runs by a temporary grant is stopped when its time is over, even
\* if the queue is held by a lifecycle operation when the timer goes off.
TemporaryRunsEnd ==
  \A s \in Scripts, r \in Requests :
    (scripts[s].pc = "running" /\ scripts[s].by = r /\ r \in Due)
      ~> ~(scripts[s].pc = "running" /\ scripts[s].by = r)
=============================================================================
