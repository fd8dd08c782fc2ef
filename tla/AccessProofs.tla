---------------------------- MODULE AccessProofs ----------------------------
(***************************************************************************)
(* Proofs about Access for any number of scripts, grants and requests: type  *)
(* correctness, that a script that runs has a grant, that approvals are       *)
(* backed, that tombstones hold, that nothing runs on an inactive profile and *)
(* that a withdrawal holds.                                                  *)
(*                                                                         *)
(* The argument is about ids.  A step takes an id away only if it tells the   *)
(* scripts that run by it to stop, or if no script can run by it (Change); a   *)
(* new id is one that no script names, so a script that was authorized before  *)
(* cannot come to run by what was granted since.                             *)
(***************************************************************************)
EXTENDS Access, TLAPS

GrantMap == [Grants -> Grant \cup {None}]
RequestMap == [Requests -> Request \cup {None}]

Unnamed(b) == \A s \in Scripts : scripts[s].by # b

(* Persistent approvals and their grants go together, one to one.            *)
Backed(G, R) ==
  /\ \A r \in Requests : R[r] # None =>
       IF R[r].mode = "persist" THEN R[r].grant \in Grants /\ G[R[r].grant] # None
       ELSE R[r].grant = None
  /\ \A q, r \in Requests :
       R[q] # None /\ R[r] # None /\ R[q].grant # None /\ R[q].grant = R[r].grant => q = r

(* What a step may do to the stored grants G and requests R.  The scripts that *)
(* run by an id of E are told to stop.                                       *)
Change(G, R, E) ==
  /\ G \in GrantMap /\ R \in RequestMap
  /\ \A g \in Grants : G[g] = None => grants[g] = None \/ g \in E
  /\ \A g \in Grants : G[g] # None => grants[g] # None \/ (Unnamed(g) /\ ~deleted)
  /\ \A r \in Requests : R[r] = None =>
       \/ requests[r] = None \/ r \in E
       \/ requests[r].status = "pending" \/ requests[r].mode = "persist"
  /\ \A r \in Requests : R[r] # None =>
       \/ Unnamed(r)
       \/ /\ requests[r] # None
          /\ \/ requests[r].status = "pending"
             \/ R[r].mode = requests[r].mode /\ R[r].status # "pending"
  /\ Backed(G, R)

(* What a script may be authorized by.                                       *)
Authority(G, R, b) ==
  \/ b \in Grants /\ G[b] # None
  \/ b \in Requests /\ R[b] # None /\ R[b].status # "pending" /\ R[b].mode # "persist"

-----------------------------------------------------------------------------
(* The stores.                                                               *)

(* Expired or denied requests go.                                            *)
LEMMA WithoutChanges ==
  ASSUME TypeOK, Backed(grants, requests), NEW D, NEW E,
         \A r \in Requests : r \in D /\ requests[r] # None =>
           r \in E \/ requests[r].status = "pending" \/ requests[r].mode = "persist"
  PROVE Change(grants, Without(D), E)
<1>1. Without(D) \in RequestMap
  BY DEF Without, TypeOK, RequestMap
<1>2. \A r \in Requests : Without(D)[r] = IF r \in D THEN None ELSE requests[r]
  BY DEF Without
<1> HIDE DEF Without
<1>3. Backed(grants, Without(D))
  BY <1>2 DEF Backed
<1>4. \A r \in Requests : Without(D)[r] # None =>
        \/ Unnamed(r)
        \/ /\ requests[r] # None
           /\ \/ requests[r].status = "pending"
              \/ Without(D)[r].mode = requests[r].mode /\ Without(D)[r].status # "pending"
  BY <1>2
<1> QED BY <1>1, <1>2, <1>3, <1>4 DEF Change, TypeOK, GrantMap

(* Nothing changes.                                                          *)
LEMMA NoChange ==
  ASSUME TypeOK, Backed(grants, requests), NEW E
  PROVE Change(grants, requests, E)
  BY DEF Change, TypeOK, GrantMap, RequestMap

(* Everything of the profile or project goes.                                *)
LEMMA RevokeAllChanges ==
  ASSUME RevokeAll, NEW E, Everything \subseteq E
  PROVE Change(grants', requests', E)
  BY DEF RevokeAll, Everything, Change, Backed, GrantMap, RequestMap

(* A grant that is inserted.                                                 *)
LEMMA InsertChanges ==
  ASSUME TypeOK, Backed(grants, requests), Insertable,
         NEW g \in FreeGrants, NEW scope \in Scopes, NEW E
  PROVE /\ Change([grants EXCEPT ![g] = Row(scope)], requests, E)
        /\ [grants EXCEPT ![g] = Row(scope)] \in GrantMap
        /\ [grants EXCEPT ![g] = Row(scope)][g] # None
<1> DEFINE G == [grants EXCEPT ![g] = Row(scope)]
<1>1. g \in Grants /\ grants[g] = None /\ Unnamed(g)
  BY DEF FreeGrants, Active, Unnamed
<1>2. Row(scope) \in Grant
  BY DEF Row, Grant
<1>3. Row(scope) # None
  BY <1>2, NoneAssumption
<1>4. /\ G \in GrantMap
      /\ \A h \in Grants : IF h = g THEN G[h] # None ELSE G[h] = grants[h]
  BY <1>1, <1>2, <1>3 DEF TypeOK, GrantMap
<1> HIDE DEF G
<1>5. Backed(G, requests)
  BY <1>1, <1>4 DEF Backed
<1>6. Change(G, requests, E)
  BY <1>1, <1>4, <1>5 DEF Change, Insertable, TypeOK, RequestMap
<1> QED BY <1>1, <1>4, <1>6 DEF G

(* A grant for the origin, and the request that was approved with it.         *)
LEMMA ApproveChanges ==
  ASSUME TypeOK, NEW G \in GrantMap, NEW R \in RequestMap, NEW E, Change(G, R, E),
         Insertable, NEW g \in FreeGrants, G[g] = None, NEW r \in Requests,
         NEW row \in Request, row.mode = "persist", row.grant = g,
         Unnamed(r) \/ (R[r] # None /\ requests[r] # None /\ requests[r].status = "pending"),
         NEW o \in Origins
  PROVE Change([G EXCEPT ![g] = Row(o)], [R EXCEPT ![r] = row], E)
<1> DEFINE H == [G EXCEPT ![g] = Row(o)]
           S == [R EXCEPT ![r] = row]
<1>1. g \in Grants /\ grants[g] = None /\ Unnamed(g)
  BY DEF FreeGrants, Active, Unnamed
<1>0. Row(o) \in Grant
  BY DEF Row, Grant, Scopes
<1>2. Row(o) # None /\ row # None
  BY <1>0, NoneAssumption
<1>3. /\ H \in GrantMap /\ S \in RequestMap
      /\ \A h \in Grants : IF h = g THEN H[h] # None ELSE H[h] = G[h]
      /\ \A q \in Requests : S[q] = IF q = r THEN row ELSE R[q]
  BY <1>0, <1>1, <1>2 DEF GrantMap, RequestMap
<1> HIDE DEF H, S
<1>4. Backed(H, S)
  BY <1>1, <1>2, <1>3, IdsAssumption DEF Backed, Change
<1>5. Change(H, S, E)
  BY <1>1, <1>2, <1>3, <1>4 DEF Change, Insertable
<1> QED BY <1>5 DEF H, S

(* What the store of requests comes to, after the stores have G.             *)
Sound(a) ==
  /\ Change(a.grants, a.requests, a.ended)
  /\ a.by # None => Authority(a.grants, a.requests, a.by)
  /\ policy.withdrawn => a.grants = grants
  /\ a.ended = {} \/ a.ended = Due

(* authorize of the request store.                                           *)
LEMMA FromRequestsSound ==
  ASSUME TypeOK, NEW G \in GrantMap, Change(G, requests, {}), Backed(grants, requests),
         policy.withdrawn => G = grants, NEW o \in Origins, NEW a \in FromRequests(o, G)
  PROVE Sound(a)
<1> DEFINE R == Without(Due)
<1>1. /\ R \in RequestMap
      /\ \A r \in Requests : R[r] = IF r \in Due THEN None ELSE requests[r]
  BY DEF Without, TypeOK, RequestMap
<1>2. requests \in RequestMap /\ Backed(G, requests)
  BY DEF TypeOK, RequestMap, Change
<1> DEFINE approved == {r \in Requests : /\ R[r] # None /\ R[r].status = "approved"
                                         /\ R[r].mode # "persist" /\ R[r].origin = o}
<1> HIDE DEF R
<1>3. CASE approved # {}
  <2>1. PICK r \in approved :
          a = Outcome(G, IF R[r].mode = "retry" THEN [R EXCEPT ![r].status = "consumed"] ELSE R,
                      Due, r)
    BY <1>3 DEF FromRequests, R
  <2> DEFINE S == IF R[r].mode = "retry" THEN [R EXCEPT ![r].status = "consumed"] ELSE R
  <2>2. R[r] \in Request /\ r \in Requests
    BY <1>1 DEF RequestMap
  <2>3. [R[r] EXCEPT !.status = "consumed"] \in Request
        /\ [R[r] EXCEPT !.status = "consumed"].mode = R[r].mode
        /\ [R[r] EXCEPT !.status = "consumed"].grant = R[r].grant
        /\ [R[r] EXCEPT !.status = "consumed"].status = "consumed"
    BY <2>2 DEF Request
  <2>4. /\ S \in RequestMap
        /\ \A q \in Requests : q # r => S[q] = R[q]
        /\ S[r] # None /\ S[r].mode = R[r].mode /\ S[r].grant = R[r].grant
        /\ S[r].status \in {"approved", "consumed"}
    BY <1>1, <2>2, <2>3, NoneAssumption DEF RequestMap
  <2> HIDE DEF S
  <2>5. R[r] = requests[r] /\ requests[r] # None /\ R[r].mode # "persist"
    BY <1>1, <2>2
  <2>6. Backed(G, S)
    BY <1>1, <1>2, <2>4, <2>5 DEF Backed
  <2>7. Change(G, S, Due)
    BY <1>1, <2>2, <2>4, <2>5, <2>6 DEF Change
  <2>8. Authority(G, S, r)
    BY <2>2, <2>4, <2>5 DEF Authority
  <2> QED BY <2>1, <2>7, <2>8 DEF Outcome, Sound, S
<1>4. CASE approved = {}
  <2> DEFINE row == [status |-> "pending", origin |-> o, mode |-> "none", due |-> FALSE,
                     grant |-> None]
  <2>1. PICK r \in FreeOf(R) : a = Outcome(G, [R EXCEPT ![r] = row], Due, None)
    BY <1>4 DEF FromRequests, R
  <2> DEFINE S == [R EXCEPT ![r] = row]
  <2>0. row \in Request
    BY DEF Request
  <2>2. r \in Requests /\ Unnamed(r) /\ row # None
    BY <2>0, <2>1, NoneAssumption DEF FreeOf, Unnamed
  <2>3. S \in RequestMap /\ \A q \in Requests : S[q] = IF q = r THEN row ELSE R[q]
    BY <1>1, <2>0, <2>2 DEF RequestMap
  <2> HIDE DEF S
  <2>4. Backed(G, S)
    BY <1>1, <1>2, <2>2, <2>3 DEF Backed
  <2>5. Change(G, S, Due)
    BY <1>1, <2>2, <2>3, <2>4 DEF Change
  <2> QED BY <2>1, <2>5 DEF Outcome, Sound, S
<1> QED BY <1>3, <1>4

(* Which grant and which request an auto-approval takes.                      *)
LEMMA AutoApprovals ==
  ASSUME NEW G, NEW o, NEW a \in AutoApproved(o, G)
  PROVE \E g \in {h \in FreeGrants : G[h] = None}, r \in FreeOf(requests) :
          a = Outcome([G EXCEPT ![g] = Row(o)],
                    [requests EXCEPT ![r] = [status |-> "approved", origin |-> o,
                       mode |-> "persist", due |-> FALSE, grant |-> g]], {}, g)
<1> DEFINE Approval(g, r) ==
             Outcome([G EXCEPT ![g] = Row(o)],
                    [requests EXCEPT ![r] = [status |-> "approved", origin |-> o,
                       mode |-> "persist", due |-> FALSE, grant |-> g]], {}, g)
           H == {h \in FreeGrants : G[h] = None}
           K == FreeOf(requests)
<1>1. a \in {Approval(g, r) : g \in H, r \in K}
  BY DEF AutoApproved
<1> HIDE DEF Approval, H, K
<1>2. \E g \in H, r \in K : a = Approval(g, r)
  BY <1>1
<1> QED BY <1>2 DEF Approval, H, K

(* autoApprove.                                                              *)
LEMMA AutoApprovedSound ==
  ASSUME TypeOK, NEW G \in GrantMap, Change(G, requests, {}), AutoApproves,
         NEW o \in Origins, NEW a \in AutoApproved(o, G)
  PROVE Sound(a)
<1>1. PICK g \in {h \in FreeGrants : G[h] = None}, r \in FreeOf(requests) :
        a = Outcome([G EXCEPT ![g] = Row(o)],
                    [requests EXCEPT ![r] = [status |-> "approved", origin |-> o,
                       mode |-> "persist", due |-> FALSE, grant |-> g]], {}, g)
  BY AutoApprovals
<1> DEFINE row == [status |-> "approved", origin |-> o, mode |-> "persist", due |-> FALSE,
                   grant |-> g]
<1>2. g \in Grants /\ g \in FreeGrants /\ G[g] = None
  BY <1>1 DEF FreeGrants
<1>3. r \in Requests /\ Unnamed(r)
  BY <1>1 DEF FreeOf, Unnamed
<1>4. /\ row.mode = "persist" /\ row.grant = g
      /\ row \in Request
  <2>1. g \in Grants \cup {None} /\ o \in Origins
    BY <1>2
  <2>2. row \in Request
    BY <2>1 DEF Request
  <2> QED BY <2>2
<1>5. requests \in RequestMap /\ Insertable
  BY DEF TypeOK, RequestMap, AutoApproves
<1> HIDE DEF row
<1>6. Change([G EXCEPT ![g] = Row(o)], [requests EXCEPT ![r] = row], {})
  BY <1>2, <1>3, <1>4, <1>5, ApproveChanges
<1>7. [G EXCEPT ![g] = Row(o)][g] # None
  <2>1. Row(o) \in Grant
    BY DEF Row, Grant, Scopes
  <2> QED BY <1>2, <2>1, NoneAssumption DEF GrantMap
<1>8. ~policy.withdrawn
  BY DEF AutoApproves
<1> QED BY <1>1, <1>2, <1>6, <1>7, <1>8 DEF Outcome, Sound, Authority, row

(* authorizeStoredRequest.                                                   *)
LEMMA AuthorizationsSound ==
  ASSUME TypeOK, Backed(grants, requests), NEW o \in Origins, NEW a \in Authorizations(o)
  PROVE Sound(a)
<1> DEFINE Default(g) == [grants EXCEPT ![g] = Row("*")]
           Further(G) == IF AutoApproves THEN AutoApproved(o, G) ELSE FromRequests(o, G)
<1>0. "*" \in Scopes /\ Change(grants, requests, {}) /\ grants \in GrantMap
  BY NoChange DEF Scopes, TypeOK, GrantMap
<1>1. CASE Permitted(o) # {}
  <2>1. PICK g \in Broadest(Permitted(o)) : a = Outcome(grants, requests, {}, g)
    BY <1>1 DEF Authorizations
  <2>2. g \in Grants /\ grants[g] # None
    BY DEF Broadest, Permitted, Covering, Active
  <2> QED BY <1>0, <2>1, <2>2 DEF Outcome, Sound, Authority
<1>2. ASSUME NEW G \in GrantMap, Change(G, requests, {}), a \in Further(G),
             policy.withdrawn => G = grants
      PROVE Sound(a)
  BY <1>2, AutoApprovedSound, FromRequestsSound
<1>3. ASSUME DefaultAccess(o), NEW g \in FreeGrants
      PROVE /\ Change(Default(g), requests, {}) /\ Default(g) \in GrantMap
            /\ Default(g)[g] # None /\ ~policy.withdrawn
  BY <1>0, <1>3, InsertChanges DEF DefaultAccess
<1>4. CASE Permitted(o) = {} /\ ~DefaultAccess(o)
  <2>1. a \in Further(grants)
    BY <1>4 DEF Authorizations
  <2> QED BY <1>0, <1>2, <2>1
<1>5. CASE Permitted(o) = {} /\ DefaultAccess(o) /\ o = "web"
  <2>1. PICK g \in FreeGrants : a = Outcome(Default(g), requests, {}, g)
    BY <1>5 DEF Authorizations
  <2>2. g \in Grants
    BY DEF FreeGrants
  <2> HIDE DEF Default
  <2> QED BY <1>3, <1>5, <2>1, <2>2 DEF Outcome, Sound, Authority
<1>6. CASE Permitted(o) = {} /\ DefaultAccess(o) /\ o # "web"
  <2>1. PICK g \in FreeGrants : a \in Further(Default(g))
    BY <1>6 DEF Authorizations
  <2> HIDE DEF Default, Further
  <2> QED BY <1>2, <1>3, <1>6, <2>1
<1> QED BY <1>1, <1>4, <1>5, <1>6

-----------------------------------------------------------------------------
(* What a step does to the scripts.                                          *)

(* The ids by which nothing runs after a step without having been told to stop. *)
Stopped == {b \in Everything : \A s \in Scripts :
              scripts'[s].pc = "running" /\ scripts'[s].by = b => scripts'[s].aborted}

ScriptMove(s) ==
  \/ scripts'[s].pc \notin {"authorized", "running"}
  \/ /\ scripts'[s].pc = scripts[s].pc /\ scripts'[s].by = scripts[s].by
     /\ scripts[s].aborted => scripts'[s].aborted
  \/ /\ scripts[s].pc = "authorized" /\ scripts'[s].pc = "running"
     /\ scripts'[s].by = scripts[s].by /\ scripts'[s].by \in (Active \cup Live)'
  \/ /\ scripts'[s].pc = "authorized" /\ ~server.inactive /\ UNCHANGED server
     /\ Authority(grants', requests', scripts'[s].by)

ScriptMap == [Scripts -> Script]

(* More ids that are stopped allow no less.                                  *)
LEMMA ChangeMore ==
  ASSUME NEW G, NEW R, NEW E, NEW F, Change(G, R, E), E \cap Everything \subseteq F
  PROVE Change(G, R, F)
  BY DEF Change, Everything

(* abortGrantCalls.                                                          *)
LEMMA Aborts ==
  ASSUME TypeOK, NEW S
  PROVE /\ Abort(S) \in ScriptMap
        /\ \A s \in Scripts :
             /\ Abort(S)[s].pc = scripts[s].pc /\ Abort(S)[s].by = scripts[s].by
             /\ scripts[s].aborted => Abort(S)[s].aborted
             /\ scripts[s].pc = "running" /\ scripts[s].by \in S => Abort(S)[s].aborted
<1>1. \A s \in Scripts :
        /\ scripts[s] \in Script /\ [scripts[s] EXCEPT !.aborted = TRUE] \in Script
        /\ [scripts[s] EXCEPT !.aborted = TRUE].pc = scripts[s].pc
        /\ [scripts[s] EXCEPT !.aborted = TRUE].by = scripts[s].by
        /\ [scripts[s] EXCEPT !.aborted = TRUE].aborted = TRUE
  BY DEF TypeOK, Script
<1> QED BY <1>1 DEF Abort, ScriptMap

(* A step that stops what runs by S, and moves one script.                   *)
LEMMA Moves ==
  ASSUME TypeOK, NEW S, NEW s \in Scripts, NEW r \in Script,
         scripts' = [Abort(S) EXCEPT ![s] = r], r.pc = "running" => r.by \notin S
  PROVE /\ scripts' \in ScriptMap /\ S \cap Everything \subseteq Stopped
        /\ scripts'[s] = r /\ \A t \in Scripts : t # s => ScriptMove(t)
<1> DEFINE A == Abort(S)
<1>1. /\ A \in ScriptMap
      /\ \A t \in Scripts :
           /\ A[t].pc = scripts[t].pc /\ A[t].by = scripts[t].by
           /\ scripts[t].aborted => A[t].aborted
           /\ scripts[t].pc = "running" /\ scripts[t].by \in S => A[t].aborted
  BY Aborts
<1> HIDE DEF A
<1>2. /\ scripts' \in ScriptMap
      /\ \A t \in Scripts : scripts'[t] = IF t = s THEN r ELSE A[t]
  BY <1>1 DEF ScriptMap, A
<1>3. S \cap Everything \subseteq Stopped
  BY <1>1, <1>2 DEF Stopped
<1>4. \A t \in Scripts : t # s => ScriptMove(t)
  BY <1>1, <1>2 DEF ScriptMove
<1> QED BY <1>2, <1>3, <1>4

(* A step that only stops what runs by S, and may outdate what scripts saw.   *)
LEMMA Stops ==
  ASSUME TypeOK, NEW S, scripts' = Abort(S) \/ scripts' = Outdated(Abort(S))
  PROVE /\ scripts' \in ScriptMap /\ S \cap Everything \subseteq Stopped
        /\ \A t \in Scripts : ScriptMove(t)
<1> DEFINE A == Abort(S)
<1>1. /\ A \in ScriptMap
      /\ \A t \in Scripts :
           /\ A[t].pc = scripts[t].pc /\ A[t].by = scripts[t].by
           /\ scripts[t].aborted => A[t].aborted
           /\ scripts[t].pc = "running" /\ scripts[t].by \in S => A[t].aborted
  BY Aborts
<1>2. scripts' = A \/ scripts' = Outdated(A)
  OBVIOUS
<1> HIDE DEF A
<1>3. \A t \in Scripts :
        /\ [A[t] EXCEPT !.current = FALSE] \in Script
        /\ [A[t] EXCEPT !.current = FALSE].pc = A[t].pc
        /\ [A[t] EXCEPT !.current = FALSE].by = A[t].by
        /\ [A[t] EXCEPT !.current = FALSE].aborted = A[t].aborted
  BY <1>1 DEF ScriptMap, Script
<1>4. /\ scripts' \in ScriptMap
      /\ \A t \in Scripts : /\ scripts'[t].pc = A[t].pc /\ scripts'[t].by = A[t].by
                            /\ scripts'[t].aborted = A[t].aborted
  BY <1>1, <1>2, <1>3 DEF Outdated, ScriptMap
<1>5. S \cap Everything \subseteq Stopped
  BY <1>1, <1>4 DEF Stopped
<1>6. \A t \in Scripts : ScriptMove(t)
  BY <1>1, <1>4 DEF ScriptMove
<1> QED BY <1>4, <1>5, <1>6
(* A step of one script that stops none.                                     *)
LEMMA MovesOne ==
  ASSUME TypeOK, NEW s \in Scripts, NEW r \in Script, scripts' = [scripts EXCEPT ![s] = r]
  PROVE /\ scripts' \in ScriptMap /\ scripts'[s] = r
        /\ \A t \in Scripts : t # s => ScriptMove(t)
<1>1. scripts' = [scripts EXCEPT ![s] = r] /\ scripts \in ScriptMap
  BY DEF TypeOK, ScriptMap
<1>2. scripts' \in ScriptMap /\ \A t \in Scripts : scripts'[t] = IF t = s THEN r ELSE scripts[t]
  BY <1>1 DEF ScriptMap
<1> QED BY <1>2 DEF ScriptMove

-----------------------------------------------------------------------------
(* What a step does to the rest.                                             *)

(* A decision is one about a request.                                        *)
Call == {c \in OwnerCall : c.op = "decide" => c.request \in Requests /\ c.decision # "none"}

(* Everything is revoked, or the project and the profile are what they were or *)
(* better; agents get no new grant once Default Access is withdrawn.          *)
Rest ==
  /\ policy' \in [withdrawn: BOOLEAN, auto: BOOLEAN]
  /\ deleted' \in BOOLEAN
  /\ profile' \in [state: States, expiry: BOOLEAN]
  /\ server' \in [inactive: BOOLEAN, restoring: BOOLEAN]
  /\ held' \in [kind: {"archive", "delete", "archiveUnsaved", "deleteUnused"},
                done: BOOLEAN] \cup {None}
  /\ owner' \in Call
  /\ server'.inactive => server.inactive \/ RevokeAll
  /\ deleted' => deleted \/ RevokeAll
  /\ policy.withdrawn /\ policy'.withdrawn /\ owner' = owner
       => \A g \in Grants : grants'[g] # None => grants[g] # None

(* What every step does.                                                     *)
Step ==
  /\ Change(grants', requests', Stopped)
  /\ scripts' \in ScriptMap /\ \A s \in Scripts : ScriptMove(s)
  /\ Rest

(* A step of one script that leaves the stores alone.                        *)
LEMMA ScriptSteps ==
  ASSUME TypeOK, Backed(grants, requests), owner \in Call, NEW s \in Scripts, NEW o \in Origins,
         Ask(s, o) \/ HostDenies(s, o) \/ Finish(s)
  PROVE Step
<1>1. UNCHANGED <<grants, requests, policy, deleted, profile, server, held, owner>>
  BY DEF Ask, HostDenies, Finish, stored
<1>2. Rest
  BY <1>1 DEF Rest, TypeOK
<1>3. Change(grants', requests', Stopped)
  BY <1>1, NoChange
<1>4. scripts \in ScriptMap /\ Idle \in Script
  BY DEF TypeOK, ScriptMap, Script, Idle, Origins
<1>5. scripts[s] \in Script
  BY <1>4 DEF ScriptMap
<1> DEFINE asked == [scripts[s] EXCEPT !.pc = "asked", !.origin = o,
                                       !.seen = profile.state = "active"]
           denied == [Idle EXCEPT !.pc = "enriching", !.origin = o]
<1>6. asked \in Script /\ asked.pc = "asked"
  BY <1>5 DEF Script
<1>7. denied \in Script /\ denied.pc = "enriching"
  BY <1>4 DEF Script
<1>8. CASE Ask(s, o)
  <2>1. scripts' = [scripts EXCEPT ![s] = asked]
    BY <1>8 DEF Ask
  <2> HIDE DEF asked
  <2> QED BY <1>2, <1>3, <1>6, <2>1, MovesOne DEF Step, ScriptMove
<1>9. CASE HostDenies(s, o)
  <2>1. scripts' = [scripts EXCEPT ![s] = denied]
    BY <1>9 DEF HostDenies
  <2> HIDE DEF denied
  <2> QED BY <1>2, <1>3, <1>7, <2>1, MovesOne DEF Step, ScriptMove
<1>10. CASE Finish(s)
  <2>1. scripts' = [scripts EXCEPT ![s] = Idle] /\ Idle.pc = "idle"
    BY <1>10 DEF Finish, Idle
  <2> QED BY <1>2, <1>3, <1>4, <2>1, MovesOne DEF Step, ScriptMove
<1> QED BY <1>8, <1>9, <1>10

(* The host's answer to a script's call.                                     *)
LEMMA AnsweredSteps ==
  ASSUME TypeOK, Backed(grants, requests), owner \in Call, NEW s \in Scripts, Answered(s)
  PROVE Step
<1>1. UNCHANGED <<policy, deleted, profile, server, held, owner>>
  BY DEF Answered, Others
<1>2. (RevokeAll \/ UNCHANGED <<grants, requests>>) => Rest
  BY <1>1 DEF Rest, TypeOK, RevokeAll
<1>3. scripts[s] \in Script /\ Idle \in Script /\ Idle.pc = "idle"
  BY DEF TypeOK, Script, Idle, Origins
<1>4. CASE scripts[s].seen
  <2> DEFINE row == [scripts[s] EXCEPT !.pc = "queued", !.current = TRUE]
  <2>1. row \in Script /\ row.pc = "queued"
    BY <1>3 DEF Script
  <2>2. scripts' = [scripts EXCEPT ![s] = row] /\ UNCHANGED <<grants, requests>>
    BY <1>4 DEF Answered
  <2>3. Change(grants', requests', Stopped)
    BY <2>2, NoChange
  <2> HIDE DEF row
  <2> QED BY <1>2, <2>1, <2>2, <2>3, MovesOne DEF Step, ScriptMove
<1>5. CASE ~scripts[s].seen
  <2>1. RevokeAll /\ scripts' = [Abort(Everything) EXCEPT ![s] = Idle]
    BY <1>5 DEF Answered
  <2>2. /\ scripts' \in ScriptMap /\ Everything \cap Everything \subseteq Stopped
        /\ scripts'[s] = Idle /\ \A t \in Scripts : t # s => ScriptMove(t)
    BY <1>3, <2>1, Moves
  <2>3. Change(grants', requests', Stopped)
    BY <2>1, <2>2, RevokeAllChanges
  <2> QED BY <1>2, <1>3, <2>1, <2>2, <2>3 DEF Step, ScriptMove
<1> QED BY <1>4, <1>5

(* An authorization, for a script to run by or for a request to show.         *)
LEMMA AuthorizeSteps ==
  ASSUME TypeOK, Backed(grants, requests), owner \in Call, NEW s \in Scripts, Authorize(s) \/ Enrich(s)
  PROVE Step
<1>1. UNCHANGED <<policy, deleted, profile, server, held, owner>>
  BY DEF Authorize, Enrich, Others
<1>2. /\ scripts[s] \in Script /\ scripts[s].origin \in Origins
      /\ Idle \in Script /\ Idle.pc = "idle"
  BY DEF TypeOK, Script, Idle, Origins
<1>3. CASE scripts' = [scripts EXCEPT ![s] = Idle] /\ UNCHANGED <<grants, requests>>
  <2>1. Rest
    BY <1>1, <1>3 DEF Rest, TypeOK
  <2>2. Change(grants', requests', Stopped)
    BY <1>3, NoChange
  <2> QED BY <1>2, <1>3, <2>1, <2>2, MovesOne DEF Step, ScriptMove
<1>4. ASSUME NEW a \in Authorizations(scripts[s].origin), NEW r \in Script,
             grants' = a.grants, requests' = a.requests,
             scripts' = [Abort(a.ended) EXCEPT ![s] = r],
             \/ r.pc = "idle"
             \/ r.pc = "authorized" /\ r.by = a.by /\ a.by # None /\ ~server.inactive
      PROVE Step
  <2>1. Sound(a)
    BY <1>2, <1>4, AuthorizationsSound
  <2>2. Rest
    BY <1>1, <1>4, <2>1 DEF Rest, TypeOK, Sound
  <2>3. /\ scripts' \in ScriptMap /\ a.ended \cap Everything \subseteq Stopped
        /\ scripts'[s] = r /\ \A t \in Scripts : t # s => ScriptMove(t)
    BY <1>4, Moves
  <2>4. Change(grants', requests', Stopped)
    BY <1>4, <2>1, <2>3, ChangeMore DEF Sound
  <2>5. ScriptMove(s)
    BY <1>1, <1>4, <2>1, <2>3 DEF ScriptMove, Sound
  <2> QED BY <2>2, <2>3, <2>4, <2>5 DEF Step
<1>5. CASE Authorize(s) /\ Current(scripts[s])
  <2>1. PICK a \in Authorizations(scripts[s].origin) :
          /\ grants' = a.grants /\ requests' = a.requests
          /\ scripts' = [Abort(a.ended) EXCEPT ![s] =
               IF a.by = None THEN Idle ELSE [Idle EXCEPT !.pc = "authorized", !.by = a.by]]
    BY <1>5 DEF Authorize
  <2> DEFINE row == [Idle EXCEPT !.pc = "authorized", !.by = a.by]
  <2>2. CASE a.by = None
    BY <1>2, <1>4, <2>1, <2>2
  <2>3. CASE a.by # None
    <3>1. a.by \in Grants \cup Requests
      BY <1>2, <2>3, AuthorizationsSound DEF Sound, Authority
    <3>2. row \in Script /\ row.pc = "authorized" /\ row.by = a.by
      BY <1>2, <3>1 DEF Script, Idle
    <3>3. ~server.inactive
      BY <1>5 DEF Current
    <3>4. scripts' = [Abort(a.ended) EXCEPT ![s] = row]
      BY <2>1, <2>3
    <3> HIDE DEF row
    <3> QED BY <1>4, <2>1, <2>3, <3>2, <3>3, <3>4
  <2> QED BY <2>2, <2>3
<1>6. CASE Enrich(s)
  <2>1. PICK a \in Authorizations(scripts[s].origin) :
          /\ grants' = a.grants /\ requests' = a.requests
          /\ scripts' = [Abort(a.ended) EXCEPT ![s] = Idle]
    BY <1>6 DEF Enrich
  <2> QED BY <1>2, <1>4, <2>1
<1>7. CASE Authorize(s) /\ ~Current(scripts[s])
  BY <1>3, <1>7 DEF Authorize
<1> QED BY <1>5, <1>6, <1>7

(* Requests that are expired, with the scripts that run by them.              *)
LEMMA Expiries ==
  ASSUME TypeOK, Backed(grants, requests), owner \in Call, UNCHANGED <<grants, policy, deleted, profile, server, held>>,
         owner' \in Call, NEW D, NEW E, requests' = Without(D), E \subseteq Stopped,
         \A r \in Requests : r \in D /\ requests[r] # None =>
           r \in E \/ requests[r].status = "pending" \/ requests[r].mode = "persist"
  PROVE Rest /\ Change(grants', requests', Stopped)
<1>1. Rest
  BY DEF Rest, TypeOK
<1>2. Change(grants, Without(D), Stopped)
  BY WithoutChanges
<1> QED BY <1>1, <1>2

(* A script that begins, and the timer of one that runs.                      *)
LEMMA RunSteps ==
  ASSUME TypeOK, Backed(grants, requests), owner \in Call, NEW s \in Scripts, Begin(s) \/ ExpireRun(s)
  PROVE Step
<1>1. /\ UNCHANGED <<grants, policy, deleted, profile, server, held>>
      /\ UNCHANGED owner /\ owner' \in Call
  BY DEF Begin, ExpireRun, Others, TypeOK
<1>2. /\ scripts[s] \in Script /\ Idle \in Script /\ Idle.pc = "idle"
      /\ [scripts[s] EXCEPT !.pc = "running"] \in Script
      /\ [scripts[s] EXCEPT !.pc = "running"].pc = "running"
      /\ [scripts[s] EXCEPT !.pc = "running"].by = scripts[s].by
  BY DEF TypeOK, Script, Idle, Origins
<1>3. CASE Begin(s)
  <2> DEFINE b == scripts[s].by
             D == IF b \in Requests THEN Due ELSE {}
             row == IF b \in Active \/ b \in Live \ D
                    THEN [scripts[s] EXCEPT !.pc = "running"] ELSE Idle
  <2>1. /\ scripts[s].pc = "authorized" /\ requests' = Without(D)
        /\ scripts' = [Abort(D) EXCEPT ![s] = row]
    BY <1>3 DEF Begin
  <2>2. /\ row \in Script
        /\ row.pc # "running" => row.pc = "idle"
        /\ row.pc = "running" => row.by = b /\ b \in Active \cup (Live \ D)
    BY <1>2
  <2>3. D \subseteq Requests /\ D \cap Active = {}
    BY IdsAssumption DEF Due, Live, Active
  <2> HIDE DEF row, D, b
  <2>4. row.pc = "running" => row.by \notin D
    BY <2>2, <2>3
  <2>5. /\ scripts' \in ScriptMap /\ D \cap Everything \subseteq Stopped
        /\ scripts'[s] = row /\ \A t \in Scripts : t # s => ScriptMove(t)
    BY <2>1, <2>2, <2>4, Moves
  <2>6. Rest /\ Change(grants', requests', Stopped)
    <3>1. D \subseteq Stopped
      BY <2>3, <2>5 DEF Everything
    <3> QED BY <1>1, <2>1, <3>1, Expiries
  <2>7. row.pc = "running" => b \in (Active \cup Live)'
    BY <1>1, <2>1, <2>2 DEF Without, Active, Live
  <2>8. ScriptMove(s)
    BY <2>1, <2>2, <2>5, <2>7 DEF ScriptMove, b
  <2> QED BY <2>5, <2>6, <2>8 DEF Step
<1>4. CASE ExpireRun(s)
  <2> DEFINE b == scripts[s].by
  <2>1. /\ b \in Due /\ requests' = Without({b}) /\ scripts' = Abort({b})
    BY <1>4 DEF ExpireRun
  <2>2. {b} \subseteq Everything
    BY <2>1 DEF Due, Live, Everything
  <2> HIDE DEF b
  <2>3. /\ scripts' \in ScriptMap /\ {b} \cap Everything \subseteq Stopped
        /\ \A t \in Scripts : ScriptMove(t)
    BY <2>1, Stops
  <2>4. Rest /\ Change(grants', requests', Stopped)
    BY <1>1, <2>1, <2>2, <2>3, Expiries
  <2> QED BY <2>3, <2>4 DEF Step
<1> QED BY <1>3, <1>4

(* The owner's calls up to their turn, and what changes no more than itself.   *)
LEMMA OwnerAsks ==
  ASSUME TypeOK, Backed(grants, requests), owner \in Call, UNCHANGED <<grants, scripts>>,
         UNCHANGED <<deleted, profile>>,
         UNCHANGED requests \/ \E r \in Requests :
           requests[r].status = "pending" /\ requests' = Without({r} \cap Due),
         policy' \in [withdrawn: BOOLEAN, auto: BOOLEAN],
         server' \in [inactive: BOOLEAN, restoring: BOOLEAN],
         server'.inactive => server.inactive,
         held' \in [kind: {"archive", "delete", "archiveUnsaved", "deleteUnused"},
                    done: BOOLEAN] \cup {None},
         owner' \in Call
  PROVE Step
<1>1. Rest
  BY DEF Rest, TypeOK
<1>2. Change(grants', requests', Stopped)
  <2>1. CASE UNCHANGED requests
    BY <2>1, NoChange
  <2>2. CASE \E r \in Requests :
               requests[r].status = "pending" /\ requests' = Without({r} \cap Due)
    <3>1. PICK r \in Requests :
            requests[r].status = "pending" /\ requests' = Without({r} \cap Due)
      BY <2>2
    <3>2. Change(grants, Without({r} \cap Due), Stopped)
      BY <3>1, WithoutChanges
    <3> QED BY <3>1, <3>2
  <2> QED BY <2>1, <2>2
<1>3. scripts' \in ScriptMap /\ \A s \in Scripts : ScriptMove(s)
  BY DEF TypeOK, ScriptMap, ScriptMove
<1> QED BY <1>1, <1>2, <1>3 DEF Step

(* createGrant and decideGrantRequest up to their turn, the switch of            *)
(* auto-approval.                                                            *)
LEMMA AskSteps ==
  ASSUME TypeOK, Backed(grants, requests), owner \in Call,
         \/ \E scope \in OwnerScopes : CreateAsk(scope)
         \/ \E r \in Requests, d \in {"retry", "one-hour", "persist"} : DecideAsk(r, d)
         \/ OwnerAnswered
         \/ \E e \in BOOLEAN : SetAutoApproval(e)
  PROVE Step
<1>1. owner \in Call /\ OwnerIdle \in Call
  BY DEF TypeOK, Call, OwnerCall, OwnerIdle, Scopes, Origins
<1>2. ASSUME NEW scope \in OwnerScopes, CreateAsk(scope) PROVE Step
  <2> DEFINE call == [OwnerIdle EXCEPT !.pc = "asked", !.scope = scope,
                        !.seen = profile.state = "active", !.known = TRUE]
  <2>1. call \in Call
    <3>1. call \in OwnerCall
      BY <1>1, ScopesAssumption DEF Call, OwnerCall, Scopes, Origins
    <3>2. call.op = "create"
      BY DEF OwnerIdle
    <3> QED BY <3>1, <3>2 DEF Call
  <2> HIDE DEF call
  <2>2. owner' = call /\ UNCHANGED <<grants, requests, policy, deleted, profile, server, held, scripts>>
    BY <1>2 DEF CreateAsk, stored, call
  <2> QED BY <2>1, <2>2, OwnerAsks DEF TypeOK
<1>3. ASSUME NEW r \in Requests, NEW d \in {"retry", "one-hour", "persist"}, DecideAsk(r, d)
      PROVE Step
  <2> DEFINE call == [OwnerIdle EXCEPT !.pc = "asked", !.op = "decide", !.request = r,
                        !.decision = d, !.seen = profile.state = "active"]
  <2>1. call \in Call
    <3>1. call \in OwnerCall
      BY <1>1 DEF Call, OwnerCall
    <3>2. call.request = r /\ call.decision = d
      BY <1>1 DEF OwnerIdle
    <3> QED BY <3>1, <3>2 DEF Call
  <2>2. /\ owner' = IF r \in Due THEN owner ELSE call
        /\ UNCHANGED <<grants, policy, deleted, profile, server, held, scripts>>
        /\ requests[r].status = "pending" /\ requests' = Without({r} \cap Due)
    BY <1>3 DEF DecideAsk
  <2> HIDE DEF call
  <2>3. owner' \in Call
    BY <1>1, <2>1, <2>2
  <2> QED BY <2>2, <2>3, OwnerAsks DEF TypeOK
<1>4. CASE OwnerAnswered
  <2> DEFINE call == [owner EXCEPT !.pc = "queued", !.current = TRUE]
  <2>1. call \in Call
    <3>1. call \in OwnerCall
      BY <1>1 DEF Call, OwnerCall
    <3>2. call.op = owner.op /\ call.request = owner.request /\ call.decision = owner.decision
      BY <1>1 DEF Call, OwnerCall
    <3> QED BY <1>1, <3>1, <3>2 DEF Call
  <2>2. /\ owner' = IF owner.seen THEN call ELSE OwnerIdle
        /\ UNCHANGED <<grants, requests, policy, deleted, profile, server, held, scripts>>
    BY <1>4 DEF OwnerAnswered, stored
  <2> HIDE DEF call
  <2>3. owner' \in Call
    BY <1>1, <2>1, <2>2
  <2> QED BY <2>2, <2>3, OwnerAsks DEF TypeOK
<1>5. ASSUME NEW e \in BOOLEAN, SetAutoApproval(e) PROVE Step
  <2>1. policy' = [policy EXCEPT !.auto = e]
        /\ UNCHANGED <<grants, requests, deleted, profile, server, held, scripts, owner>>
    BY <1>5 DEF SetAutoApproval
  <2>2. policy' \in [withdrawn: BOOLEAN, auto: BOOLEAN]
    BY <2>1 DEF TypeOK
  <2> QED BY <1>1, <2>1, <2>2, OwnerAsks DEF TypeOK
<1> QED BY <1>2, <1>3, <1>4, <1>5

(* createGrant in its turn.                                                  *)
LEMMA CreateSteps ==
  ASSUME TypeOK, Backed(grants, requests), owner \in Call, Create
  PROVE Step
<1>1. /\ UNCHANGED <<requests, deleted, profile, server, held, scripts>>
      /\ owner' = OwnerIdle /\ owner' # owner
  BY DEF Create, OwnerIdle
<1>2. owner' \in Call /\ owner.scope \in Scopes
  BY <1>1 DEF TypeOK, Call, OwnerCall, OwnerIdle, Scopes, Origins
<1>3. CASE UNCHANGED <<grants, policy>>
  BY <1>1, <1>2, <1>3, OwnerAsks DEF TypeOK
<1>4. ASSUME Insertable, NEW g \in FreeGrants,
             grants' = [grants EXCEPT ![g] = Row(owner.scope)], policy' = Policy(owner.scope)
      PROVE Step
  <2>1. policy' \in [withdrawn: BOOLEAN, auto: BOOLEAN]
    BY <1>4 DEF Policy, TypeOK
  <2>2. Rest
    BY <1>1, <1>2, <2>1 DEF Rest, TypeOK
  <2>3. Change(grants', requests', Stopped)
    BY <1>1, <1>2, <1>4, InsertChanges
  <2>4. scripts' \in ScriptMap /\ \A s \in Scripts : ScriptMove(s)
    BY <1>1 DEF TypeOK, ScriptMap, ScriptMove
  <2> QED BY <2>2, <2>3, <2>4 DEF Step
<1> QED BY <1>3, <1>4 DEF Create

(* A request that is approved for a time.                                    *)
LEMMA ApprovedForATime ==
  ASSUME TypeOK, NEW R \in RequestMap, NEW E, Change(grants, R, E),
         NEW r \in Requests, R[r] # None, requests[r] # None, requests[r].status = "pending",
         NEW row \in Request, row.mode # "persist", row.grant = None
  PROVE Change(grants, [R EXCEPT ![r] = row], E)
<1> DEFINE S == [R EXCEPT ![r] = row]
<1>1. S \in RequestMap /\ \A q \in Requests : S[q] = IF q = r THEN row ELSE R[q]
  BY DEF RequestMap
<1>2. row # None
  BY NoneAssumption
<1> HIDE DEF S
<1>3. Backed(grants, S)
  BY <1>1, <1>2 DEF Backed, Change
<1>4. Change(grants, S, E)
  BY <1>1, <1>2, <1>3 DEF Change
<1> QED BY <1>4 DEF S

(* decideGrantRequest in its turn.                                           *)
LEMMA DecideSteps ==
  ASSUME TypeOK, Backed(grants, requests), owner \in Call, Decide
  PROVE Step
<1> DEFINE r == owner.request
           R == Without(Due)
           Approved(g) == [R EXCEPT ![r].status = "approved", ![r].mode = owner.decision,
                                    ![r].grant = g]
           row(g) == [R[r] EXCEPT !.status = "approved", !.mode = owner.decision, !.grant = g]
<1>1. /\ UNCHANGED <<policy, deleted, profile, server, held>>
      /\ owner' = OwnerIdle /\ owner' # owner /\ owner.op = "decide"
  BY DEF Decide, OwnerIdle
<1>2. /\ owner' \in Call /\ r \in Requests \cup {None}
      /\ owner.decision \in {"none", "retry", "one-hour", "persist"}
  BY <1>1 DEF TypeOK, Call, OwnerCall, OwnerIdle, Scopes, Origins
<1>3. Rest
  BY <1>1, <1>2 DEF Rest, TypeOK
<1>4. /\ R \in RequestMap
      /\ \A q \in Requests : R[q] = IF q \in Due THEN None ELSE requests[q]
  BY DEF Without, TypeOK, RequestMap
<1>5. CASE UNCHANGED <<grants, requests, scripts>>
  BY <1>1, <1>2, <1>5, OwnerAsks DEF TypeOK
<1>6. ASSUME scripts' = Abort(Due)
      PROVE /\ scripts' \in ScriptMap /\ Due \subseteq Stopped
            /\ \A t \in Scripts : ScriptMove(t)
            /\ Change(grants, R, Stopped)
  <2>1. /\ scripts' \in ScriptMap /\ Due \cap Everything \subseteq Stopped
        /\ \A t \in Scripts : ScriptMove(t)
    BY <1>6, Stops
  <2>2. Due \subseteq Stopped
    BY <2>1 DEF Due, Live, Everything
  <2>3. Change(grants, Without(Due), Stopped)
    BY <2>2, WithoutChanges
  <2> QED BY <2>1, <2>2, <2>3
<1>7. CASE requests' = R /\ scripts' = Abort(Due) /\ UNCHANGED grants
  BY <1>3, <1>6, <1>7 DEF Step
<1>8. ASSUME R[r] # None, R[r].status = "pending", r \in Requests, NEW g \in Grants \cup {None},
             owner.decision # "none"
      PROVE /\ Approved(g) = [R EXCEPT ![r] = row(g)]
            /\ row(g) \in Request /\ row(g).mode = owner.decision /\ row(g).grant = g
            /\ requests[r] # None /\ requests[r].status = "pending"
  <2>1. R[r] \in Request
    BY <1>4, <1>8 DEF RequestMap
  <2>2. row(g) \in Request /\ row(g).mode = owner.decision /\ row(g).grant = g
    BY <1>2, <1>8, <2>1 DEF Request
  <2>3. requests[r] # None /\ requests[r].status = "pending"
    BY <1>4, <1>8
  <2>4. Approved(g) = [R EXCEPT ![r] = row(g)]
    OBVIOUS
  <2> QED BY <2>2, <2>3, <2>4
<1>9. r \in Requests /\ owner.decision # "none"
  BY <1>1 DEF Call
<1>10. CASE /\ Insertable /\ R[r] # None /\ R[r].status = "pending"
            /\ owner.decision = "persist" /\ scripts' = Abort(Due)
            /\ \E g \in FreeGrants : /\ grants' = [grants EXCEPT ![g] = Row(R[r].origin)]
                                      /\ requests' = Approved(g)
  <2>1. PICK g \in FreeGrants : /\ grants' = [grants EXCEPT ![g] = Row(R[r].origin)]
                                /\ requests' = Approved(g)
    BY <1>10
  <2>2. g \in Grants /\ grants[g] = None /\ grants \in GrantMap
    BY DEF FreeGrants, Active, TypeOK, GrantMap
  <2>3. /\ requests' = [R EXCEPT ![r] = row(g)]
        /\ row(g) \in Request /\ row(g).mode = "persist" /\ row(g).grant = g
        /\ requests[r] # None /\ requests[r].status = "pending"
    BY <1>8, <1>9, <1>10, <2>1, <2>2
  <2>4. R[r].origin \in Origins
    BY <1>4, <1>9, <1>10 DEF RequestMap, Request
  <2> DEFINE p == row(g)
             w == R[r].origin
  <2> HIDE DEF R, row, p, w, Approved
  <2>5. Change([grants EXCEPT ![g] = Row(w)], [R EXCEPT ![r] = p], Stopped)
    BY <1>4, <1>6, <1>9, <1>10, <2>2, <2>3, <2>4, ApproveChanges DEF p, w
  <2>6. Change(grants', requests', Stopped)
    BY <2>1, <2>3, <2>5 DEF p, w
  <2> QED BY <1>3, <1>6, <1>10, <2>6 DEF Step
<1>11. CASE /\ R[r] # None /\ R[r].status = "pending"
            /\ owner.decision # "persist" /\ scripts' = Abort(Due)
            /\ UNCHANGED grants /\ requests' = Approved(None)
  <2>1. /\ requests' = [R EXCEPT ![r] = row(None)]
        /\ row(None) \in Request /\ row(None).mode # "persist" /\ row(None).grant = None
        /\ requests[r] # None /\ requests[r].status = "pending"
    BY <1>8, <1>9, <1>11
  <2> DEFINE p == row(None)
  <2> HIDE DEF R, row, p, Approved
  <2>2. Change(grants, [R EXCEPT ![r] = p], Stopped)
    BY <1>4, <1>6, <1>9, <1>11, <2>1, ApprovedForATime DEF p
  <2>3. Change(grants', requests', Stopped)
    BY <1>11, <2>1, <2>2 DEF p
  <2> QED BY <1>3, <1>6, <1>11, <2>3 DEF Step
<1> QED BY <1>5, <1>7, <1>10, <1>11 DEF Decide
(* A grant that is taken away, with the request that it was approved by.      *)
LEMMA RevocationChanges ==
  ASSUME TypeOK, Backed(grants, requests), NEW A, NEW D, NEW E, A \cap Grants \subseteq E,
         \A r \in Requests : r \in D /\ requests[r] # None =>
           r \in E \/ requests[r].status = "pending" \/ requests[r].mode = "persist",
         \A r \in Requests \ D : requests[r] # None => requests[r].grant \notin A \/ requests[r].grant = None,
         NEW G \in GrantMap, \A g \in Grants : G[g] = IF g \in A THEN None ELSE grants[g]
  PROVE Change(G, Without(D), E)
<1> DEFINE R == Without(D)
<1>1. Change(grants, R, E)
  BY WithoutChanges
<1>2. \A r \in Requests : R[r] = IF r \in D THEN None ELSE requests[r]
  BY DEF Without
<1> HIDE DEF R
<1>3. Backed(G, R)
  BY <1>1, <1>2, IdsAssumption DEF Backed, Change
<1>4. Change(G, R, E)
  BY <1>1, <1>3 DEF Change
<1> QED BY <1>4 DEF R

(* What is taken away, with the scripts that run by it.                       *)
LEMMA Revocations ==
  ASSUME TypeOK, Backed(grants, requests), owner \in Call,
         UNCHANGED <<deleted, profile, server, held, owner>>,
         policy' \in [withdrawn: BOOLEAN, auto: BOOLEAN],
         NEW A, NEW D, NEW S, requests' = Without(D), scripts' = Abort(S),
         A \cap Grants \subseteq S,
         \A r \in Requests : r \in D /\ requests[r] # None =>
           r \in S \/ requests[r].status = "pending" \/ requests[r].mode = "persist",
         \A r \in Requests \ D : requests[r] # None => requests[r].grant \notin A \/ requests[r].grant = None,
         grants' \in GrantMap, \A g \in Grants : grants'[g] = IF g \in A THEN None ELSE grants[g]
  PROVE Step
<1>1. Rest
  BY DEF Rest, TypeOK
<1>2. /\ scripts' \in ScriptMap /\ S \cap Everything \subseteq Stopped
      /\ \A t \in Scripts : ScriptMove(t)
  BY Stops
<1>3. Change(grants', Without(D), S \cap Everything)
  <2>1. \A r \in Requests : r \in D /\ requests[r] # None =>
          r \in S \cap Everything \/ requests[r].status = "pending" \/ requests[r].mode = "persist"
    BY DEF Everything
  <2>2. A \cap Grants \subseteq S \cap Everything
    BY DEF Everything
  <2> QED BY <2>1, <2>2, RevocationChanges
<1>4. Change(grants', Without(D), Stopped)
  BY <1>2, <1>3, ChangeMore
<1> QED BY <1>1, <1>2, <1>4 DEF Step

(* The owner's denials and revocations, and what the requests are read for.    *)
LEMMA RevokeSteps ==
  ASSUME TypeOK, Backed(grants, requests), owner \in Call,
         \/ \E r \in Requests : Deny(r) \/ RevokeRequest(r)
         \/ \E g \in Grants : RevokeGrant(g)
         \/ ListRequests
  PROVE Step
<1>1. grants \in GrantMap /\ policy \in [withdrawn: BOOLEAN, auto: BOOLEAN]
  BY DEF TypeOK, GrantMap
<1>2. \A A : [g \in Grants |-> IF g \in A THEN None ELSE grants[g]] \in GrantMap
  BY <1>1 DEF GrantMap
<1>3. ASSUME NEW r \in Requests, Deny(r) PROVE Step
  <2>1. /\ UNCHANGED <<grants, policy, deleted, profile, server, held, owner>>
        /\ requests' = Without(Due \cup {r}) /\ scripts' = Abort(Due)
        /\ requests[r].status = "pending"
    BY <1>3 DEF Deny, Others
  <2> DEFINE A == {}
             D == Due \cup {r}
  <2>2. /\ \A g \in Grants : grants'[g] = IF g \in A THEN None ELSE grants[g]
        /\ A \cap Grants \subseteq Due
        /\ \A q \in Requests : q \in D => q \in Due \/ requests[q].status = "pending"
        /\ \A h : h \notin A
    BY <2>1
  <2> HIDE DEF A
  <2> QED BY <1>1, <2>1, <2>2, Revocations
<1>4. CASE ListRequests
  <2>1. /\ UNCHANGED <<grants, policy, deleted, profile, server, held, owner>>
        /\ requests' = Without(Due) /\ scripts' = Abort(Due)
    BY <1>4 DEF ListRequests, Others
  <2> DEFINE A == {}
  <2>2. /\ \A g \in Grants : grants'[g] = IF g \in A THEN None ELSE grants[g]
        /\ A \cap Grants \subseteq Due
        /\ \A h : h \notin A
    BY <2>1
  <2> HIDE DEF A
  <2> QED BY <1>1, <2>1, <2>2, Revocations
<1>5. ASSUME NEW g \in Grants, RevokeGrant(g) PROVE Step
  <2> DEFINE D == {r \in Live : requests[r].grant = g}
  <2>1. /\ UNCHANGED <<deleted, profile, server, held, owner>>
        /\ policy' = IF grants[g].scope = "*" THEN [policy EXCEPT !.withdrawn = TRUE] ELSE policy
        /\ grants' = [grants EXCEPT ![g] = None]
        /\ requests' = Without(D) /\ scripts' = Abort({g})
    BY <1>5 DEF RevokeGrant
  <2>2. policy' \in [withdrawn: BOOLEAN, auto: BOOLEAN]
    BY <1>1, <2>1
  <2>3. grants' \in GrantMap /\ \A h \in Grants : grants'[h] = IF h \in {g} THEN None ELSE grants[h]
    BY <1>1, <2>1 DEF GrantMap
  <2>4. /\ \A r \in Requests : r \in D /\ requests[r] # None => requests[r].mode = "persist"
        /\ \A r \in Requests \ D : requests[r] # None => requests[r].grant \notin {g}
    BY IdsAssumption DEF Backed, Live
  <2> HIDE DEF D
  <2> QED BY <2>1, <2>2, <2>3, <2>4, Revocations
<1>6. ASSUME NEW r \in Requests, RevokeRequest(r) PROVE Step
  <2> DEFINE g == requests[r].grant
             A == {g} \cap Active
  <2>1. /\ UNCHANGED <<policy, deleted, profile, server, held, owner>>
        /\ requests[r] # None /\ requests' = Without(Due \cup {r})
        /\ scripts' = Abort(Due \cup {r, g})
        /\ grants' = IF g \in Active THEN [grants EXCEPT ![g] = None] ELSE grants
    BY <1>6 DEF RevokeRequest, Others, Live
  <2>2. grants' \in GrantMap /\ \A h \in Grants : grants'[h] = IF h \in A THEN None ELSE grants[h]
    BY <1>1, <2>1 DEF GrantMap, Active
  <2>3. \A q \in Requests : q # r /\ requests[q] # None =>
          requests[q].grant # g \/ requests[q].grant = None
    BY <2>1 DEF Backed
  <2>4. \A q \in Requests \ (Due \cup {r}) : requests[q] # None =>
          requests[q].grant \notin A \/ requests[q].grant = None
    BY <2>3
  <2> HIDE DEF g
  <2> QED BY <1>1, <2>1, <2>2, <2>4, Revocations
<1> QED BY <1>3, <1>4, <1>5, <1>6

(* Time.                                                                     *)
LEMMA TimeSteps ==
  ASSUME TypeOK, Backed(grants, requests), owner \in Call,
         (\E r \in Requests : BecomesDue(r)) \/ (\E g \in Grants : Lapse(g))
  PROVE Step
<1>1. UNCHANGED <<policy, deleted, profile, server, held, scripts, owner>>
  BY DEF BecomesDue, Lapse, Others
<1>2. grants \in GrantMap /\ requests \in RequestMap
  BY DEF TypeOK, GrantMap, RequestMap
<1>3. scripts' \in ScriptMap /\ \A s \in Scripts : ScriptMove(s)
  BY <1>1 DEF TypeOK, ScriptMap, ScriptMove
<1>4. ASSUME NEW r \in Requests, BecomesDue(r) PROVE Step
  <2> DEFINE row == [requests[r] EXCEPT !.due = TRUE]
  <2>1. requests[r] \in Request /\ requests[r] # None
    BY <1>2, <1>4 DEF RequestMap, BecomesDue, Live
  <2>2. /\ row \in Request /\ row.mode = requests[r].mode /\ row.grant = requests[r].grant
        /\ row.status = requests[r].status
    BY <2>1 DEF Request
  <2>3. requests' = [requests EXCEPT ![r] = row] /\ UNCHANGED grants
    BY <1>4 DEF BecomesDue
  <2> HIDE DEF row
  <2>4. /\ requests' \in RequestMap /\ row # None
        /\ \A q \in Requests : requests'[q] = IF q = r THEN row ELSE requests[q]
    BY <1>2, <2>2, <2>3, NoneAssumption DEF RequestMap
  <2>5. Backed(grants, requests')
    BY <2>1, <2>2, <2>4 DEF Backed
  <2>6. \A q \in Requests : requests'[q] # None =>
          /\ requests[q] # None
          /\ \/ requests[q].status = "pending"
             \/ requests'[q].mode = requests[q].mode /\ requests'[q].status # "pending"
    BY <2>1, <2>2, <2>4
  <2>7. Change(grants, requests', Stopped)
    BY <1>2, <2>1, <2>4, <2>5, <2>6 DEF Change
  <2>8. Rest
    BY <1>1, <2>3 DEF Rest, TypeOK
  <2> QED BY <1>3, <2>3, <2>7, <2>8 DEF Step
<1>5. ASSUME NEW g \in Grants, Lapse(g) PROVE Step
  <2> DEFINE row == [grants[g] EXCEPT !.lapsed = TRUE]
  <2>1. grants[g] \in Grant /\ grants[g] # None
    BY <1>2, <1>5 DEF GrantMap, Lapse, Active
  <2>2. row \in Grant
    BY <2>1 DEF Grant
  <2>3. grants' = [grants EXCEPT ![g] = row] /\ UNCHANGED requests
    BY <1>5 DEF Lapse
  <2> HIDE DEF row
  <2>4. /\ grants' \in GrantMap
        /\ \A h \in Grants : (grants'[h] = None) <=> (grants[h] = None)
    BY <1>2, <2>1, <2>2, <2>3, NoneAssumption DEF GrantMap
  <2>5. Backed(grants', requests)
    BY <2>4 DEF Backed
  <2>6. Change(grants', requests, Stopped)
    BY <1>2, <2>4, <2>5 DEF Change
  <2>7. Rest
    BY <1>1, <2>4 DEF Rest, TypeOK
  <2> QED BY <1>3, <2>3, <2>6, <2>7 DEF Step
<1> QED BY <1>4, <1>5

(* The owner's call when what it has seen is out of date.                     *)
LEMMA Outdates ==
  ASSUME TypeOK, owner \in Call
  PROVE [owner EXCEPT !.current = FALSE] \in Call /\ [owner EXCEPT !.known = FALSE] \in Call
<1>1. ASSUME NEW c, c = [owner EXCEPT !.current = FALSE] \/ c = [owner EXCEPT !.known = FALSE]
      PROVE c \in Call
  <2>1. c \in OwnerCall
    BY <1>1 DEF Call, OwnerCall
  <2>2. c.op = owner.op /\ c.request = owner.request /\ c.decision = owner.decision
    BY <1>1 DEF Call, OwnerCall
  <2> QED BY <2>1, <2>2 DEF Call
<1> QED BY <1>1

(* The profile's authority is withdrawn.                                     *)
LEMMA Withdraws ==
  ASSUME TypeOK, Backed(grants, requests), owner \in Call, Withdraw, UNCHANGED <<policy, deleted>>,
         profile' \in [state: States, expiry: BOOLEAN],
         held' \in [kind: {"archive", "delete", "archiveUnsaved", "deleteUnused"},
                    done: BOOLEAN] \cup {None}
  PROVE Step
<1>1. /\ RevokeAll /\ scripts' = Outdated(Abort(Everything))
      /\ server' = [server EXCEPT !.inactive = TRUE]
      /\ owner' = [owner EXCEPT !.current = FALSE]
  BY DEF Withdraw
<1>2. server' \in [inactive: BOOLEAN, restoring: BOOLEAN] /\ owner' \in Call
  BY <1>1, Outdates DEF TypeOK
<1>3. Rest
  BY <1>1, <1>2 DEF Rest, TypeOK, RevokeAll
<1>4. /\ scripts' \in ScriptMap /\ Everything \cap Everything \subseteq Stopped
      /\ \A t \in Scripts : ScriptMove(t)
  BY <1>1, Stops
<1>5. Change(grants', requests', Stopped)
  BY <1>1, <1>4, RevokeAllChanges
<1> QED BY <1>3, <1>4, <1>5 DEF Step

(* The lifecycle of the profile.                                             *)
LEMMA LifecycleSteps ==
  ASSUME TypeOK, Backed(grants, requests), owner \in Call,
         \/ \E k \in {"archive", "delete"} : BeginLifecycle(k)
         \/ \E k \in {"archiveUnsaved", "deleteUnused"} : BeginUnused(k)
         \/ HostCommits \/ EndLifecycle \/ Restore \/ HostExpires \/ RevokeExpired
  PROVE Step
<1> DEFINE Kinds == {"archive", "delete", "archiveUnsaved", "deleteUnused"}
           Helds == [kind: Kinds, done: BOOLEAN] \cup {None}
           Profiles == [state: States, expiry: BOOLEAN]
<1>1. held \in Helds /\ profile \in Profiles /\ server \in [inactive: BOOLEAN, restoring: BOOLEAN]
  BY DEF TypeOK
<1>2. /\ \A k \in Kinds : [kind |-> k, done |-> FALSE] \in Helds
      /\ held # None => [held EXCEPT !.done = TRUE] \in Helds
      /\ \A t \in States : [profile EXCEPT !.state = t] \in Profiles
      /\ [profile EXCEPT !.expiry = FALSE] \in Profiles
      /\ [state |-> "deleted", expiry |-> TRUE] \in Profiles
      /\ [server EXCEPT !.restoring = TRUE] \in [inactive: BOOLEAN, restoring: BOOLEAN]
      /\ [server EXCEPT !.restoring = TRUE].inactive = server.inactive
  BY <1>1 DEF States
<1>3. ASSUME Withdraw, UNCHANGED <<policy, deleted>>, profile' \in Profiles, held' \in Helds
      PROVE Step
  BY <1>3, Withdraws
<1>4. ASSUME UNCHANGED <<grants, requests, policy, deleted, scripts, owner>>,
             profile' \in Profiles, held' \in Helds,
             server' \in [inactive: BOOLEAN, restoring: BOOLEAN], server'.inactive => server.inactive
      PROVE Step
  <2>1. Rest
    BY <1>4 DEF Rest, TypeOK
  <2>2. Change(grants', requests', Stopped)
    BY <1>4, NoChange
  <2>3. scripts' \in ScriptMap /\ \A s \in Scripts : ScriptMove(s)
    BY <1>4 DEF TypeOK, ScriptMap, ScriptMove
  <2> QED BY <2>1, <2>2, <2>3 DEF Step
<1> HIDE DEF Helds, Profiles
<1>5. ASSUME NEW k \in {"archive", "delete"}, BeginLifecycle(k) PROVE Step
  BY <1>1, <1>2, <1>3, <1>5 DEF BeginLifecycle
<1>6. ASSUME NEW k \in {"archiveUnsaved", "deleteUnused"}, BeginUnused(k) PROVE Step
  BY <1>1, <1>2, <1>4, <1>6 DEF BeginUnused, stored
<1>7. CASE HostCommits
  BY <1>1, <1>2, <1>4, <1>7 DEF HostCommits, stored, States
<1>8. CASE EndLifecycle
  <2>1. held' \in Helds
    BY <1>8 DEF EndLifecycle, Helds
  <2> QED BY <1>1, <1>3, <1>4, <1>8, <2>1 DEF EndLifecycle
<1>9. CASE Restore
  BY <1>1, <1>2, <1>4, <1>9 DEF Restore, stored, States
<1>10. CASE HostExpires
  BY <1>1, <1>2, <1>4, <1>10 DEF HostExpires, stored
<1>11. CASE RevokeExpired
  BY <1>1, <1>2, <1>3, <1>11 DEF RevokeExpired
<1> QED BY <1>5, <1>6, <1>7, <1>8, <1>9, <1>10, <1>11

(* The lifecycle of the project, a mark that is taken back, a restart.         *)
LEMMA ProjectSteps ==
  ASSUME TypeOK, Backed(grants, requests), owner \in Call,
         ProjectDeleted \/ ProjectCreated \/ MarkActive \/ ServerRestart
  PROVE Step
<1>1. owner \in Call /\ OwnerIdle \in Call /\ Idle \in Script
  BY DEF Call, OwnerCall, OwnerIdle, Scopes, Origins, Script, Idle
<1>2. CASE ProjectDeleted
  <2>1. /\ RevokeAll /\ scripts' = Abort(Everything) /\ deleted' = TRUE
        /\ owner' = [owner EXCEPT !.known = FALSE] /\ UNCHANGED <<policy, profile, server, held>>
    BY <1>2 DEF ProjectDeleted
  <2>2. owner' \in Call
    BY <2>1, Outdates
  <2>3. Rest
    BY <2>1, <2>2 DEF Rest, TypeOK, RevokeAll
  <2>4. /\ scripts' \in ScriptMap /\ Everything \cap Everything \subseteq Stopped
        /\ \A t \in Scripts : ScriptMove(t)
    BY <2>1, Stops
  <2>5. Change(grants', requests', Stopped)
    BY <2>1, <2>4, RevokeAllChanges
  <2> QED BY <2>3, <2>4, <2>5 DEF Step
<1>3. CASE ProjectCreated
  <2>1. /\ UNCHANGED <<grants, requests, policy, profile, server, held, scripts>> /\ deleted' = FALSE
        /\ owner' = [owner EXCEPT !.known = FALSE]
    BY <1>3 DEF ProjectCreated, stored
  <2>2. owner' \in Call
    BY <2>1, Outdates
  <2>3. Rest
    BY <2>1, <2>2 DEF Rest, TypeOK
  <2>4. Change(grants', requests', Stopped)
    BY <2>1, NoChange
  <2>5. scripts' \in ScriptMap /\ \A s \in Scripts : ScriptMove(s)
    BY <2>1 DEF TypeOK, ScriptMap, ScriptMove
  <2> QED BY <2>3, <2>4, <2>5 DEF Step
<1>4. CASE MarkActive
  <2>1. /\ UNCHANGED <<grants, requests, policy, deleted, profile, held>>
        /\ server' = [inactive |-> FALSE, restoring |-> FALSE]
        /\ scripts' = Outdated(scripts) /\ owner' = [owner EXCEPT !.current = FALSE]
    BY <1>4 DEF MarkActive, stored
  <2>2. owner' \in Call
    BY <2>1, Outdates
  <2>3. Rest
    BY <2>1, <2>2 DEF Rest, TypeOK
  <2>4. Change(grants', requests', Stopped)
    BY <2>1, NoChange
  <2>5. Abort({}) = scripts
    BY DEF Abort, TypeOK
  <2>6. scripts' \in ScriptMap /\ \A s \in Scripts : ScriptMove(s)
    BY <2>1, <2>5, Stops
  <2> QED BY <2>3, <2>4, <2>6 DEF Step
<1>5. CASE ServerRestart
  <2>1. /\ UNCHANGED <<grants, requests, policy, deleted, profile>>
        /\ server' = [inactive |-> FALSE, restoring |-> FALSE] /\ held' = None
        /\ scripts' = [s \in Scripts |-> Idle] /\ owner' = OwnerIdle
    BY <1>5 DEF ServerRestart, stored
  <2>2. Rest
    BY <1>1, <2>1 DEF Rest, TypeOK
  <2>3. Change(grants', requests', Stopped)
    BY <2>1, NoChange
  <2>4. scripts' \in ScriptMap /\ \A s \in Scripts : ScriptMove(s)
    BY <1>1, <2>1 DEF ScriptMap, ScriptMove, Idle
  <2> QED BY <2>2, <2>3, <2>4 DEF Step
<1> QED BY <1>2, <1>3, <1>4, <1>5

LEMMA NextSteps ==
  ASSUME TypeOK, Backed(grants, requests), owner \in Call, Next
  PROVE Step
<1>1. ASSUME NEW s \in Scripts,
             \/ ScriptStep(s) \/ Finish(s)
             \/ \E o \in Origins : Ask(s, o) \/ HostDenies(s, o)
      PROVE Step
  <2>1. CASE ScriptStep(s)
    BY <2>1, AnsweredSteps, AuthorizeSteps, RunSteps DEF ScriptStep
  <2>2. CASE Finish(s)
    BY <2>2, ScriptSteps DEF Origins
  <2>3. CASE \E o \in Origins : Ask(s, o) \/ HostDenies(s, o)
    BY <2>3, ScriptSteps
  <2> QED BY <1>1, <2>1, <2>2, <2>3
<1>2. CASE \E scope \in OwnerScopes : CreateAsk(scope)
  BY <1>2, AskSteps
<1>3. ASSUME NEW r \in Requests,
             \/ \E d \in {"retry", "one-hour", "persist"} : DecideAsk(r, d)
             \/ Deny(r) \/ RevokeRequest(r) \/ BecomesDue(r)
      PROVE Step
  BY <1>3, AskSteps, RevokeSteps, TimeSteps
<1>4. CASE OwnerAnswered \/ Create \/ Decide \/ ListRequests
  BY <1>4, AskSteps, CreateSteps, DecideSteps, RevokeSteps
<1>5. CASE \E g \in Grants : RevokeGrant(g) \/ Lapse(g)
  BY <1>5, RevokeSteps, TimeSteps
<1>6. CASE \E e \in BOOLEAN : SetAutoApproval(e)
  BY <1>6, AskSteps
<1>7. CASE \/ \E k \in {"archive", "delete"} : BeginLifecycle(k)
           \/ \E k \in {"archiveUnsaved", "deleteUnused"} : BeginUnused(k)
  BY <1>7, LifecycleSteps
<1>8. CASE LifecycleStep \/ Restore \/ HostExpires
  BY <1>8, LifecycleSteps, ProjectSteps DEF LifecycleStep
<1>9. CASE ProjectDeleted \/ ProjectCreated \/ ServerRestart
  BY <1>9, ProjectSteps
<1> QED BY <1>1, <1>2, <1>3, <1>4, <1>5, <1>6, <1>7, <1>8, <1>9 DEF Next

-----------------------------------------------------------------------------
(* The invariant.                                                            *)

(* What a script was authorized by is an id that authorizes something, if it   *)
(* is still stored: neither pending nor the history of a grant.               *)
Terms ==
  \A s \in Scripts : scripts[s].pc \in {"authorized", "running"} =>
    /\ scripts[s].by \in Everything
    /\ scripts[s].by \in Live => /\ requests[scripts[s].by].status # "pending"
                                /\ requests[scripts[s].by].mode # "persist"

(* On an inactive profile nothing is left for a script to run by, even if       *)
(* another script's denied request comes to a new grant.                      *)
Inactive ==
  server.inactive => \A s \in Scripts :
    /\ scripts[s].pc = "authorized" => scripts[s].by \notin Active \cup Live
    /\ ~Runs(s)

IInv == /\ TypeOK /\ owner \in Call /\ Backed(grants, requests) /\ Terms
        /\ RunningIsCovered /\ TombstonesHold /\ Inactive

LEMMA InitIInv == Init => IInv
<1> SUFFICES ASSUME Init PROVE IInv
  OBVIOUS
<1> USE DEF Init
<1>1. Idle \in Script /\ Idle.pc = "idle" /\ OwnerIdle \in Call /\ OwnerIdle \in OwnerCall
  BY DEF Idle, Script, Call, OwnerCall, OwnerIdle, Scopes, Origins
<1>2. TypeOK
  BY <1>1 DEF TypeOK, States
<1>3. Backed(grants, requests) /\ TombstonesHold
  BY DEF Backed, TombstonesHold, Active
<1>4. Terms /\ RunningIsCovered /\ Inactive
  BY <1>1 DEF Terms, RunningIsCovered, Inactive, Runs
<1> QED BY <1>1, <1>2, <1>3, <1>4 DEF IInv

LEMMA StepIInv == IInv /\ [Next]_vars => IInv'
<1> SUFFICES ASSUME IInv, [Next]_vars PROVE IInv'
  OBVIOUS
<1>1. CASE UNCHANGED vars
  BY <1>1 DEF vars, IInv, TypeOK, Backed, Terms, RunningIsCovered, TombstonesHold, Inactive,
              Runs, Active, Live, Everything, Call
<1>2. CASE Next
  <2>1. Step
    BY <1>2, NextSteps DEF IInv
  <2>2. TypeOK' /\ owner' \in Call /\ Backed(grants', requests')
    BY <2>1 DEF Step, Rest, Change, TypeOK, GrantMap, RequestMap, ScriptMap, Call
  <2>3. Terms'
    <3> SUFFICES ASSUME NEW s \in Scripts, scripts'[s].pc \in {"authorized", "running"}
                 PROVE /\ scripts'[s].by \in Everything
                       /\ scripts'[s].by \in Live' =>
                            /\ requests'[scripts'[s].by].status # "pending"
                            /\ requests'[scripts'[s].by].mode # "persist"
      BY DEF Terms, Everything
    <3> DEFINE b == scripts'[s].by
    <3>1. CASE scripts[s].pc \in {"authorized", "running"} /\ b = scripts[s].by
      <4>1. b \in Everything
        BY <3>1 DEF IInv, Terms
      <4>2. ASSUME b \in Live' PROVE requests'[b].status # "pending" /\ requests'[b].mode # "persist"
        <5>1. b \in Requests /\ requests'[b] # None /\ ~Unnamed(b)
          BY <3>1, <4>2 DEF Live, Unnamed
        <5>2. /\ requests[b] # None
              /\ \/ requests[b].status = "pending"
                 \/ requests'[b].mode = requests[b].mode /\ requests'[b].status # "pending"
          BY <2>1, <5>1 DEF Step, Change
        <5>3. requests[b].status # "pending" /\ requests[b].mode # "persist"
          BY <3>1, <5>1, <5>2 DEF IInv, Terms, Live
        <5> QED BY <5>2, <5>3
      <4> QED BY <4>1, <4>2
    <3>2. CASE Authority(grants', requests', b)
      BY <3>2, IdsAssumption DEF Authority, Everything, Live
    <3> QED BY <2>1, <3>1, <3>2 DEF Step, ScriptMove
  <2>4. RunningIsCovered'
    <3> SUFFICES ASSUME NEW s \in Scripts, Runs(s)' PROVE scripts'[s].by \in (Active \cup Live)'
      BY DEF RunningIsCovered
    <3> DEFINE b == scripts'[s].by
    <3>1. CASE scripts[s].pc = "running" /\ b = scripts[s].by /\ ~scripts[s].aborted
      <4>1. b \in Active \cup Live
        BY <3>1 DEF IInv, RunningIsCovered, Runs
      <4>2. b \notin Stopped
        BY DEF Stopped, Runs
      <4>3. b \in Live => requests[b].status # "pending" /\ requests[b].mode # "persist"
        BY <3>1 DEF IInv, Terms
      <4> QED BY <2>1, <4>1, <4>2, <4>3 DEF Step, Change, Active, Live
    <3>2. scripts'[s].pc = "running" /\ ~scripts'[s].aborted
      BY DEF Runs
    <3> QED BY <2>1, <3>1, <3>2 DEF Step, ScriptMove
  <2>5. TombstonesHold'
    <3> SUFFICES ASSUME deleted', NEW g \in Grants PROVE grants'[g] = None
      BY DEF TombstonesHold, Active
    <3>1. CASE RevokeAll
      BY <3>1 DEF RevokeAll
    <3>2. CASE deleted
      BY <2>1, <3>2 DEF IInv, TombstonesHold, Active, Step, Change
    <3> QED BY <2>1, <3>1, <3>2 DEF Step, Rest
  <2>6. Inactive'
    <3> SUFFICES ASSUME server'.inactive, NEW s \in Scripts
                 PROVE /\ scripts'[s].pc = "authorized" => scripts'[s].by \notin (Active \cup Live)'
                       /\ ~Runs(s)'
      BY DEF Inactive
    <3>1. CASE RevokeAll
      <4>1. (Active \cup Live)' = {}
        BY <3>1 DEF RevokeAll, Active, Live
      <4> QED BY <2>4, <4>1 DEF RunningIsCovered
    <3>2. CASE server.inactive
      <4>1. ~Runs(s) /\ (scripts[s].pc = "authorized" => scripts[s].by \notin Active \cup Live)
        BY <3>2 DEF IInv, Inactive
      <4>2. scripts'[s].pc = "authorized" =>
              scripts[s].pc = "authorized" /\ scripts'[s].by = scripts[s].by
        BY <2>1, <3>2 DEF Step, ScriptMove
      <4>3. \A b : scripts[s].by = b /\ b \notin Active \cup Live => b \notin (Active \cup Live)'
        BY <2>1 DEF Step, Change, Active, Live, Unnamed
      <4>4. ~Runs(s)'
        BY <2>1, <3>2, <4>1, <4>3 DEF Step, ScriptMove, Runs
      <4> QED BY <4>1, <4>2, <4>3, <4>4
    <3> QED BY <2>1, <3>1, <3>2 DEF Step, Rest
  <2> QED BY <2>2, <2>3, <2>4, <2>5, <2>6 DEF IInv, Call
<1> QED BY <1>1, <1>2

LEMMA Invariance == Spec => []IInv
  BY InitIInv, StepIInv, PTL DEF Spec

(* Every state is well typed: the stores, the memory of the server, the queue,  *)
(* the calls of agents and of the owner.                                      *)
THEOREM TypeCorrect == Spec => []TypeOK
<1>1. IInv => TypeOK
  BY DEF IInv
<1> QED BY <1>1, Invariance, PTL

(* A script that runs without having been told to stop has a grant that still   *)
(* holds (runAuthorizedAgentScript, abortGrantCalls, and all that revokes).    *)
THEOREM NothingRunsUncovered == Spec => []RunningIsCovered
<1>1. IInv => RunningIsCovered
  BY DEF IInv
<1> QED BY <1>1, Invariance, PTL

(* A persistent approval and the grant it names are revoked together           *)
(* (revokeGrant, revokeGrantRequest, revokeProfile, revokeProject).            *)
THEOREM ApprovalsStayBacked == Spec => []ApprovalsAreBacked
<1>1. IInv => ApprovalsAreBacked
  BY DEF IInv, Backed, ApprovalsAreBacked, Active, Live
<1> QED BY <1>1, Invariance, PTL

(* No grant becomes active for a deleted project, whatever was under way        *)
(* (insertGrant, markProjectDeleted).                                         *)
THEOREM DeletedStaysClosed == Spec => []TombstonesHold
<1>1. IInv => TombstonesHold
  BY DEF IInv
<1> QED BY <1>1, Invariance, PTL

(* Nothing runs on a profile that the server knows to be archived or deleted    *)
(* (markProfileAuthorityInactive, profileAuthorityIsCurrent).                 *)
THEOREM NothingRunsInactive == Spec => []InactiveRunsNothing
<1>1. IInv => InactiveRunsNothing
  BY DEF IInv, Inactive, InactiveRunsNothing
<1> QED BY <1>1, Invariance, PTL

(* Once the owner has withdrawn Default Access, only the owner's calls create   *)
(* grants (defaultAccessGrant, originAutoApprovalGrant).                      *)
THEOREM WithdrawalIsFinal == Spec => WithdrawalHolds
<1> DEFINE Holds == policy.withdrawn /\ policy'.withdrawn /\ owner' = owner
                      => \A g \in Grants : grants'[g] # None => grants[g] # None
<1>1. IInv /\ [Next]_vars => [Holds]_vars
  <2> SUFFICES ASSUME IInv, [Next]_vars PROVE [Holds]_vars
    OBVIOUS
  <2>1. CASE Next
    BY <2>1, NextSteps DEF IInv, Step, Rest
  <2>2. CASE UNCHANGED vars
    BY <2>2
  <2> QED BY <2>1, <2>2
<1> QED BY <1>1, Invariance, PTL DEF Spec, WithdrawalHolds
=============================================================================
