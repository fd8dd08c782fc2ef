------------------------------ MODULE LaunchLock ------------------------------
(***************************************************************************)
(* What the launch lock of a profile promises, whoever starts, stops or      *)
(* crashes: a launch takes it once, before it has a browser, keeps it for as *)
(* long as the browser may serve the profile, and gives it back once, when   *)
(* the browser is on its way out.  Nobody gets it from another's hands, so   *)
(* two serving browsers, or one and maintenance, never use the data of one   *)
(* profile.                                                                *)
(***************************************************************************)
CONSTANTS Profiles, Launches, Nobody

VARIABLES holder,   \* per profile: the launch that has the lock, or "maintenance"
          stage,    \* per launch: how far it has come
          data      \* per launch: the profile whose data it may use

vars == <<holder, stage, data>>

Init ==
  /\ holder = [p \in Profiles |-> Nobody]
  /\ stage = [i \in Launches |-> "new"]
  /\ data = [i \in Launches |-> Nobody]

Moves(i, from, to) == stage[i] = from /\ stage' = [stage EXCEPT ![i] = to]

Take(i, p) ==
  /\ holder[p] = Nobody
  /\ holder' = [holder EXCEPT ![p] = i]
  /\ data' = [data EXCEPT ![i] = p]
  /\ Moves(i, "new", "preparing")

GiveUp(i) == Moves(i, "new", "over") /\ UNCHANGED <<holder, data>>

Serve(i) == Moves(i, "preparing", "serving") /\ UNCHANGED <<holder, data>>

Leave(i) ==
  /\ Moves(i, "preparing", "leaving") \/ Moves(i, "serving", "leaving")
  /\ UNCHANGED <<holder, data>>

GiveBack(i) ==
  /\ Moves(i, "leaving", "over")
  /\ holder[data[i]] = i
  /\ holder' = [holder EXCEPT ![data[i]] = Nobody]
  /\ data' = [data EXCEPT ![i] = Nobody]

Maintain(p) ==
  /\ holder[p] = Nobody
  /\ holder' = [holder EXCEPT ![p] = "maintenance"]
  /\ UNCHANGED <<stage, data>>

Maintained(p) ==
  /\ holder[p] = "maintenance"
  /\ holder' = [holder EXCEPT ![p] = Nobody]
  /\ UNCHANGED <<stage, data>>

Next ==
  \/ \E i \in Launches :
       \/ \E p \in Profiles : Take(i, p)
       \/ GiveUp(i) \/ Serve(i) \/ Leave(i) \/ GiveBack(i)
  \/ \E p \in Profiles : Maintain(p) \/ Maintained(p)

Spec == Init /\ [][Next]_vars
=============================================================================
