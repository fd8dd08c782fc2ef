----------------------------- MODULE LaneControl -----------------------------
(***************************************************************************)
(* What the Control Lease manager promises its callers, without saying how *)
(* (CONTEXT.md, "Control Lease"; docs/adr/0021).  A call asks for a lane,   *)
(* waits, and is then either refused, for good, or holds the lane until it  *)
(* lets go.  One call holds a lane at a time, agents get theirs in the     *)
(* order they asked, and nobody gets a lane once the manager is shut down.   *)
(* One step of the manager may settle several calls at once.                *)
(***************************************************************************)
EXTENDS Naturals

CONSTANTS Calls,    \* the calls ever made to the manager
          Lanes,    \* every lane of every profile
          Ordered   \* the lanes that serve their waiters in arrival order

VARIABLES phase,    \* what the caller of each call knows about it
          lane,     \* the lane each call asked for
          since,    \* the arrival number of each call that had to wait
          closed    \* the manager is shut down

vars == <<phase, lane, since, closed>>

\* The moves a caller can see: a refusal and a finished lease are final.
Moves ==
  {<<"idle", "holding">>, <<"idle", "waiting">>, <<"idle", "refused">>,
   <<"waiting", "holding">>, <<"waiting", "refused">>,
   <<"holding", "done">>}

InLane(c, d) == lane[c] = lane[d]

\* One holder per lane.
Exclusive ==
  \A c, d \in Calls :
    phase[c] = "holding" /\ phase[d] = "holding" /\ InLane(c, d) => c = d

Init ==
  /\ phase = [c \in Calls |-> "idle"]
  /\ lane \in [Calls -> Lanes]
  /\ since = [c \in Calls |-> 0]
  /\ closed = FALSE

\* c gets its lane in this step.
Granted(c) == phase[c] # "holding" /\ phase'[c] = "holding"

Next ==
  /\ \A c \in Calls : phase'[c] # phase[c] => <<phase[c], phase'[c]>> \in Moves
  /\ \A c \in Calls :
       phase[c] # "idle" /\ lane[c] \in Ordered => since'[c] = since[c]
  /\ Exclusive'
  \* arrival order: whoever gets the lane leaves behind only later arrivals
  /\ \A c, d \in Calls :
       /\ Granted(c) /\ InLane(c, d) /\ lane[c] \in Ordered
       /\ phase[d] = "waiting" /\ phase'[d] = "waiting"
       => phase[c] = "waiting" /\ since[c] <= since[d]
  /\ closed =>
       \A c \in Calls : phase'[c] = "holding" => phase[c] = "holding"
  /\ closed => closed'
  /\ lane' = lane

Spec == Init /\ [][Next]_vars
=============================================================================
