--------------------------- MODULE MCControlLease ---------------------------
(***************************************************************************)
(* A small instance of ControlLease: two profiles on two hosts and four     *)
(* calls.  Lanes do not interact except through revocation and dispose, so  *)
(* the calls are laid out to fill one lane (four owners; three agents) or   *)
(* to mix lanes of one profile and of both.  Calls of the same lane are     *)
(* interchangeable and are made in the order of their numbers.  (TLC's own  *)
(* symmetry sets would not be sound with the liveness property.)            *)
(***************************************************************************)
EXTENDS ControlLease, Sequences

CONSTANTS h1, h2, p1, p2

MCCalls == 1..4
MCHostOf == [p \in Profiles |-> IF p = p1 THEN h1 ELSE h2]

O(p) == <<p, OwnerLane>>
A(p) == <<p, CHOOSE a \in AgentLanes : TRUE>>
Layouts == {<<O(p1), O(p1), O(p1), O(p1)>>, <<A(p1), A(p1), A(p1), O(p2)>>,
            <<O(p1), O(p1), A(p1), A(p1)>>, <<O(p1), O(p1), A(p1), A(p2)>>}

MCInit == Init /\ key \in Layouts

MCNext ==
  /\ Next
  /\ \A c \in 1..3 :
       status[c] = "idle" /\ key[c] = key[c + 1] => status'[c + 1] = "idle"

MCSpec == MCInit /\ [][MCNext]_vars /\ Fairness
=============================================================================
