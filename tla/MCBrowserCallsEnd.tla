-------------------------- MODULE MCBrowserCallsEnd --------------------------
(***************************************************************************)
(* An instance of BrowserInstances for the queue for room, small enough for *)
(* liveness.  A script wakes profile p1 and fills the one place; two page   *)
(* calls, for p2 and for p2 or p3, arrive after that, in this order.  The   *)
(* script may be using its instance, have ended or have been disturbed by   *)
(* then, so both may queue, and find the instance pinned or evict it.       *)
(*                                                                         *)
(* Idle timers stop nothing here: they multiply the states by more than ten *)
(* (the safety run has them).                                               *)
(***************************************************************************)
EXTENDS BrowserInstances

CONSTANTS p1, p2, p3, s1, n1, n2

Goals(c) == IF c = s1 THEN {p1} ELSE IF c = n1 THEN {p2} ELSE {p2, p3}
Arrives(c) == call[c].pc = "idle" /\ call'[c].pc # "idle"

MCNext ==
  /\ Next
  /\ \A c \in Calls : call'[c].goal \in Goals(c) \cup {None}
  /\ Arrives(n1) => call[s1].pc \notin {"idle", "entering", "awaiting"}
  /\ Arrives(n2) => call[n1].pc # "idle"
  /\ \A s \in stops' : s.by # "timer"
MCSpec == Init /\ [][MCNext]_vars /\ Fairness
=============================================================================
