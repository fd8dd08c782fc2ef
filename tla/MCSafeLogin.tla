----------------------------- MODULE MCSafeLogin -----------------------------
(* Small instances of SafeLogin.  Sessions, exits and panels are model values *)
(* without symmetry, since the run checks a liveness property.               *)
EXTENDS SafeLogin

\* The behaviours without a reconcile: every session ends by an exit.
ExitsOnly == Init /\ [][Next /\ ~Reconcile]_vars
=============================================================================
