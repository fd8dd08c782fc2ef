-------------------------- MODULE MCBrowserInstances --------------------------
(* Small instances of BrowserInstances, for safety: with TLC's symmetry sets. *)
EXTENDS BrowserInstances, TLC

Symmetry == Permutations(Profiles) \cup Permutations(Scripts)
            \cup Permutations(Panels) \cup Permutations(Pages)
=============================================================================
