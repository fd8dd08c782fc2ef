----------------------------- MODULE MCActivity -----------------------------
(* A small instance of Activity.  Events are numbers, their times of day.    *)
EXTENDS Activity
=============================================================================
