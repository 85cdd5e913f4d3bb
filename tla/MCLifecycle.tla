------------------------------ MODULE MCLifecycle ------------------------------
(* Values of the constants for the runs of Lifecycle.                        *)
EXTENDS Lifecycle, TLC

NoFaults == {}
AllFaults == {"start", "listen", "accept"}
===============================================================================
