----------------------------- MODULE MCInternet -----------------------------
(* The routes that may be added in the model-checked instance.             *)
EXTENDS Lab7

\* Two routes of one length for the net of h1, more specific than the default.
const_ExtraRoutes ==
    {[router |-> "r2", route |-> Route(0, 2, 4, 2)],
     [router |-> "r2", route |-> Route(1, 2, NO_HOP, 2)]}
=============================================================================
