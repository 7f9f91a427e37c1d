-------------------------- MODULE MCAnalyticsCache --------------------------
(***************************************************************************)
(* An instance of AnalyticsCache for TLC: the KPIs, which depend on every   *)
(* kind of metrics.                                                        *)
(***************************************************************************)
EXTENDS AnalyticsCache, TLC

CONSTANTS system, auth

OfKpis == [s \in Section |-> <<system, auth>>]
=============================================================================
