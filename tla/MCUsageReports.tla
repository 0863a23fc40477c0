--------------------------- MODULE MCUsageReports ---------------------------
(* An instance of UsageReports for TLC: a public and a private repository, *)
(* a query that names its range twice, in either order, and two spikes     *)
(* that compete with the caps for a place among the alerts.                *)
EXTENDS UsageReports

CONSTANTS open, closed

Asked(visibility, days) == [visibility |-> visibility, days |-> days]

MCQuestion == {Asked("admin", <<2>>), Asked("public", <<2, 1>>), Asked("public", <<1, 2>>)}

MCCapUsd == (open :> 2) @@ (closed :> 1)

Spike(severity, score) ==
    [kind |-> "spend_spike", repo |-> open, severity |-> severity, score |-> score]

MCSpikeAlerts == {Spike("critical", 150), Spike("warning", 150)}
=============================================================================
