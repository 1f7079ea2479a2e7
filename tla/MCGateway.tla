----------------------------- MODULE MCGateway -----------------------------
(* The deployed system for TLC: the demo requests and one more, the stubs  *)
(* of the repository under the names main.py gives them.                   *)
EXTENDS Gateway

\* A tenant served by the second stub, from its home jurisdiction.
MCNeptune ==
  [tenant_id |-> [key |-> "bank_neptune", form |-> {"padded"}], scenario |-> None,
   report_type |-> "sensitive", jurisdiction |-> "APAC", payload_asks_failure |-> FALSE]

MCReports == Demos \cup {MCNeptune}
MCMainRegistries == {MainRegistry}
MCStrategies == [p \in Providers |-> StrategyOfStub[p]]
=============================================================================
