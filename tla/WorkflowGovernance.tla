------------------------- MODULE WorkflowGovernance -------------------------
(***************************************************************************)
(* WorkflowEngine implements ReportGovernance.  The mapping forgets the    *)
(* tasks, events, counters and providers and keeps, for each report, the   *)
(* reference's opinion of it, its submission, the verdicts of the closed   *)
(* records that exist anywhere, and the client's answer.                   *)
(***************************************************************************)
EXTENDS WorkflowEngine

RecordsOf(r) == {store[r], wire[r], ingested[r]} \ {NoRecord}

VerdictsOf(r) == {record.status : record \in {e \in RecordsOf(r) : Closed(e)}}

ToldOf(r) ==
  IF response[r] = NoResponse THEN "nothing" ELSE response[r].status

Permission == [r \in Requests |-> Permitted(request[r])]
Submission == [r \in Requests |-> submitted[r] = 1]
Evidence   == [r \in Requests |-> VerdictsOf(r)]
Told       == [r \in Requests |-> ToldOf(r)]
Abandoned  == [r \in Requests |-> pc[r] = "lost"]

Gov == INSTANCE ReportGovernance WITH
  permitted <- Permission, submitted <- Submission, evidence <- Evidence,
  told <- Told, abandoned <- Abandoned

\* Every step of the engine, whatever is interleaved with it and whenever the
\* process dies, is a step the promises about its reports allow, or none.
GovernanceKept == Gov!Spec
=============================================================================
