-------------------------- MODULE ReportGovernance --------------------------
(***************************************************************************)
(* What the gateway promises about every report, without saying how: it is *)
(* submitted at most once and only if the admission rules permit it; it    *)
(* gets one verdict, which is the truth about the submission; evidence of  *)
(* the verdict exists from then on, until the process that holds it dies;  *)
(* and the client is told the verdict or an error, once.                   *)
(*                                                                         *)
(* Evidence is the set of verdicts some closed record of the report gives, *)
(* wherever the record is: in the gateway, under way, or in the ingester.  *)
(***************************************************************************)
EXTENDS FiniteSets

CONSTANT Requests

Verdicts == {"blocked", "completed", "blocked_provider_failure", "fallback"}

VARIABLES
  permitted,  \* do the admission rules permit the report?
  submitted,  \* has the supervisory service taken it?
  evidence,   \* the verdicts that records of it give
  told,       \* what the client was told, "nothing" at first
  abandoned   \* the process that worked on it died

vars == <<permitted, submitted, evidence, told, abandoned>>

Init ==
  /\ permitted \in [Requests -> BOOLEAN]
  /\ submitted = [r \in Requests |-> FALSE]
  /\ evidence = [r \in Requests |-> {}]
  /\ told = [r \in Requests |-> "nothing"]
  /\ abandoned = [r \in Requests |-> FALSE]

\* The report is still being worked on.
Open(r) == told[r] = "nothing" /\ ~abandoned[r]

\* The supervisory service takes the report.
Submit(r) ==
  /\ Open(r) /\ ~submitted[r] /\ evidence[r] = {} /\ permitted[r]
  /\ submitted' = [submitted EXCEPT ![r] = TRUE]
  /\ UNCHANGED <<permitted, evidence, told, abandoned>>

\* The verdict a report may get.
TrueVerdict(r, verdict) ==
  /\ verdict = "completed" <=> submitted[r]
  /\ verdict = "blocked" <=> ~permitted[r]

\* The record is closed.
Conclude(r, verdict) ==
  /\ Open(r) /\ evidence[r] = {} /\ TrueVerdict(r, verdict)
  /\ evidence' = [evidence EXCEPT ![r] = {verdict}]
  /\ UNCHANGED <<permitted, submitted, told, abandoned>>

\* The client gets the verdict on record.
TellVerdict(r) ==
  /\ Open(r) /\ evidence[r] # {}
  /\ \E verdict \in evidence[r] : told' = [told EXCEPT ![r] = verdict]
  /\ UNCHANGED <<permitted, submitted, evidence, abandoned>>

\* The client gets an error: nothing happened to the report, or it went out and
\* only its answer could not be rendered.
TellError(r) ==
  /\ Open(r)
  /\ \/ evidence[r] = {} /\ ~submitted[r]
     \/ evidence[r] = {"completed"}
  /\ told' = [told EXCEPT ![r] = "error"]
  /\ UNCHANGED <<permitted, submitted, evidence, abandoned>>

\* The process dies with the reports it has begun, and what evidence was only in
\* its memory is gone; or a message that outlived the process is lost.
Die ==
  /\ abandoned' \in [Requests -> BOOLEAN]
  /\ evidence' \in [Requests -> SUBSET Verdicts]
  /\ \A r \in Requests :
       /\ abandoned[r] => abandoned'[r]
       /\ evidence'[r] \subseteq evidence[r]
       /\ ~abandoned'[r] => evidence'[r] = evidence[r]
  /\ UNCHANGED <<submitted, told, permitted>>

Next ==
  \/ Die
  \/ \E r \in Requests : \/ Submit(r) \/ TellVerdict(r) \/ TellError(r)
                         \/ \E verdict \in Verdicts : Conclude(r, verdict)

Spec == Init /\ [][Next]_vars

-----------------------------------------------------------------------------
TypeOK ==
  /\ permitted \in [Requests -> BOOLEAN]
  /\ submitted \in [Requests -> BOOLEAN]
  /\ evidence \in [Requests -> SUBSET Verdicts]
  /\ told \in [Requests -> Verdicts \cup {"nothing", "error"}]
  /\ abandoned \in [Requests -> BOOLEAN]

\* One story, the true one: the records of a report never give two verdicts;
\* they, and what the client was told, say "completed" exactly of reports that
\* were submitted and "blocked" exactly of those the rules forbid; a client
\* that was told a verdict was told the one on record; and a report the rules
\* forbid never went out.
OneTrueStory ==
  \A r \in Requests :
    /\ submitted[r] => permitted[r]
    /\ \A verdict \in evidence[r] \cup ({told[r]} \cap Verdicts) :
         TrueVerdict(r, verdict)
    /\ \A v, w \in evidence[r] \cup ({told[r]} \cap Verdicts) : v = w
=============================================================================
