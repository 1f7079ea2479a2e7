---------------------- MODULE ReportGovernance_proofs ----------------------
(***************************************************************************)
(* The promises of ReportGovernance, taken together, leave room for one    *)
(* true story only.  OneTrueStory is inductive with TypeOK: a verdict is   *)
(* given, and a report goes out, only while nothing has been told and no   *)
(* verdict is on record, and what is on record or told afterwards is that  *)
(* verdict or less.                                                        *)
(***************************************************************************)
EXTENDS ReportGovernance, TLAPS

LEMMA StoryInit == Init => TypeOK /\ OneTrueStory
  BY DEF Init, TypeOK, OneTrueStory, TrueVerdict, Verdicts

LEMMA TypeStep == TypeOK /\ [Next]_vars => TypeOK'
<1> SUFFICES ASSUME TypeOK, [Next]_vars PROVE TypeOK'
  OBVIOUS
<1>1. CASE Die
  BY <1>1 DEF TypeOK, Die
<1>2. ASSUME NEW r \in Requests, Submit(r) \/ TellVerdict(r) \/ TellError(r)
      PROVE  TypeOK'
  BY <1>2 DEF TypeOK, Submit, TellVerdict, TellError
<1>3. ASSUME NEW r \in Requests, NEW verdict \in Verdicts, Conclude(r, verdict)
      PROVE  TypeOK'
  BY <1>3 DEF TypeOK, Conclude
<1>4. CASE UNCHANGED vars
  BY <1>4 DEF TypeOK, vars
<1> QED
  BY <1>1, <1>2, <1>3, <1>4 DEF Next

LEMMA StoryStep == TypeOK /\ OneTrueStory /\ [Next]_vars => OneTrueStory'
<1> SUFFICES ASSUME TypeOK, OneTrueStory, [Next]_vars, NEW r \in Requests
             PROVE  /\ submitted'[r] => permitted'[r]
                    /\ \A verdict \in evidence'[r] \cup ({told'[r]} \cap Verdicts) :
                         TrueVerdict(r, verdict)'
                    /\ \A v, w \in evidence'[r] \cup ({told'[r]} \cap Verdicts) : v = w
  BY DEF OneTrueStory, TrueVerdict
<1> USE DEF TypeOK, OneTrueStory, TrueVerdict, Verdicts, Open
<1>1. CASE Die
  BY <1>1 DEF Die
<1>2. ASSUME NEW s \in Requests, Submit(s) \/ TellVerdict(s) \/ TellError(s)
      PROVE  /\ submitted'[r] => permitted'[r]
             /\ \A verdict \in evidence'[r] \cup ({told'[r]} \cap Verdicts) :
                  TrueVerdict(r, verdict)'
             /\ \A v, w \in evidence'[r] \cup ({told'[r]} \cap Verdicts) : v = w
  <2>1. CASE Submit(s)
    BY <2>1 DEF Submit
  <2>2. CASE TellVerdict(s)
    BY <2>2 DEF TellVerdict
  <2>3. CASE TellError(s)
    BY <2>3 DEF TellError
  <2> QED
    BY <1>2, <2>1, <2>2, <2>3
<1>3. ASSUME NEW s \in Requests, NEW given \in Verdicts, Conclude(s, given)
      PROVE  /\ submitted'[r] => permitted'[r]
             /\ \A verdict \in evidence'[r] \cup ({told'[r]} \cap Verdicts) :
                  TrueVerdict(r, verdict)'
             /\ \A v, w \in evidence'[r] \cup ({told'[r]} \cap Verdicts) : v = w
  BY <1>3 DEF Conclude
<1>4. CASE UNCHANGED vars
  BY <1>4 DEF vars
<1> QED
  BY <1>1, <1>2, <1>3, <1>4 DEF Next

\* However a gateway keeps these promises, its reports get one true story.
THEOREM PromisesTellOneStory == Spec => []OneTrueStory
<1>1. TypeOK /\ OneTrueStory /\ [Next]_vars => (TypeOK /\ OneTrueStory)'
  BY TypeStep, StoryStep
<1> QED
  BY <1>1, StoryInit, PTL DEF Spec
=============================================================================
