--------------------------- MODULE PortNodeProofs ---------------------------
(***************************************************************************)
(* Proofs about PortNode: the argument for what its run checks, in the     *)
(* three ports at once.                                                    *)
(***************************************************************************)
EXTENDS PortNode, TLAPS

(* A command runs only while the run waits for one.                         *)
Placed == phase # "idle" => at \in Commands

(* Options are looked at by their operations alone.                         *)
Meant == op # "create" => require = FALSE

(* What is left of a command that is being stopped, and of one that was,    *)
(* until the next is launched.                                              *)
Remaining == IF port = "green" THEN IF seen THEN {} ELSE {"helper"}
             ELSE IF helper.apart THEN {"helper"} ELSE {}

Killed ==
    /\ phase = "draining" => port # "green" /\ alive \subseteq Remaining
    /\ phase \in {"stopping", "interrupting"} => port = "green"
    /\ phase \in {"idle", "launch"} /\ result \in {"timeout", "cancelled"} => alive \subseteq Remaining

(* Changes are possible before the apply that makes them.                   *)
Announced == changes = "none" => at # "apply" /\ touched = FALSE

Vanished == /\ actual = "missing" => vanished = TRUE
            /\ before = "missing" => vanished = TRUE

(* The stages and reasons of the errors.                                    *)
Errors ==
    {<<"validate", "value">>, <<"credentials", "credentials">>}
    \cup {"build"} \X {"identity", "backend", "unsafe"}
    \cup {"state"} \X {"value", "inconsistent", "identity", "absent", "unpopulated"}
    \cup {"plan-validation"} \X {"value", "identity", "absent"}
    \cup {"init", "cleanup"} \X {"unlink"}

Stages == {"init", "state", "plan", "plan-validation", "apply"}

Explained ==
    verdict.status = "error" =>
        \/ verdict.reason = "command"
        \/ verdict.reason = "unsafe" /\ verdict.stage \in Stages /\ port # "green"
        \/ <<verdict.stage, verdict.reason>> \in Errors

Removed ==
    at = "answered" =>
        \/ credentials = FALSE
        \/ verdict.reason = "unlink"
        \/ port = "red" /\ verdict.status = "raised"

Inv ==
    /\ TypeOK
    /\ Placed /\ Meant /\ Killed /\ Announced /\ Vanished /\ Explained /\ Removed

-----------------------------------------------------------------------------
(* The steps.                                                               *)

LEMMA StepCases ==
  [Next]_vars => NodeStep \/ OtherRun \/ Touch \/ UNCHANGED vars
                 \/ (RunnerStep /\ UNCHANGED node) \/ (CommandStep /\ UNCHANGED node)
  BY DEF Next

(* A node step starts a command, or gives one up before it started, or      *)
(* leaves the runner alone.                                                 *)
LEMMA NodeRunner ==
  ASSUME Placed, NodeStep
  PROVE  /\ UNCHANGED <<port, cancelled, alive, helper, seen, expired, exit, result>>
         /\ UNCHANGED <<op, protect, require, actual, vanished, touched>>
         /\ at # "answered" /\ phase \in {"idle", "launch"}
         /\ phase' = "idle" \/ (phase' = "launch" /\ at' \in Commands)
  BY DEF Placed, NodeStep, Commands, runner, request, Validate, Build, WriteCredentials, Credentials,
         UnsafeFile, Raised, CommandFails, Initialized, BlueReads, GreenPulls, GreenProbes, RedProbes,
         RedPulls, Decide, Planned, PlanShown, RefreshShown, Applied, Pulled, Leave, LeaveFails,
         Run, Fail, Finish, Read, Returned

LEMMA AccountStep ==
  ASSUME OtherRun \/ Touch
  PROVE  UNCHANGED <<port, cancelled, phase, alive, helper, seen, expired, exit, result, op, protect, require,
                     at, before, after, changes, credentials, verdict>>
  BY DEF OtherRun, Touch, runner, request

LEMMA CommandRunner ==
  ASSUME RunnerStep \/ CommandStep, UNCHANGED node
  PROVE  /\ UNCHANGED <<port, op, protect, require, at, actual, vanished, before, after, changes, touched,
                        credentials, verdict>>
         /\ phase = "idle" => phase' = "idle"
  BY DEF RunnerStep, CommandStep, node, runner, Unstarted, Launch, Expire, Collect, KillGroup, Drain, Enumerate,
         KillTree, Fork, Poll, Cancel, Exit, Answer

-----------------------------------------------------------------------------
(* Invariance, part by part.                                                *)

LEMMA PlacedStep == Inv /\ [Next]_vars => Placed' /\ Meant'
<1> SUFFICES ASSUME Inv, [Next]_vars PROVE Placed' /\ Meant'
  OBVIOUS
<1>1. CASE NodeStep
  BY <1>1, NodeRunner DEF Inv, Placed, Meant
<1>2. CASE OtherRun \/ Touch
  BY <1>2, AccountStep DEF Inv, Placed, Meant
<1>3. CASE (RunnerStep \/ CommandStep) /\ UNCHANGED node
  BY <1>3, CommandRunner DEF Inv, Placed, Meant
<1>4. CASE UNCHANGED vars
  BY <1>4 DEF Inv, Placed, Meant, vars, node, runner
<1> QED
  BY <1>1, <1>2, <1>3, <1>4, StepCases

LEMMA KilledStep == Inv /\ [Next]_vars => Killed'
<1> SUFFICES ASSUME Inv, [Next]_vars PROVE Killed'
  OBVIOUS
<1>a. Killed /\ Placed /\ alive \subseteq {"main", "helper"} /\ port \in Ports
  BY DEF Inv, TypeOK
<1>1. CASE NodeStep
  <2>1. /\ UNCHANGED <<port, alive, helper, seen, result>> /\ phase \in {"idle", "launch"}
        /\ phase' \in {"idle", "launch"}
    BY <1>1, <1>a, NodeRunner
  <2>2. Remaining' = Remaining
    BY <2>1 DEF Remaining
  <2> QED
    BY <1>a, <2>1, <2>2 DEF Killed
<1>2. CASE OtherRun \/ Touch
  <2>1. UNCHANGED <<port, phase, alive, helper, seen, result>>
    BY <1>2, AccountStep
  <2>2. Remaining' = Remaining
    BY <2>1 DEF Remaining
  <2> QED
    BY <1>a, <2>1, <2>2 DEF Killed
<1>3. CASE RunnerStep
  <2>1. CASE Unstarted \/ Launch \/ Expire \/ Collect
    BY <1>a, <2>1 DEF Unstarted, Launch, Expire, Collect, Answer, Killed, Remaining
  <2>2. CASE KillGroup
    BY <1>a, <2>2 DEF KillGroup, Killed, Remaining
  <2>3. CASE Drain
    BY <1>a, <2>3 DEF Drain, Answer, Killed, Remaining
  <2>4. CASE Enumerate
    BY <1>a, <2>4 DEF Enumerate, Killed, Remaining
  <2>5. CASE KillTree
    BY <1>a, <2>5 DEF KillTree, Answer, Killed, Remaining
  <2> QED
    BY <1>3, <2>1, <2>2, <2>3, <2>4, <2>5 DEF RunnerStep
<1>4. CASE CommandStep
  <2>1. CASE Fork
    BY <1>a, <2>1 DEF Fork, Killed, Remaining
  <2>2. CASE Poll
    BY <1>a, <2>2 DEF Poll, Killed, Remaining
  <2>3. CASE Cancel
    BY <1>a, <2>3 DEF Cancel, runner, Killed, Remaining
  <2>4. CASE \E process \in alive : Exit(process)
    BY <1>a, <2>4 DEF Exit, Killed, Remaining
  <2> QED
    BY <1>4, <2>1, <2>2, <2>3, <2>4 DEF CommandStep
<1>5. CASE UNCHANGED vars
  BY <1>5, <1>a DEF vars, runner, Killed, Remaining
<1> QED
  BY <1>1, <1>2, <1>3, <1>4, <1>5, StepCases

LEMMA HistoryStep == Inv /\ [Next]_vars => Announced' /\ Vanished' /\ Removed'
<1> SUFFICES ASSUME Inv, [Next]_vars PROVE Announced' /\ Vanished' /\ Removed'
  OBVIOUS
<1>a. Announced /\ Vanished /\ Removed /\ Placed
  BY DEF Inv
<1>1. CASE NodeStep
  <2>1. Announced'
    BY <1>1, <1>a
    DEF Announced, NodeStep, Commands, request, Validate, Build, WriteCredentials, Credentials,
        UnsafeFile, Raised, CommandFails, Initialized, BlueReads, GreenPulls, GreenProbes, RedProbes,
        RedPulls, Decide, Planned, PlanShown, RefreshShown, Applied, Pulled, Leave, LeaveFails,
        Run, Fail, Finish, Read, Returned
  <2>2. before' = before \/ before' = actual \/ (before' = "missing" /\ actual = "missing")
    BY <1>1
    DEF NodeStep, Validate, Build, WriteCredentials, Credentials,
        UnsafeFile, Raised, CommandFails, Initialized, BlueReads, GreenPulls, GreenProbes, RedProbes,
        RedPulls, Decide, Planned, PlanShown, RefreshShown, Applied, Pulled, Leave, LeaveFails, Read
  <2>3. Vanished'
    BY <1>1, <1>a, <2>2, NodeRunner DEF Vanished
  <2>4. Removed'
    <3>1. CASE Leave \/ LeaveFails
      BY <3>1 DEF Leave, LeaveFails, Run, Removed
    <3>2. CASE ~(Leave \/ LeaveFails)
      BY <1>1, <3>2
      DEF Removed, NodeStep, Commands, request, Validate, Build, WriteCredentials, Credentials,
          UnsafeFile, Raised, CommandFails, Initialized, BlueReads, GreenPulls, GreenProbes, RedProbes,
          RedPulls, Decide, Planned, PlanShown, RefreshShown, Applied, Pulled,
          Run, Fail, Finish, Read, Returned
    <3> QED
      BY <3>1, <3>2
  <2> QED
    BY <2>1, <2>3, <2>4
<1>2. CASE OtherRun
  <2>1. PICK kind \in Kinds : actual' = kind /\ vanished' = (vanished \/ kind = "missing")
    BY <1>2 DEF OtherRun
  <2>2. vanished = TRUE \/ kind = "missing" => vanished' = TRUE
    BY <2>1
  <2>3. UNCHANGED <<port, at, before, changes, touched, credentials, verdict>>
    BY <1>2 DEF OtherRun
  <2> QED
    BY <1>a, <2>1, <2>2, <2>3 DEF Announced, Vanished, Removed
<1>3. CASE Touch
  BY <1>3, <1>a DEF Touch, Announced, Vanished, Removed
<1>4. CASE (RunnerStep \/ CommandStep) /\ UNCHANGED node
  BY <1>4, <1>a, CommandRunner DEF Announced, Vanished, Removed
<1>5. CASE UNCHANGED vars
  BY <1>5, <1>a DEF vars, node, Announced, Vanished, Removed
<1> QED
  BY <1>1, <1>2, <1>3, <1>4, <1>5, StepCases

(* Why a run ends in an error.                                              *)
LEMMA ExplainedStep == Inv /\ [Next]_vars => Explained'
<1> SUFFICES ASSUME Inv, [Next]_vars PROVE Explained'
  OBVIOUS
<1>a. Explained /\ Placed /\ TypeOK
  BY DEF Inv
<1>1. CASE NodeStep
  <2>1. port' = port
    BY <1>1, <1>a, NodeRunner
  <2>2. CASE verdict' = verdict
    BY <1>a, <2>1, <2>2 DEF Explained
  <2>3. ASSUME NEW status, Finish(status), status # "error" PROVE Explained'
    BY <2>3 DEF Finish, Explained
  <2>4. ASSUME NEW stage, NEW reason, Fail(stage, reason),
               \/ reason = "command"
               \/ reason = "unsafe" /\ stage \in Stages /\ port # "green"
               \/ <<stage, reason>> \in Errors
        PROVE  Explained'
    BY <2>1, <2>4 DEF Fail, Explained
  <2>5. CASE Validate \/ Build \/ Credentials
    BY <2>2, <2>4, <2>5 DEF Validate, Build, Credentials, WriteCredentials, Run, Errors
  <2>6. CASE UnsafeFile
    <3>1. at \in Commands
      BY <1>a, <2>6 DEF UnsafeFile, Placed
    <3>2. Stage \in Stages
      BY <3>1 DEF Stage, Stages, Commands
    <3> QED
      BY <2>4, <2>6, <3>2 DEF UnsafeFile
  <2>7. CASE Raised \/ CommandFails \/ Initialized
    BY <2>2, <2>3, <2>4, <2>7 DEF Raised, CommandFails, Initialized, Run
  <2>8. CASE BlueReads \/ GreenPulls \/ GreenProbes \/ RedProbes \/ RedPulls
    BY <2>2, <2>4, <2>8 DEF BlueReads, GreenPulls, GreenProbes, RedProbes, RedPulls, Read, Run, Errors
  <2>9. CASE Decide
    <3>1. Decision(port, before) \in {"value", "inconsistent", "identity", "absent", "unpopulated",
                                      "destroyed", "refresh", "ready", "plan"}
      BY DEF Decision, BlueDecision, GreenDecision, RedDecision
    <3> QED
      BY <2>2, <2>3, <2>4, <2>9, <3>1 DEF Decide, Run, Errors
  <2>10. CASE Planned \/ PlanShown \/ RefreshShown \/ Applied
    BY <2>2, <2>3, <2>4, <2>10
    DEF Planned, PlanShown, RefreshShown, Refreshed, Observations, Applied, Run, Errors
  <2>11. CASE Pulled
    <3>1. \A kind : Final(port, kind) \in {"value", "inconsistent", "identity", "destroyed", "ready"}
      BY DEF Final, BlueFinal, GreenFinal, RedFinal
    <3> QED
      BY <2>3, <2>4, <2>11, <3>1 DEF Pulled, Errors
  <2>12. CASE Leave
    BY <2>2, <2>12 DEF Leave, Run
  <2>13. CASE LeaveFails
    BY <2>1, <2>2, <2>13 DEF LeaveFails, Explained, Errors
  <2> QED
    BY <1>1, <2>5, <2>6, <2>7, <2>8, <2>9, <2>10, <2>11, <2>12, <2>13 DEF NodeStep
<1>2. CASE OtherRun \/ Touch
  BY <1>2, <1>a, AccountStep DEF Explained
<1>3. CASE (RunnerStep \/ CommandStep) /\ UNCHANGED node
  BY <1>3, <1>a, CommandRunner DEF Explained
<1>4. CASE UNCHANGED vars
  BY <1>4, <1>a DEF vars, node, Explained
<1> QED
  BY <1>1, <1>2, <1>3, <1>4, StepCases

LEMMA TypesKept == Inv /\ [Next]_vars => TypeOK'
<1> SUFFICES ASSUME Inv, [Next]_vars PROVE TypeOK'
  OBVIOUS
<1>a. TypeOK /\ Placed
  BY DEF Inv
<1> DEFINE Flags == {protect, require, seen, expired, cancelled, exit, vanished, touched, credentials} \subseteq BOOLEAN
           Runner == /\ port \in Ports
                     /\ phase \in {"idle", "launch", "running", "draining", "stopping", "interrupting"}
                     /\ alive \subseteq {"main", "helper"}
                     /\ helper \in [born : BOOLEAN, apart : BOOLEAN, pipe : BOOLEAN]
                     /\ result \in {"none", "ok", "failed", "timeout", "cancelled", "unstarted"}
           Node == /\ op \in Operations
                   /\ at \in Commands \cup {"validate", "build", "credentials", "decide", "leave", "answered"}
                   /\ actual \in Kinds /\ before \in Kinds \cup {"unread"}
                   /\ after \in Pullable \cup Observations \cup {"unread"}
                   /\ changes \in {"none", "possible"}
                   /\ verdict.status \in {"open", "ready", "destroyed", "error", "raised"}
<1>b. TypeOK <=> Flags /\ Runner /\ Node
  BY DEF TypeOK
<1>1. CASE NodeStep
  <2>1. Flags'
    <3>1. credentials' \in {TRUE, FALSE, credentials}
      BY <1>1
      DEF NodeStep, Validate, Build, WriteCredentials, Credentials, UnsafeFile, Raised, CommandFails, Initialized,
          BlueReads, GreenPulls, GreenProbes, RedProbes, RedPulls, Decide, Planned, PlanShown, RefreshShown,
          Applied, Pulled, Leave, LeaveFails
    <3>2. Flags
      BY <1>a, <1>b
    <3> QED
      BY <1>1, <1>a, <3>1, <3>2, NodeRunner
  <2>2. Runner'
    BY <1>1, <1>a, <1>b, NodeRunner
  <2>3. Node'
    <3>1. Node
      BY <1>a, <1>b
    <3>2. \A kind : Decision(port, kind) \in {"plan", "refresh"} => Decision(port, kind) \in Commands
      BY DEF Commands
    <3> QED
      BY <1>1, <3>1, <3>2
      DEF NodeStep, Commands, Kinds, request, Validate, Build, WriteCredentials, Credentials, UnsafeFile, Raised,
          CommandFails, Initialized, BlueReads, GreenPulls, GreenProbes, RedProbes, RedPulls, Decide, Planned,
          PlanShown, RefreshShown, Applied, Pulled, Leave, LeaveFails, Run, Fail, Finish, Read
  <2> QED
    BY <1>b, <2>1, <2>2, <2>3 DEF TypeOK
<1>2. CASE OtherRun \/ Touch
  <2>1. actual' \in Kinds
    BY <1>2, <1>a DEF OtherRun, Touch, TypeOK
  <2>2. vanished' \in BOOLEAN /\ touched' \in BOOLEAN
    BY <1>2, <1>a DEF OtherRun, Touch, TypeOK
  <2> QED
    BY <1>2, <1>a, <2>1, <2>2, AccountStep DEF TypeOK
<1>3. CASE (RunnerStep \/ CommandStep) /\ UNCHANGED node
  <2>1. Flags
    BY <1>a, <1>b
  <2>2. Flags'
    <3>1. seen' \in BOOLEAN /\ expired' \in BOOLEAN /\ cancelled' \in BOOLEAN /\ exit' \in BOOLEAN
      BY <1>3, <2>1
      DEF RunnerStep, CommandStep, runner, Unstarted, Launch, Expire, Collect, KillGroup, Drain, Enumerate,
          KillTree, Fork, Poll, Cancel, Exit, Answer
    <3> QED
      BY <1>3, <2>1, <3>1 DEF node
  <2>3. Runner
    BY <1>a, <1>b
  <2>4. Runner'
    <3>1. CASE Unstarted \/ Expire
      BY <2>3, <3>1 DEF Unstarted, Expire, Answer
    <3>6. CASE Launch
      BY <2>3, <3>6 DEF Launch, NoHelper
    <3>7. CASE Collect
      <4>1. result' \in {"ok", "failed"} /\ phase' = "idle" /\ alive' = alive /\ helper' = helper /\ port' = port
        BY <3>7 DEF Collect, Answer
      <4> QED
        BY <2>3, <4>1
    <3>8. CASE KillGroup
      <4>1. alive' \subseteq alive /\ phase' = "draining" /\ UNCHANGED <<port, helper, result>>
        BY <3>8 DEF KillGroup
      <4> QED
        BY <2>3, <4>1
    <3>2. CASE Drain \/ Enumerate \/ KillTree
      BY <2>3, <3>2 DEF Drain, Enumerate, KillTree, Answer
    <3>3. CASE Fork
      BY <2>3, <3>3 DEF Fork
    <3>4. CASE Poll \/ Cancel
      BY <2>3, <3>4 DEF Poll, Cancel, runner
    <3>5. CASE \E process \in alive : Exit(process)
      BY <2>3, <3>5 DEF Exit
    <3> QED
      BY <1>3, <3>1, <3>2, <3>3, <3>4, <3>5, <3>6, <3>7, <3>8 DEF RunnerStep, CommandStep
  <2>5. Node'
    BY <1>3, <1>a, <1>b DEF node
  <2> QED
    BY <2>2, <2>4, <2>5 DEF TypeOK
<1>4. CASE UNCHANGED vars
  BY <1>4, <1>a DEF vars, runner, node, TypeOK
<1> QED
  BY <1>1, <1>2, <1>3, <1>4, StepCases

LEMMA InvInit == Init => Inv
<1> SUFFICES ASSUME Init PROVE Inv
  OBVIOUS
<1>1. TypeOK
  <2>1. vanished \in BOOLEAN
    BY DEF Init
  <2> QED
    BY <2>1 DEF Init, RunnerInit, TypeOK, NoHelper, Open, Kinds
<1>2. require = FALSE \/ op = "create"
  BY DEF Init
<1>3. actual = "missing" => vanished = TRUE
  BY DEF Init
<1> QED
  BY <1>1, <1>2, <1>3
  DEF Init, RunnerInit, Inv, Placed, Meant, Killed, Announced, Vanished, Explained, Removed, Open, Commands

LEMMA InvStep == Inv /\ [Next]_vars => Inv'
  BY TypesKept, PlacedStep, KilledStep, HistoryStep, ExplainedStep DEF Inv

(* What holds of every run of the three ports.                              *)
THEOREM Invariance == Spec => []Inv
  BY InvInit, InvStep, PTL DEF Spec

(* Every variable keeps to its type.                                        *)
THEOREM TypeCorrect == Spec => []TypeOK
<1>1. Inv => TypeOK
  BY DEF Inv
<1> QED
  BY <1>1, Invariance, PTL

(* In the three ports a failed or contradicted read never counts as         *)
(* absence.                                                                 *)
THEOREM AbsenceIsSeen == Spec => []AbsentWasMissing
<1>1. Inv => AbsentWasMissing
  BY DEF Inv, Vanished, AbsentWasMissing
<1> QED
  BY <1>1, Invariance, PTL

(* _run, run-command and executeBackendCommand: of a command that was       *)
(* killed and answered for, nothing is left but a helper out of reach.      *)
THEOREM KilledIsStopped == Spec => []AnsweredMeansStopped
<1>1. Inv => AnsweredMeansStopped
  BY DEF Inv, Killed, Remaining, AnsweredMeansStopped
<1> QED
  BY <1>1, Invariance, PTL

(* However a run ends, the credentials of the backend are removed, or the   *)
(* answer says that they could not be (but in a cancelled Red).             *)
THEOREM CredentialsRemoved == Spec => []CredentialsGone
<1>1. Inv => CredentialsGone
  BY DEF Inv, Removed, CredentialsGone, Answered
<1> QED
  BY <1>1, Invariance, PTL

(* A port that reports no infrastructure changes made none.                 *)
THEOREM NoneIsTrue == Spec => []NoneMeansUntouched
<1>1. Inv => NoneMeansUntouched
  BY DEF Inv, Announced, NoneMeansUntouched
<1> QED
  BY <1>1, Invariance, PTL

-----------------------------------------------------------------------------
(* Agreement of the ports.                                                  *)

(* Who stands apart may be settled port by port, against one that does not. *)
LEMMA Settled ==
  ASSUME NEW apart, NEW answer,
         \/ /\ "blue" \notin apart
            /\ "green" \in apart <=> answer["green"] # answer["blue"]
            /\ "red" \in apart <=> answer["red"] # answer["blue"]
            /\ ~("green" \in apart /\ "red" \in apart)
         \/ /\ apart = {"blue"}
            /\ answer["green"] = answer["red"] /\ answer["blue"] # answer["red"]
  PROVE  AllBut(apart, answer)
  BY DEF AllBut, Ports

(* The code of every reason to refuse a state, or what a refresh showed.    *)
LEMMA Codes ==
  ASSUME NEW p \in Ports, NEW stage \in {"state", "plan-validation"}
  PROVE  /\ Code(p, stage, "inconsistent") = "state_inconsistent"
         /\ Code(p, stage, "identity") = "identity_mismatch"
         /\ Code(p, stage, "absent") = "state_absent"
         /\ Code(p, stage, "value") =
               IF stage = "state" THEN "state_unreadable" ELSE "unsafe_plan"
         /\ Code(p, "state", "unpopulated") =
               IF p = "blue" THEN "state_unreadable" ELSE "state_absent"
  BY DEF Code, BlueCode, GreenCode, RedCode, ByStage, Ports

LEMMA Before ==
  ASSUME Inv, before # "unread"
  PROVE  AllBut(BeforeApart, [p \in Ports |-> Outcome(p, "state", Decision(p, before))])
<1> DEFINE answer == [p \in Ports |-> Outcome(p, "state", Decision(p, before))]
<1>1. before \in Kinds /\ op \in Operations /\ (op # "create" => require = FALSE)
  BY DEF Inv, TypeOK, Meant
<1>2. /\ answer["blue"] = Outcome("blue", "state", BlueDecision(before))
      /\ answer["green"] = Outcome("green", "state", GreenDecision(before))
      /\ answer["red"] = Outcome("red", "state", RedDecision(before))
  BY DEF Ports, Decision
<1> HIDE DEF answer
<1>3. AllBut(BeforeApart, answer)
  BY <1>1, <1>2, Codes, Settled
  DEF Outcome, BlueDecision, GreenDecision, RedDecision, BeforeApart, Kinds, Operations, Ports
<1> QED
  BY <1>3 DEF answer

LEMMA After ==
  ASSUME after \in Pullable, op \in {"create", "delete"}
  PROVE  AllBut(AfterApart, [p \in Ports |-> Outcome(p, "state", Final(p, after))])
<1> DEFINE answer == [p \in Ports |-> Outcome(p, "state", Final(p, after))]
<1>1. /\ answer["blue"] = Outcome("blue", "state", BlueFinal(after))
      /\ answer["green"] = Outcome("green", "state", GreenFinal(after))
      /\ answer["red"] = Outcome("red", "state", RedFinal(after))
  BY DEF Ports, Final
<1> HIDE DEF answer
<1>2. ASSUME op = "create" PROVE AllBut(AfterApart, answer)
  <2>1. CASE after \in {"empty", "bare"}
    <3>1. answer["green"] = answer["red"] /\ answer["blue"] # answer["red"]
      BY <1>1, <1>2, <2>1, Codes DEF Outcome, BlueFinal, GreenFinal, RedFinal, Ports
    <3> QED
      BY <1>2, <2>1, <3>1, Settled DEF AfterApart
  <2>2. CASE after \in Pullable \ {"empty", "bare"}
    <3>1. answer["green"] = answer["blue"] /\ (after = "foreign" <=> answer["red"] # answer["blue"])
      BY <1>1, <1>2, <2>2, Codes DEF Outcome, BlueFinal, GreenFinal, RedFinal, Pullable, Kinds, Ports
    <3> QED
      BY <1>2, <2>2, <3>1, Settled DEF AfterApart
  <2> QED
    BY <2>1, <2>2
<1>3. ASSUME op = "delete" PROVE AllBut(AfterApart, answer)
  <2>1. answer["red"] = answer["blue"] /\ (after = "foreign" <=> answer["green"] # answer["blue"])
    BY <1>1, <1>3, Codes DEF Outcome, BlueFinal, GreenFinal, RedFinal, Pullable, Kinds, Ports
  <2> QED
    BY <1>3, <2>1, Settled DEF AfterApart
<1>4. AllBut(AfterApart, answer)
  BY <1>2, <1>3
<1> QED
  BY <1>4 DEF answer

LEMMA Refreshes ==
  ASSUME after \in Observations
  PROVE  AllBut(RefreshApart, [p \in Ports |-> Outcome(p, "plan-validation", Refreshed(p, after))])
<1> DEFINE answer == [p \in Ports |-> Outcome(p, "plan-validation", Refreshed(p, after))]
<1>1. \A p \in Ports : answer[p] = Outcome(p, "plan-validation", Refreshed(p, after))
  OBVIOUS
<1> HIDE DEF answer
<1>2. AllBut(RefreshApart, answer)
  BY <1>1, Codes, Settled DEF Outcome, Refreshed, RefreshApart, Observations, Ports
<1> QED
  BY <1>2 DEF answer

(* The three ports, from the same request and the same state before, state  *)
(* after or refresh, go the same way, give the same answer or refuse with   *)
(* the same code, but for exactly the differences PortsAgree names.         *)
THEOREM PortsConform == Spec => []PortsAgree
<1>1. Inv => ReadingsAgree
  BY Before, After, Refreshes DEF ReadingsAgree
<1>2. Inv => FailuresAgree
  <2> SUFFICES ASSUME Explained, verdict.status = "error", NEW p \in Ports,
                      verdict.stage = "state" => verdict.reason \in {"command", "unsafe", "value"}
               PROVE  \/ Code(p, verdict.stage, verdict.reason) = Code("red", verdict.stage, verdict.reason)
                      \/ p = "blue" /\ <<verdict.stage, verdict.reason>> = <<"build", "identity">>
                      \/ p = "green" /\ port # "green" /\ verdict.reason = "unsafe"
    BY DEF Inv, FailuresAgree
  <2>1. CASE verdict.reason = "command"
    BY <2>1 DEF Code, BlueCode, GreenCode, RedCode
  <2>2. CASE verdict.reason = "unsafe" /\ verdict.stage \in Stages /\ port # "green"
    BY <2>2 DEF Code, BlueCode, GreenCode, RedCode, Stages, Ports
  <2>3. CASE <<verdict.stage, verdict.reason>> \in Errors
    BY <2>3 DEF Code, BlueCode, GreenCode, RedCode, ByStage, Errors, Ports
  <2> QED
    BY <2>1, <2>2, <2>3 DEF Explained
<1>3. Inv => PortsAgree
  BY <1>1, <1>2 DEF PortsAgree
<1> QED
  BY <1>3, Invariance, PTL

=============================================================================
