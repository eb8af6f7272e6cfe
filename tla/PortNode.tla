------------------------------ MODULE PortNode ------------------------------
(***************************************************************************)
(* The same lifecycle in three languages: compute_node of Blue (Python),   *)
(* Green (Clojure) and Red (TypeScript), each reading the state its own    *)
(* way, deciding, running OpenTofu through its own runner, classifying     *)
(* what went wrong and cleaning up.                                        *)
(***************************************************************************)
EXTENDS PortRunner

VARIABLES
    op, protect, require,   \* the request
    at,         \* where the run is; at a command it waits for its runner
    actual,     \* what the backend holds under the state key
    vanished,   \* history: the state was missing at some time during the run
    before,     \* what the run made of it: "unread", or a kind of state
    after,      \* and what of the state after its apply, or of its refresh
    changes,    \* infrastructure_changes
    touched,    \* history: an apply changed something
    credentials,\* credentials.tfbackend.json exists
    verdict     \* [status, stage, reason] of the answer

node == <<op, protect, require, at, actual, vanished, before, after, changes, touched,
          credentials, verdict>>
vars == <<port, cancelled, runner, node>>

Operations == {"create", "delete", "inspect", "resolve-connection"}

(* A state: no valid document, no resources and no outputs, only this compute_identity, other  *)
(* outputs without resources, this unit's machine with all its outputs or   *)
(* without an address, or another unit's.                                   *)
Kinds == {"missing", "invalid", "empty", "identity", "leftover", "mine", "bare", "foreign"}

(* What tofu state pull may read; it does not answer for a missing state.   *)
Pullable == Kinds \ {"missing"}

(* What a refresh may show: the machine as it was, none, another one, other *)
(* outputs for it, or something of no use.                                  *)
Observations == {"same", "gone", "replaced", "reissued", "unusable"}

Commands == {"init", "observe", "probe", "plan", "show", "apply", "pull",
             "refresh", "showrefresh"}

-----------------------------------------------------------------------------
(* What each port decides from the state it read: to plan, to refresh, to   *)
(* answer, or why it refuses.                                               *)

BlueDecision(kind) ==
    IF kind = "invalid" THEN "value"
    ELSE IF kind = "leftover" \/ (kind = "identity" /\ op # "create") THEN "inconsistent"
    ELSE IF kind = "foreign" THEN "identity"
    ELSE IF kind = "missing" /\ op # "create" THEN "absent"
    ELSE IF kind \in {"missing", "identity"} /\ require THEN "absent"
    ELSE IF kind = "empty" /\ op \in {"inspect", "delete"} THEN "destroyed"
    ELSE IF op = "resolve-connection" THEN IF kind = "empty" THEN "unpopulated" ELSE "refresh"
    ELSE IF op = "inspect" THEN "ready" ELSE "plan"

(* normalized() wants every connection field; delete of an empty state      *)
(* still goes through a plan.                                               *)
GreenDecision(kind) ==
    IF kind = "invalid" THEN "value"
    ELSE IF kind = "foreign" THEN "identity"
    ELSE IF kind = "leftover" \/ (kind = "identity" /\ op # "create") THEN "inconsistent"
    ELSE IF op = "create" THEN IF require /\ kind \in {"missing", "identity"} THEN "absent" ELSE "plan"
    ELSE IF kind = "missing" THEN "absent"
    ELSE IF op = "delete" THEN "plan"
    ELSE IF op = "resolve-connection" THEN IF kind = "empty" THEN "unpopulated" ELSE "refresh"
    ELSE IF kind = "empty" THEN "destroyed"
    ELSE IF kind = "bare" THEN "value" ELSE "ready"

RedDecision(kind) ==
    LET populated == kind \in {"mine", "bare"}
    IN IF kind = "invalid" THEN "value"
       ELSE IF kind = "leftover" \/ (kind = "identity" /\ op # "create") THEN "inconsistent"
       ELSE IF op = "inspect" /\ kind = "empty" THEN "destroyed"
       ELSE IF kind = "foreign" THEN "identity"
       ELSE IF op = "create" THEN IF require /\ ~populated THEN "absent" ELSE "plan"
       ELSE IF op = "delete" THEN IF populated THEN "plan"
                                  ELSE IF kind = "empty" THEN "destroyed" ELSE "absent"
       ELSE IF op = "resolve-connection" THEN IF populated THEN "refresh" ELSE "unpopulated"
       ELSE IF ~populated THEN "absent"
       ELSE IF kind = "bare" THEN "value" ELSE "ready"

Decision(p, kind) ==
    IF p = "blue" THEN BlueDecision(kind)
    ELSE IF p = "green" THEN GreenDecision(kind) ELSE RedDecision(kind)

(* The final state after an apply, as an answer or a reason to refuse it.   *)
BlueFinal(kind) ==
    IF kind = "invalid" THEN "value"
    ELSE IF kind \in {"identity", "leftover"} THEN "inconsistent"
    ELSE IF op = "delete" THEN IF kind = "empty" THEN "destroyed" ELSE "value"
    ELSE IF kind \in {"mine", "bare"} THEN "ready" ELSE "identity"

GreenFinal(kind) ==
    IF kind = "foreign" THEN "identity"
    ELSE IF kind \in {"identity", "leftover"} THEN "inconsistent"
    ELSE IF op = "delete" THEN IF kind = "empty" THEN "destroyed" ELSE "value"
    ELSE IF kind = "mine" THEN "ready" ELSE "value"

RedDeletesWithLeftovers(kind) ==    \* mutant: no resources, so all is destroyed
    IF op = "delete" THEN IF kind \in {"empty", "identity", "leftover"} THEN "destroyed" ELSE "value"
    ELSE IF kind \in {"identity", "leftover"} THEN "inconsistent"
    ELSE IF kind = "mine" THEN "ready" ELSE "value"

RedFinal(kind) ==
    IF kind \in {"identity", "leftover"} THEN "inconsistent"
    ELSE IF op = "delete" THEN IF kind = "empty" THEN "destroyed" ELSE "value"
    ELSE IF kind = "mine" THEN "ready" ELSE "value"

Final(p, kind) ==
    IF p = "blue" THEN BlueFinal(kind)
    ELSE IF p = "green" THEN GreenFinal(kind) ELSE RedFinal(kind)

(* What a refresh showed.  Red alone says "absent" of a machine that is not *)
(* there, Blue alone says nothing of identity when the outputs name another *)
(* provider_id.                                                             *)
Refreshed(p, observation) ==
    IF observation = "same" THEN "ready"
    ELSE IF observation = "replaced" THEN "identity"
    ELSE IF observation = "gone" /\ p = "red" THEN "absent"
    ELSE IF observation = "reissued" /\ p # "blue" THEN "identity" ELSE "value"

-----------------------------------------------------------------------------
(* What went wrong, as a code: by kind of error and its message, else by    *)
(* the stage.  Blue's patterns miss two of its own messages: "compute       *)
(* identity change requires ..." and "node state absent".                   *)

ByStage(stage) ==
    IF stage = "validate" THEN "invalid_request"
    ELSE IF stage = "state" THEN "state_unreadable"
    ELSE IF stage = "plan-validation" THEN "unsafe_plan"
    ELSE IF stage = "build" THEN "filesystem_error" ELSE "internal_error"

OfCommand(stage) == IF stage = "state" THEN "state_unreadable" ELSE "command_failed"

BlueCode(stage, reason) ==
    IF reason = "command" THEN OfCommand(stage)
    ELSE IF reason = "credentials" THEN "missing_credentials"
    ELSE IF reason = "inconsistent" THEN "state_inconsistent"
    ELSE IF reason \in {"unlink", "unsafe"} THEN "filesystem_error"
    ELSE IF reason = "backend" \/ (reason = "identity" /\ stage # "build") THEN "identity_mismatch"
    ELSE IF reason = "absent" THEN "state_absent" ELSE ByStage(stage)

GreenCode(stage, reason) ==
    IF reason = "command" THEN OfCommand(stage)
    ELSE IF reason = "inconsistent" THEN "state_inconsistent"
    ELSE IF reason = "unlink" THEN "filesystem_error"
    ELSE IF reason \in {"identity", "backend"} THEN "identity_mismatch"
    ELSE IF reason \in {"absent", "unpopulated"} THEN "state_absent"
    ELSE IF reason = "credentials" THEN "missing_credentials"
    ELSE IF stage \in {"state", "plan-validation"} THEN ByStage(stage)
    ELSE IF reason = "unsafe" THEN "filesystem_error"
    ELSE IF stage \in {"validate", "build"} THEN "invalid_request" ELSE "internal_error"

RedCode(stage, reason) ==
    IF reason = "command" THEN OfCommand(stage)
    ELSE IF reason = "inconsistent" THEN "state_inconsistent"
    ELSE IF stage = "validate" THEN "invalid_request"
    ELSE IF reason \in {"identity", "backend"} THEN "identity_mismatch"
    ELSE IF reason \in {"absent", "unpopulated"} THEN "state_absent"
    ELSE IF reason = "credentials" THEN "missing_credentials"
    ELSE IF reason \in {"unsafe", "unlink"} THEN "filesystem_error"
    ELSE IF stage = "build" THEN "invalid_request" ELSE ByStage(stage)

Code(p, stage, reason) ==
    IF p = "blue" THEN BlueCode(stage, reason)
    ELSE IF p = "green" THEN GreenCode(stage, reason) ELSE RedCode(stage, reason)

-----------------------------------------------------------------------------
(* The run.                                                                 *)

Open == [status |-> "open", stage |-> "none", reason |-> "none"]

Init ==
    /\ RunnerInit
    /\ op \in Operations
    /\ protect \in BOOLEAN /\ (op # "delete" => protect)     \* only deletion looks at it,
    /\ require \in BOOLEAN /\ (op # "create" => ~require)    \* only creation at this
    /\ at = "validate"
    /\ actual \in Kinds /\ vanished = (actual = "missing")
    /\ before = "unread" /\ after = "unread"
    /\ changes = "none" /\ touched = FALSE
    /\ credentials = FALSE
    /\ verdict = Open

request == <<op, protect, require>>

Stage ==
    IF at \in {"observe", "probe", "pull"} THEN "state"
    ELSE IF at \in {"show", "showrefresh"} THEN "plan-validation"
    ELSE IF at = "refresh" THEN "plan" ELSE at

Fail(stage, reason) ==
    /\ at' = "leave"
    /\ verdict' = [status |-> "error", stage |-> stage, reason |-> reason]

Finish(status) ==
    /\ at' = "leave"
    /\ verdict' = [status |-> status, stage |-> "none", reason |-> "none"]

Run(command) ==
    /\ at' = command
    /\ phase' = "launch"
    /\ UNCHANGED <<verdict, alive, helper, seen, expired, exit, result>>

Validate ==
    /\ at = "validate"
    /\ \/ Fail("validate", "value")
       \/ /\ ~(op = "delete" /\ protect)
          /\ at' = IF port = "blue" THEN "credentials" ELSE "build"
          /\ UNCHANGED verdict
    /\ UNCHANGED <<port, cancelled, runner, request, actual, vanished, before, after, changes, touched,
                   credentials>>

WriteCredentials ==
    /\ Run("init")
    /\ credentials' = TRUE

(* The directory and what an earlier run wrote there are checked, and the   *)
(* documents written.                                                       *)
Build ==
    /\ at = "build"
    /\ \/ \E reason \in {"identity", "backend", "unsafe"} :
             Fail("build", reason) /\ UNCHANGED <<runner, credentials>>
       \/ port = "blue" /\ WriteCredentials
       \/ port # "blue" /\ at' = "credentials" /\ UNCHANGED <<runner, credentials, verdict>>
    /\ UNCHANGED <<port, cancelled, request, actual, vanished, before, after, changes, touched>>

(* Blue collects the credentials before it builds, the others after.        *)
Credentials ==
    /\ at = "credentials"
    /\ \/ Fail("credentials", "credentials") /\ UNCHANGED <<runner, credentials>>
       \/ port # "blue" /\ WriteCredentials
       \/ port = "blue" /\ at' = "build" /\ UNCHANGED <<runner, credentials, verdict>>
    /\ UNCHANGED <<port, cancelled, request, actual, vanished, before, after, changes, touched>>

(* Before each command Blue and Red look for symbolic links.                *)
UnsafeFile ==
    /\ port # "green" /\ phase = "launch" /\ at # "probe"
    /\ port = "blue" => at # "observe"
    /\ phase' = "idle"
    /\ Fail(Stage, "unsafe")
    /\ UNCHANGED <<port, cancelled, alive, helper, seen, expired, exit, result, request, actual,
                   vanished, before, after, changes, touched, credentials>>

Returned(command) == at = command /\ phase = "idle"

Raised ==
    /\ phase = "idle" /\ at \in Commands /\ result = "cancelled"
    /\ Finish("raised")
    /\ UNCHANGED <<port, cancelled, runner, request, actual, vanished, before, after, changes, touched,
                   credentials>>

(* Green asks again when the state could not be pulled.                     *)
CommandFails ==
    /\ phase = "idle" /\ at \in Commands /\ result \in {"failed", "timeout", "unstarted"}
    /\ ~(port = "green" /\ at = "observe")
    /\ Fail(Stage, "command")
    /\ UNCHANGED <<port, cancelled, runner, request, actual, vanished, before, after, changes, touched,
                   credentials>>

(* Blue removes the credentials as soon as OpenTofu is initialized.         *)
Initialized ==
    /\ Returned("init") /\ result = "ok"
    /\ \/ port = "blue" /\ at' = "leave" /\ UNCHANGED <<runner, verdict>>
       \/ port = "green" /\ Run("observe")
       \/ port = "red" /\ Run("probe")
    /\ UNCHANGED <<port, cancelled, request, actual, vanished, before, after, changes, touched, credentials>>

Read(kind) == before' = kind /\ at' = "decide" /\ UNCHANGED <<runner, verdict>>

(* One get: the object or its absence.                                      *)
BlueReads ==
    /\ port = "blue" /\ Returned("observe") /\ result = "ok"
    /\ Read(actual)
    /\ UNCHANGED <<port, cancelled, request, actual, vanished, after, changes, touched, credentials>>

PullFailureIsAbsence ==    \* mutant: a state that cannot be pulled is not there
    /\ port = "green" /\ Returned("observe") /\ result \in {"ok", "failed", "timeout", "unstarted"}
    /\ Read(IF result = "ok" THEN actual ELSE "missing")
    /\ UNCHANGED <<port, cancelled, request, actual, vanished, after, changes, touched, credentials>>

(* state pull; when it fails or answers for a state that does not exist,    *)
(* the object itself is asked for.                                          *)
GreenPulls ==
    /\ port = "green" /\ Returned("observe") /\ result \in {"ok", "failed", "timeout", "unstarted"}
    /\ IF result = "ok" /\ actual # "missing" THEN Read(actual)
       ELSE Run("probe") /\ UNCHANGED before
    /\ UNCHANGED <<port, cancelled, request, actual, vanished, after, changes, touched, credentials>>

GreenProbes ==
    /\ port = "green" /\ Returned("probe") /\ result = "ok"
    /\ IF actual = "missing" THEN Read("missing")
       ELSE Fail("state", "command") /\ UNCHANGED <<runner, before>>
    /\ UNCHANGED <<port, cancelled, request, actual, vanished, after, changes, touched, credentials>>

(* The object is asked for first, then state pull reads it.                 *)
RedProbes ==
    /\ port = "red" /\ Returned("probe") /\ result = "ok"
    /\ IF actual = "missing" THEN Read("missing") ELSE Run("observe") /\ UNCHANGED before
    /\ UNCHANGED <<port, cancelled, request, actual, vanished, after, changes, touched, credentials>>

RedPulls ==
    /\ port = "red" /\ Returned("observe") /\ result = "ok"
    /\ IF actual = "missing" THEN Fail("state", "value") /\ UNCHANGED <<runner, before>>
       ELSE Read(actual)
    /\ UNCHANGED <<port, cancelled, request, actual, vanished, after, changes, touched, credentials>>

(* Other runs of the unit change the state meanwhile.                       *)
OtherRun ==
    /\ at \in {"observe", "probe"}
    /\ \E kind \in Kinds \ {actual} : actual' = kind /\ vanished' = (vanished \/ kind = "missing")
    /\ UNCHANGED <<port, cancelled, runner, request, at, before, after, changes, touched, credentials, verdict>>

(* Unexpected or secret outputs are not answered.                           *)
Decide ==
    /\ at = "decide"
    /\ LET decision == Decision(port, before)
       IN \/ decision \in {"plan", "refresh"} /\ Run(decision)
          \/ decision = "ready" /\ port = "blue" /\ Run("pull")
          \/ decision = "ready" /\ port # "blue" /\ UNCHANGED runner
             /\ (Finish("ready") \/ Fail("state", "value"))
          \/ decision = "destroyed" /\ Finish("destroyed") /\ UNCHANGED runner
          \/ decision \notin {"plan", "refresh", "ready", "destroyed"}
             /\ Fail("state", decision) /\ UNCHANGED runner
    /\ UNCHANGED <<port, cancelled, request, actual, vanished, before, after, changes, touched, credentials>>

Planned ==
    /\ at \in {"plan", "refresh"} /\ phase = "idle" /\ result = "ok"
    /\ Run(IF at = "plan" THEN "show" ELSE "showrefresh")
    /\ UNCHANGED <<port, cancelled, request, actual, vanished, before, after, changes, touched, credentials>>

(* Replacement and deletion are refused, a refresh may only observe.        *)
PlanShown ==
    /\ Returned("show") /\ result = "ok"
    /\ \/ Run("apply") /\ changes' = "possible"
       \/ Fail("plan-validation", "value") /\ UNCHANGED <<runner, changes>>
    /\ UNCHANGED <<port, cancelled, request, actual, vanished, before, after, touched, credentials>>

(* The refreshed machine, identity and outputs are those of the state.      *)
RefreshShown ==
    /\ Returned("showrefresh") /\ result = "ok"
    /\ \E observation \in Observations :
          LET reading == Refreshed(port, observation)
          IN /\ after' = observation
             /\ IF reading = "ready" THEN Finish("ready") ELSE Fail("plan-validation", reading)
    /\ UNCHANGED <<port, cancelled, runner, request, actual, vanished, before, changes, touched,
                   credentials>>

Touch ==
    /\ at = "apply" /\ alive # {}
    /\ touched' = TRUE
    /\ UNCHANGED <<port, cancelled, runner, request, at, actual, vanished, before, after, changes,
                   credentials, verdict>>

Applied ==
    /\ Returned("apply") /\ result = "ok"
    /\ Run("pull")
    /\ UNCHANGED <<port, cancelled, request, actual, vanished, before, after, changes, touched, credentials>>

Pulled ==
    /\ Returned("pull") /\ result = "ok"
    /\ \E kind \in Pullable :
          LET final == Final(port, kind)
          IN /\ after' = kind
             /\ \/ final \in {"ready", "destroyed"} /\ Finish(final)
                \/ final # "destroyed" /\ Fail("state", IF final = "ready" THEN "value" ELSE final)
    /\ UNCHANGED <<port, cancelled, runner, request, actual, vanished, before, changes, touched,
                   credentials>>

LeaveCredentials ==    \* mutant: a failed run keeps its credentials
    /\ at = "leave"
    /\ credentials' = (credentials /\ verdict.status = "error")
    /\ IF verdict.status = "open" THEN Run("observe") ELSE at' = "answered" /\ UNCHANGED <<runner, verdict>>
    /\ UNCHANGED <<port, cancelled, request, actual, vanished, before, after, changes, touched>>

Leave ==
    /\ at = "leave"
    /\ credentials' = FALSE
    /\ IF verdict.status = "open" THEN Run("observe") ELSE at' = "answered" /\ UNCHANGED <<runner, verdict>>
    /\ UNCHANGED <<port, cancelled, request, actual, vanished, before, after, changes, touched>>

(* The error of the removal takes the place of what was on its way out;     *)
(* only Red lets a cancellation pass.                                       *)
LeaveFails ==
    /\ at = "leave" /\ credentials
    /\ at' = "answered"
    /\ IF port = "red" /\ verdict.status = "raised" THEN UNCHANGED verdict
       ELSE verdict' = [status |-> "error", reason |-> "unlink",
                        stage |-> IF port = "blue" THEN "init" ELSE "cleanup"]
    /\ UNCHANGED <<port, cancelled, runner, request, actual, vanished, before, after, changes, touched,
                   credentials>>

NodeStep ==
    \/ Validate \/ Build \/ Credentials \/ UnsafeFile \/ Raised \/ CommandFails \/ Initialized
    \/ BlueReads \/ GreenPulls \/ GreenProbes \/ RedProbes \/ RedPulls \/ Decide \/ Planned \/ PlanShown \/ RefreshShown
    \/ Applied \/ Pulled \/ Leave \/ LeaveFails

Next ==
    \/ NodeStep \/ OtherRun \/ Touch
    \/ (RunnerStep \/ CommandStep) /\ UNCHANGED node

(* Timers fire and the event loop goes on; the processes may hang.          *)
Fairness == WF_vars(NodeStep) /\ WF_vars(RunnerStep /\ UNCHANGED node)

Spec == Init /\ [][Next]_vars /\ Fairness

-----------------------------------------------------------------------------
(* Properties.                                                              *)

Answered == at = "answered"

(* Every variable keeps to its type.                                        *)
TypeOK ==
    /\ port \in Ports /\ op \in Operations
    /\ {protect, require, seen, expired, cancelled, exit, vanished, touched, credentials} \subseteq BOOLEAN
    /\ phase \in {"idle", "launch", "running", "draining", "stopping", "interrupting"}
    /\ alive \subseteq {"main", "helper"}
    /\ helper \in [born : BOOLEAN, apart : BOOLEAN, pipe : BOOLEAN]
    /\ result \in {"none", "ok", "failed", "timeout", "cancelled", "unstarted"}
    /\ at \in Commands \cup {"validate", "build", "credentials", "decide", "leave", "answered"}
    /\ actual \in Kinds /\ before \in Kinds \cup {"unread"}
    /\ after \in Pullable \cup Observations \cup {"unread"}
    /\ changes \in {"none", "possible"}
    /\ verdict.status \in {"open", "ready", "destroyed", "error", "raised"}

(* What a port makes of a reading: it goes on, answers, or refuses it with  *)
(* a code.                                                                  *)
Outcome(p, stage, reading) ==
    IF reading \in {"plan", "refresh", "destroyed", "ready"} THEN reading
    ELSE Code(p, stage, reading)

(* The ports answer alike, but for those that stand apart: exactly these    *)
(* answer otherwise.                                                        *)
AllBut(apart, answer) ==
    \A p, q \in Ports : answer[p] = answer[q] <=> (p \in apart <=> q \in apart)

(* The state before: Green plans the deletion of nothing, Red alone takes   *)
(* the empty state for absent when existing state is required, Blue's code  *)
(* for it at resolve-connection is state_unreadable, and Blue calls ready   *)
(* what has no address.                                                     *)
BeforeApart ==
    IF before = "empty"
    THEN IF op = "delete" THEN {"green"}
         ELSE IF op = "create" /\ require THEN {"red"}
         ELSE IF op = "resolve-connection" THEN {"blue"} ELSE {}
    ELSE IF before = "bare" /\ op = "inspect" THEN {"blue"} ELSE {}

(* The state after an apply: Blue finds the identity wrong where the others *)
(* find the outputs unreadable, and is ready without an address; only Red   *)
(* does not tell another unit's state after create, only Green does so      *)
(* after delete.                                                            *)
AfterApart ==
    IF after = "foreign" THEN IF op = "create" THEN {"red"} ELSE {"green"}
    ELSE IF after \in {"empty", "bare"} /\ op = "create" THEN {"blue"} ELSE {}

RefreshApart == IF after = "gone" THEN {"red"} ELSE IF after = "reissued" THEN {"blue"} ELSE {}

ReadingsAgree ==
    /\ before # "unread" =>
           AllBut(BeforeApart, [p \in Ports |-> Outcome(p, "state", Decision(p, before))])
    /\ after \in Pullable /\ op \in {"create", "delete"} =>
           AllBut(AfterApart, [p \in Ports |-> Outcome(p, "state", Final(p, after))])
    /\ after \in Observations =>
           AllBut(RefreshApart, [p \in Ports |-> Outcome(p, "plan-validation", Refreshed(p, after))])

(* Failures that no reading of a state decides.                             *)
FailuresAgree ==
    verdict.status = "error"
        /\ (verdict.stage = "state" => verdict.reason \in {"command", "unsafe", "value"}) =>
        \A p \in Ports :
            \/ Code(p, verdict.stage, verdict.reason) = Code("red", verdict.stage, verdict.reason)
            \/ p = "blue" /\ <<verdict.stage, verdict.reason>> = <<"build", "identity">>
            \/ p = "green" /\ port # "green" /\ verdict.reason = "unsafe"

(* From the same request and the same state before, state after or refresh, *)
(* the three ports go the same way, give the same answer or refuse with the *)
(* same code, but for exactly the differences named above; and they report  *)
(* other failures with the same code, but for a message that Blue does not  *)
(* recognize and a check that Green does not make.                          *)
PortsAgree == ReadingsAgree /\ FailuresAgree

(* Whatever a run takes for a missing state was missing at some time while  *)
(* it ran: a failed or contradicted read never counts as absence.           *)
AbsentWasMissing == before = "missing" => vanished

(* When a killed command has been answered for, none of its processes is    *)
(* left, but a helper that left the process group (Blue, Red) or was never  *)
(* enumerated (Green).                                                      *)
AnsweredMeansStopped ==
    phase = "idle" /\ result \in {"timeout", "cancelled"} =>
        alive \subseteq (IF port = "green" THEN IF seen THEN {} ELSE {"helper"}
                         ELSE IF helper.apart THEN {"helper"} ELSE {})

(* However a run ends, it leaves no backend credentials, unless it says     *)
(* that it could not remove them (or was cancelled in Red).                 *)
CredentialsGone ==
    Answered /\ credentials => verdict.reason = "unlink" \/ (port = "red" /\ verdict.status = "raised")

(* A run that reports no infrastructure changes made none.                  *)
NoneMeansUntouched == Answered /\ changes = "none" => ~touched

(* Every run ends, whatever its commands do, unless a helper in a group of  *)
(* its own keeps the output of a killed command open, on which Blue and Red *)
(* wait without a deadline.                                                 *)
Stuck == phase = "draining" /\ "helper" \in alive /\ helper.apart /\ helper.pipe

EveryRunEnds == <>[](Answered \/ Stuck)

(* The contract: a command is answered as "timeout" when "the process or    *)
(* its captured output exceeded the deadline".  Every run is answered, also *)
(* when a helper holds the output open.  It does not hold in Blue and Red,  *)
(* whose wait for the end of the output has no deadline once they killed.   *)
EveryRunAnswers == <>[]Answered

(* The contract: on a timeout "the runner terminates its owned processes".  *)
(* When it is answered, no helper is left that stayed in the group of its   *)
(* command.  It does not hold in Green, which kills those it enumerated: a  *)
(* helper that was forked after its last look lives on.                     *)
TimeoutTerminates ==
    phase = "idle" /\ result = "timeout" /\ "helper" \in alive => helper.apart

=============================================================================
