----------------------------- MODULE PortRunner -----------------------------
(***************************************************************************)
(* Running one command in the three ports: Blue's _run, Green's            *)
(* run-command and Red's executeBackendCommand.  The command may start a   *)
(* helper that outlives it, leaves its process group or keeps its output   *)
(* open; the deadline passes, or the caller cancels.                       *)
(***************************************************************************)

Ports == {"blue", "green", "red"}

VARIABLES
    port,
    phase,      \* of the command: idle, launch, running, draining,
                \* stopping, interrupting
    alive,      \* its processes that exist
    helper,     \* [born, apart, pipe]: left the group, holds the output open
    seen,       \* Green: the helper was among the descendants it enumerated
    expired,    \* the deadline has passed
    cancelled,  \* the caller asked to stop
    exit,       \* the main process succeeded
    result      \* of the last command

runner == <<phase, alive, helper, seen, expired, exit, result>>

NoHelper == [born |-> FALSE, apart |-> FALSE, pipe |-> FALSE]

RunnerInit ==
    /\ port \in Ports
    /\ phase = "idle" /\ alive = {} /\ helper = NoHelper /\ seen = FALSE
    /\ expired = FALSE /\ cancelled = FALSE /\ exit = FALSE /\ result = "none"

(* The output ends when nobody holds it any more.                           *)
Closed == "main" \notin alive /\ ("helper" \in alive => ~helper.pipe)

Answer(value) ==
    /\ phase' = "idle"
    /\ result' = value
    /\ expired' = FALSE /\ exit' = FALSE

(* No such directory, no such program, or the fork fails.                   *)
Unstarted ==
    /\ phase = "launch"
    /\ Answer("unstarted")
    /\ UNCHANGED <<port, alive, helper, seen, cancelled>>

Launch ==
    /\ phase = "launch" /\ phase' = "running"
    /\ alive' = {"main"} /\ helper' = NoHelper
    /\ seen' = FALSE /\ expired' = FALSE /\ exit' = FALSE
    /\ UNCHANGED <<port, cancelled, result>>

(* The processes of the command.                                            *)
Fork ==
    /\ "main" \in alive /\ ~helper.born
    /\ \E apart, pipe \in BOOLEAN : helper' = [born |-> TRUE, apart |-> apart, pipe |-> pipe]
    /\ alive' = alive \cup {"helper"}
    /\ UNCHANGED <<port, phase, seen, expired, cancelled, exit, result>>

Exit(process) ==
    /\ process \in alive
    /\ alive' = alive \ {process}
    /\ IF process = "main" THEN exit' \in BOOLEAN ELSE UNCHANGED exit
    /\ UNCHANGED <<port, phase, helper, seen, expired, cancelled, result>>

ExpireUnlessGreen ==    \* mutant: Green waits without a deadline
    /\ port # "green" /\ phase = "running" /\ ~expired
    /\ expired' = TRUE
    /\ UNCHANGED <<port, phase, alive, helper, seen, cancelled, exit, result>>

Expire ==
    /\ phase = "running" /\ ~expired
    /\ expired' = TRUE
    /\ UNCHANGED <<port, phase, alive, helper, seen, cancelled, exit, result>>

Cancel ==
    /\ port # "red" /\ ~cancelled    \* Red's runner takes no cancellation
    /\ cancelled' = TRUE
    /\ UNCHANGED <<port, runner>>

Collect ==
    /\ phase = "running" /\ Closed
    /\ port = "red" => ~expired
    /\ Answer(IF exit THEN "ok" ELSE "failed")
    /\ UNCHANGED <<port, alive, helper, seen, cancelled>>

KillChild ==    \* mutant: only the child is killed, not its group
    /\ port # "green" /\ phase = "running"
    /\ expired \/ cancelled
    /\ alive' = alive \ {"main"}
    /\ phase' = "draining"
    /\ UNCHANGED <<port, helper, seen, expired, cancelled, exit, result>>

(* Blue and Red kill the process group and then wait for the output to end. *)
KillGroup ==
    /\ port # "green" /\ phase = "running"
    /\ expired \/ cancelled
    /\ alive' = IF helper.apart THEN alive \ {"main"} ELSE {}
    /\ phase' = "draining"
    /\ UNCHANGED <<port, helper, seen, expired, cancelled, exit, result>>

(* Blue may also be cancelled (again) while it waits.                       *)
Drain ==
    /\ phase = "draining"
    /\ Closed \/ (port = "blue" /\ cancelled)
    /\ Answer(IF cancelled THEN "cancelled" ELSE "timeout")
    /\ UNCHANGED <<port, alive, helper, seen, cancelled>>

(* Green looks for descendants every 25 ms while the command runs.          *)
Poll ==
    /\ port = "green" /\ phase = "running"
    /\ "main" \in alive /\ "helper" \in alive /\ ~seen
    /\ seen' = TRUE
    /\ UNCHANGED <<port, phase, alive, helper, expired, cancelled, exit, result>>

(* stop-process! enumerates once more, kills what it knows and returns.     *)
Enumerate ==
    /\ port = "green" /\ phase = "running"
    /\ \/ expired /\ phase' = "stopping"
       \/ cancelled /\ phase' = "interrupting"
    /\ seen' = (seen \/ {"main", "helper"} \subseteq alive)
    /\ UNCHANGED <<port, alive, helper, expired, cancelled, exit, result>>

KillTree ==
    /\ phase \in {"stopping", "interrupting"}
    /\ alive' = IF seen THEN {} ELSE alive \ {"main"}
    /\ Answer(IF phase = "stopping" THEN "timeout" ELSE "cancelled")
    /\ UNCHANGED <<port, helper, seen, cancelled>>

RunnerStep == Unstarted \/ Launch \/ Expire \/ Collect \/ KillGroup \/ Drain \/ Enumerate \/ KillTree

CommandStep == Fork \/ Poll \/ Cancel \/ \E process \in alive : Exit(process)

=============================================================================
