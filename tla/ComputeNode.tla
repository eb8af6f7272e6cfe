----------------------------- MODULE ComputeNode -----------------------------
(***************************************************************************)
(* compute_node: one lifecycle operation on one compute unit, from the     *)
(* private working directory to the answer.  The unit's OpenTofu state is  *)
(* read once without its lock to decide, then planned and applied by       *)
(* OpenTofu under the lock, then read again to answer.  A unit is a        *)
(* compute_identity (profile, node, state file, provider, SSH identity); a *)
(* machine is named by the run that created it.                            *)
(***************************************************************************)
EXTENDS Naturals

CONSTANTS
    Runs,       \* invocations of compute_node on one state key
    Units,      \* compute identities that callers ask for under that key
    Dirs,       \* working directories: callers serialize each of them
    None,
    Torn,       \* a compute.tf.json that was truncated and not yet written
    Faults      \* TRUE: commands fail, applies break off, processes die

ASSUME NoneAssumption == None \notin Runs \cup Units /\ Torn \notin Units \cup {None}
ASSUME SwitchAssumption == Faults \in BOOLEAN

VARIABLES
    state,      \* the remote state: [present, serial, machine, owner]
    lock,       \* the run that holds the state lock, or None
    cloud,      \* the machines that exist
    config,     \* directory -> the identity in compute.tf.json, None or Torn
    pc, req,
    seen,       \* run -> the state it read before planning
    plan,       \* run -> approved.tfplan: [action, serial]
    changes,    \* run -> what it would report as infrastructure_changes
    touched,    \* history: the runs that changed the state or the cloud
    overlapped, \* history: whether two runs were ever in progress together
    outcome     \* run -> what it told its caller

vars == <<state, lock, cloud, config, pc, req, seen, plan, changes, touched,
          overlapped, outcome>>

Operations == {"build", "create", "delete", "inspect", "resolve-connection"}

(* compute-prevent-destroy only matters to delete, and                      *)
(* compute-require-existing-state only to create.                           *)
Requests ==
    {r \in [op : Operations, unit : Units, dir : Dirs,
            protect : BOOLEAN, requireExisting : BOOLEAN] :
        /\ ~r.protect => r.op = "delete"
        /\ r.requireExisting => r.op = "create"}

NoRequest == [op |-> "build", unit |-> None, dir |-> None,
              protect |-> TRUE, requireExisting |-> FALSE]

(* owner is the compute_identity output, machine the one managed resource.  *)
NoState == [present |-> FALSE, serial |-> 0, machine |-> None, owner |-> None]

IsEmpty(st) == st.machine = None /\ st.owner = None

Answer(kind, machine) == [kind |-> kind, machine |-> machine]

Locations == {"idle", "validate", "build", "observe", "plan", "apply", "applying",
              "persist", "pull", "refresh", "done"}

InProgress(r) == pc[r] \notin {"idle", "done"}

Init ==
    /\ state = NoState
    /\ lock = None
    /\ cloud = {}
    /\ config = [d \in Dirs |-> None]
    /\ pc = [r \in Runs |-> "idle"]
    /\ req = [r \in Runs |-> NoRequest]
    /\ seen = [r \in Runs |-> NoState]
    /\ plan = [r \in Runs |-> None]
    /\ changes = [r \in Runs |-> "none"]
    /\ touched = {}
    /\ overlapped = FALSE
    /\ outcome = [r \in Runs |-> Answer("none", None)]

-----------------------------------------------------------------------------

Goto(r, label) == pc' = [pc EXCEPT ![r] = label]

Finish(r, kind, machine) ==
    /\ Goto(r, "done")
    /\ outcome' = [outcome EXCEPT ![r] = Answer(kind, machine)]

Fail(r) ==
    /\ Finish(r, "error", None)
    /\ UNCHANGED <<state, lock, cloud, config, req, seen, plan, changes,
                   touched, overlapped>>

(* The caller keeps operations that share a directory apart.                *)
Start(r) ==
    /\ pc[r] = "idle"
    /\ \E request \in Requests :
          /\ \A q \in Runs : InProgress(q) => req[q].dir # request.dir
          /\ req' = [req EXCEPT ![r] = request]
    /\ overlapped' = (overlapped \/ \E q \in Runs : InProgress(q))
    /\ Goto(r, "validate")
    /\ UNCHANGED <<state, lock, cloud, config, seen, plan, changes, touched, outcome>>

Validate(r) ==
    /\ pc[r] = "validate"
    /\ ~(req[r].op = "delete" /\ req[r].protect)
    /\ Goto(r, "build")
    /\ UNCHANGED <<state, lock, cloud, config, req, seen, plan, changes,
                   touched, overlapped, outcome>>

DeleteProtected(r) ==
    /\ pc[r] = "validate"
    /\ req[r].op = "delete" /\ req[r].protect
    /\ Fail(r)

(* build_node: the identity on disk is compared before it is replaced.      *)
Build(r) ==
    /\ pc[r] = "build"
    /\ config[req[r].dir] \in {None, req[r].unit}
    /\ config' = [config EXCEPT ![req[r].dir] = req[r].unit]
    /\ IF req[r].op = "build" THEN Finish(r, "built", None)
                              ELSE Goto(r, "observe") /\ UNCHANGED outcome
    /\ UNCHANGED <<state, lock, cloud, req, seen, plan, changes, touched,
                   overlapped>>

BuildRefused(r) ==
    /\ pc[r] = "build"
    /\ config[req[r].dir] \notin {None, req[r].unit}
    /\ Fail(r)

(* _write truncates in place: a run that dies here leaves a file no later   *)
(* run can parse.                                                           *)
BuildDies(r) ==
    /\ Faults
    /\ pc[r] = "build"
    /\ config[req[r].dir] \in {None, req[r].unit}
    /\ config' = [config EXCEPT ![req[r].dir] = Torn]
    /\ Finish(r, "error", None)
    /\ UNCHANGED <<state, lock, cloud, req, seen, plan, changes, touched,
                   overlapped>>

-----------------------------------------------------------------------------
(* The decision from the state as it was read, without the lock.            *)

(* A failed first apply may persist its static identity and nothing else.   *)
IdentityOnlyRetry(r, st) == req[r].op = "create" /\ st.owner = req[r].unit

AcceptsForeign(r, st) ==    \* mutant: the recorded identity is not compared
    /\ IsEmpty(st) \/ st.machine # None \/ IdentityOnlyRetry(r, st)
    /\ st.present \/ req[r].op = "create"
    /\ req[r].requireExisting => st.present
    /\ req[r].op = "resolve-connection" => st.machine # None

Accepts(r, st) ==
    /\ st.machine = None => IsEmpty(st) \/ IdentityOnlyRetry(r, st)
    /\ st.machine # None => st.owner = req[r].unit
    /\ st.present \/ req[r].op = "create"
    /\ req[r].requireExisting => st.present /\ ~(st.machine = None /\ IdentityOnlyRetry(r, st))
    /\ req[r].op = "resolve-connection" => st.machine # None

Observe(r) ==
    /\ pc[r] = "observe"
    /\ Accepts(r, state)
    /\ seen' = [seen EXCEPT ![r] = state]
    /\ IF req[r].op \in {"inspect", "delete"} /\ IsEmpty(state)
       THEN Finish(r, "destroyed", None)
       ELSE /\ Goto(r, CASE req[r].op = "inspect" -> "pull"
                         [] req[r].op = "resolve-connection" -> "refresh"
                         [] OTHER -> "plan")
            /\ UNCHANGED outcome
    /\ UNCHANGED <<state, lock, cloud, config, req, plan, changes, touched,
                   overlapped>>

ObserveRefused(r) ==
    /\ pc[r] = "observe"
    /\ ~Accepts(r, state)
    /\ Fail(r)

-----------------------------------------------------------------------------
(* OpenTofu, as compute_node drives it.                                     *)

(* What tofu plan may find to do.  An existing machine may need nothing, an *)
(* update in place (other SSH metadata) or a replacement (another image).   *)
PlannedActions(r) ==
    IF req[r].op = "delete"
    THEN IF state.machine \in cloud THEN {"delete"} ELSE {"no-op"}
    ELSE IF state.machine \in cloud THEN {"no-op", "update", "replace"} ELSE {"create"}

PermitReplace(r, action) == TRUE    \* mutant: a create plan may delete

(* _valid_plan: a create refuses every delete, a replacement included.      *)
ValidPlan(r, action) ==
    action \in IF req[r].op = "create" THEN {"no-op", "create", "update"}
                                       ELSE {"no-op", "delete"}

Plan(r) ==
    /\ pc[r] = "plan"
    /\ lock = None
    /\ \E action \in PlannedActions(r) :
          /\ ValidPlan(r, action)
          /\ plan' = [plan EXCEPT ![r] = [action |-> action, serial |-> state.serial]]
    /\ Goto(r, "apply")
    /\ UNCHANGED <<state, lock, cloud, config, req, seen, changes, touched,
                   overlapped, outcome>>

PlanRefused(r) ==
    /\ pc[r] = "plan"
    /\ lock # None \/ \E action \in PlannedActions(r) : ~ValidPlan(r, action)
    /\ Fail(r)

(* A saved plan is applied only to the state it was made from.              *)
Appliable(r) == lock = None /\ plan[r].serial = state.serial

ApplyUnlocked(r) ==    \* mutant: apply is run with -lock=false
    /\ pc[r] = "apply"
    /\ plan[r].serial = state.serial
    /\ changes' = [changes EXCEPT ![r] = "possible"]
    /\ lock' = r
    /\ Goto(r, "applying")
    /\ UNCHANGED <<state, cloud, config, req, seen, plan, touched, overlapped,
                   outcome>>

LateApply(r) ==    \* mutant: the report stays "none" until apply returns
    /\ pc[r] = "apply"
    /\ Appliable(r)
    /\ lock' = r
    /\ Goto(r, "applying")
    /\ UNCHANGED <<state, cloud, config, req, seen, plan, changes, touched,
                   overlapped, outcome>>

Apply(r) ==
    /\ pc[r] = "apply"
    /\ Appliable(r)
    /\ changes' = [changes EXCEPT ![r] = "possible"]
    /\ lock' = r
    /\ Goto(r, "applying")
    /\ UNCHANGED <<state, cloud, config, req, seen, plan, touched, overlapped,
                   outcome>>

ApplyFailedIsGone(r) ==    \* mutant: a delete whose apply fails found nothing
    /\ pc[r] = "apply"
    /\ ~Appliable(r)
    /\ changes' = [changes EXCEPT ![r] = "possible"]
    /\ Finish(r, IF req[r].op = "delete" THEN "destroyed" ELSE "error", None)
    /\ UNCHANGED <<state, lock, cloud, config, req, seen, plan, touched,
                   overlapped>>

ApplyRefused(r) ==
    /\ pc[r] = "apply"
    /\ ~Appliable(r)
    /\ changes' = [changes EXCEPT ![r] = "possible"]
    /\ Finish(r, "error", None)
    /\ UNCHANGED <<state, lock, cloud, config, req, seen, plan, touched,
                   overlapped>>

CloudAfter(r) ==
    CASE plan[r].action = "create"  -> cloud \cup {r}
      [] plan[r].action = "delete"  -> cloud \ {state.machine}
      [] plan[r].action = "replace" -> (cloud \ {state.machine}) \cup {r}
      [] OTHER                      -> cloud

(* An update changes the machine in place and keeps its name.               *)
StateAfter(r) ==
    [present |-> TRUE,
     serial  |-> state.serial + 1,
     machine |-> CASE plan[r].action \in {"create", "replace"} -> r
                   [] req[r].op = "delete"                     -> None
                   [] OTHER                                    -> state.machine,
     owner   |-> IF req[r].op = "delete" THEN None ELSE req[r].unit]

ApplyToProvider(r) ==
    /\ pc[r] = "applying"
    /\ cloud' = CloudAfter(r)
    /\ touched' = touched \cup {r}
    /\ Goto(r, "persist")
    /\ UNCHANGED <<state, lock, config, req, seen, plan, changes, overlapped,
                   outcome>>

ApplyPersist(r) ==
    /\ pc[r] = "persist"
    /\ state' = StateAfter(r)
    /\ lock' = None
    /\ Goto(r, "pull")
    /\ UNCHANGED <<cloud, config, req, seen, plan, changes, touched,
                   overlapped, outcome>>

(* An apply that breaks off keeps what it did so far: the static identity   *)
(* alone, a machine gone with the outputs left, or a machine the state does *)
(* not know.  A tofu that was killed leaves its lock, and nothing forces it.*)
StatesBroken(r) ==
    {state} \cup
    (IF pc[r] = "applying"
     THEN IF plan[r].action = "create"
          THEN {[state EXCEPT !.present = TRUE, !.serial = @ + 1, !.owner = req[r].unit]}
          ELSE {}
     ELSE {StateAfter(r), [StateAfter(r) EXCEPT !.owner = state.owner]})

ApplyBreaks(r) ==
    /\ Faults
    /\ pc[r] \in {"applying", "persist"}
    /\ state' \in StatesBroken(r)
    /\ touched' = touched \cup {r}
    /\ lock' \in {None, r}
    /\ Finish(r, "error", None)
    /\ UNCHANGED <<cloud, config, req, seen, plan, changes, overlapped>>

-----------------------------------------------------------------------------
(* The answer, from the state pulled at the end.                            *)

Pull(r) ==
    /\ pc[r] = "pull"
    /\ IF req[r].op = "delete"
       THEN IF IsEmpty(state) THEN Finish(r, "destroyed", None) ELSE Finish(r, "error", None)
       ELSE IF state.machine # None /\ state.owner = req[r].unit
            THEN Finish(r, "ready", state.machine) ELSE Finish(r, "error", None)
    /\ UNCHANGED <<state, lock, cloud, config, req, seen, plan, changes,
                   touched, overlapped>>

(* A refresh-only plan: the machine must be the one the state named, alive. *)
(* (The identity it compares is evaluated from its own configuration.)      *)
Refresh(r) ==
    /\ pc[r] = "refresh"
    /\ IF /\ lock = None
          /\ state.machine = seen[r].machine
          /\ state.machine \in cloud
       THEN Finish(r, "ready", state.machine) ELSE Finish(r, "error", None)
    /\ UNCHANGED <<state, lock, cloud, config, req, seen, plan, changes,
                   touched, overlapped>>

(* A command fails, an input is missing or invalid, or the process dies (a  *)
(* run that dies answers nothing, which is an error that says less).        *)
Breaks(r) ==
    /\ Faults
    /\ pc[r] \in {"validate", "build", "observe", "plan", "pull", "refresh"}
    /\ Fail(r)

Progress(r) ==
    \/ Validate(r) \/ DeleteProtected(r) \/ Build(r) \/ BuildRefused(r) \/ Observe(r)
    \/ ObserveRefused(r) \/ Plan(r) \/ PlanRefused(r) \/ Apply(r) \/ ApplyRefused(r)
    \/ ApplyToProvider(r) \/ ApplyPersist(r) \/ Pull(r) \/ Refresh(r)

Next ==
    \E r \in Runs : \/ Start(r) \/ Progress(r)
                    \/ BuildDies(r) \/ ApplyBreaks(r) \/ Breaks(r)

Spec == Init /\ [][Next]_vars

-----------------------------------------------------------------------------
(* Properties.                                                              *)

States == [present : BOOLEAN, serial : Nat, machine : Runs \cup {None}, owner : Units \cup {None}]

Plans == [action : {"no-op", "create", "update", "delete", "replace"}, serial : Nat]

Kinds == {"none", "built", "ready", "destroyed", "error"}

(* Every variable keeps to its type.                                        *)
TypeOK ==
    /\ state \in States /\ lock \in Runs \cup {None} /\ cloud \subseteq Runs
    /\ config \in [Dirs -> Units \cup {None, Torn}]
    /\ pc \in [Runs -> Locations] /\ req \in [Runs -> Requests \cup {NoRequest}]
    /\ seen \in [Runs -> States] /\ plan \in [Runs -> Plans \cup {None}]
    /\ changes \in [Runs -> {"none", "possible"}] /\ touched \subseteq Runs
    /\ overlapped \in BOOLEAN
    /\ outcome \in [Runs -> [kind : Kinds, machine : Runs \cup {None}]]

(* Every failure says truly that nothing was changed: who answers "none"    *)
(* changed neither the state nor a machine, however applies broke off.      *)
NoneMeansUntouched ==
    \A r \in Runs :
        outcome[r].kind = "error" /\ changes[r] = "none" => r \notin touched

(* A machine is only destroyed by a delete whose caller lifted the          *)
(* protection: a create replaces nothing, whatever other runs did between   *)
(* its read of the state and its plan.                                      *)
DestroyNeedsConsent ==
    [][\A m \in cloud \ cloud' : \E r \in Runs :
           pc[r] = "applying" /\ req[r].op = "delete" /\ ~req[r].protect]_vars

(* A caller that was told "ready" never loses track: its machine stays      *)
(* recorded in the state for as long as it lives.                           *)
NoReadyOrphan ==
    \A m \in cloud : outcome[m].kind = "ready" => state.machine = m

(* A delete that reports "destroyed" leaves no trace of the machine it      *)
(* found, also when others deleted or created in between.                   *)
DestroyedIsGone ==
    \A r \in Runs :
        outcome[r].kind = "destroyed" => seen[r].machine \notin cloud

(* The contract: "Changing this identity or an existing backend is          *)
(* refused".  No apply starts on a machine that was made for another unit.  *)
(* It does not hold: two creates from two directories both read an absent   *)
(* state, and the second plans after the first was applied.                 *)
ForeignMachineUntouched ==
    \A r \in Runs :
        pc[r] = "applying" /\ state.machine \in cloud
            => req[state.machine].unit = req[r].unit

(* It holds among runs that follow one another, from whatever directories   *)
(* and however the earlier ones broke off: what they recorded is enough to  *)
(* refuse the next one.                                                     *)
SerialMachineKeepsUnit == ~overlapped => ForeignMachineUntouched

=============================================================================
