------------------------- MODULE ComputeNodeProofs -------------------------
(***************************************************************************)
(* Proofs about ComputeNode, for every set of runs, compute units and      *)
(* directories, with and without faults: the state lock and the serial of  *)
(* a saved plan keep the recorded machine and the cloud together through   *)
(* applies that break off anywhere.                                        *)
(***************************************************************************)
EXTENDS ComputeNode, TLAPS

Applying == {"applying", "persist"}
Planned == {"apply"} \cup Applying

(* An apply holds the state lock until it ends.                             *)
LockHeld == \A r \in Runs : pc[r] \in Applying => lock = r

(* What a run has been through by the time it is where it is.               *)
InCourse ==
    \A r \in Runs :
        /\ pc[r] # "idle" => req[r] \in Requests
        /\ pc[r] # "done" => outcome[r].kind = "none"
        /\ pc[r] \in {"build", "observe", "plan"} \cup Planned =>
               (req[r].op = "delete" => ~req[r].protect)
        /\ pc[r] = "observe" => req[r].op # "build"
        /\ pc[r] \in {"plan"} \cup Planned => req[r].op \in {"create", "delete"}
        /\ pc[r] \in Planned => plan[r] \in Plans /\ ValidPlan(r, plan[r].action)

(* The run's apply takes the recorded machine out of the state.             *)
Vacates(r) == plan[r].action = "create" \/ req[r].op = "delete"

(* A plan that still fits the state: while the serial stands, so does what  *)
(* it found, and an apply that takes a machine out of the state has         *)
(* destroyed it, or found it gone.                                          *)
PlanFits ==
    \A r \in Runs :
        /\ pc[r] \in Planned => plan[r].serial <= state.serial
        /\ pc[r] \in Applying => plan[r].serial = state.serial
        /\ pc[r] \in Planned /\ plan[r].serial = state.serial =>
               (Vacates(r) /\ plan[r].action # "delete" => state.machine \notin cloud)
        /\ pc[r] = "persist" /\ Vacates(r) => state.machine \notin cloud

(* A machine is made by the apply of the run it is named by, and recorded   *)
(* when that run persists.                                                  *)
MadeByRun ==
    /\ \A m \in cloud : /\ pc[m] \in {"persist", "pull", "done"}
                        /\ pc[m] = "persist" => plan[m].action = "create"
    /\ \A m \in Runs :
           m = state.machine \/ (\E r \in Runs : m = seen[r].machine)
               => pc[m] \in {"pull", "done"}

(* A living machine that a caller knows of, or is about to, is recorded.    *)
KeepsTrack ==
    /\ \A m \in cloud : pc[m] = "pull" \/ outcome[m].kind = "ready" => state.machine = m
    /\ \A r \in Runs : seen[r].machine \in cloud => state.machine = seen[r].machine

(* Whoever may have changed something says so.                              *)
Reported ==
    \A r \in Runs : r \in touched \/ pc[r] \in Applying => changes[r] = "possible"

(* Without overlaps a run decides on the state it changes, and the recorded *)
(* identity is the machine's.                                               *)
SerialDecision ==
    ~overlapped =>
        /\ \A r, q \in Runs : InProgress(r) /\ InProgress(q) => r = q
        /\ \A r \in Runs : pc[r] \in {"plan"} \cup Planned =>
               /\ state.machine # None => state.owner = req[r].unit
               /\ state.owner \in {None, req[r].unit}
        /\ state.machine # None => state.owner \in {None, req[state.machine].unit}

Inv ==
    /\ TypeOK
    /\ LockHeld
    /\ InCourse
    /\ PlanFits
    /\ MadeByRun
    /\ KeepsTrack
    /\ Reported
    /\ SerialDecision
    /\ DestroyedIsGone

-----------------------------------------------------------------------------
(* The steps of one run.                                                    *)
Step(r) ==
    \/ Start(r) \/ Validate(r) \/ DeleteProtected(r) \/ Build(r) \/ BuildRefused(r) \/ BuildDies(r)
    \/ Observe(r) \/ ObserveRefused(r) \/ Plan(r) \/ PlanRefused(r) \/ Apply(r) \/ ApplyRefused(r)
    \/ ApplyToProvider(r) \/ ApplyPersist(r) \/ ApplyBreaks(r) \/ Pull(r) \/ Refresh(r)
    \/ Breaks(r)

LEMMA NextIsStep == Next <=> \E r \in Runs : Step(r)
  BY DEF Next, Step, Progress

(* What a run does leaves the others' variables alone, and it is in its     *)
(* apply when it writes the state or the cloud.                             *)
LEMMA OthersUntouched ==
  ASSUME TypeOK, NEW r \in Runs, Step(r), NEW o \in Runs \ {r}
  PROVE  /\ pc'[o] = pc[o] /\ req'[o] = req[o] /\ seen'[o] = seen[o] /\ plan'[o] = plan[o]
         /\ changes'[o] = changes[o] /\ outcome'[o] = outcome[o]
         /\ o \in touched' => o \in touched
  BY DEF TypeOK, Step, Start, Validate, DeleteProtected, Build, BuildRefused, BuildDies, Observe,
         ObserveRefused, Plan, PlanRefused, Apply, ApplyRefused, ApplyToProvider, ApplyPersist,
         ApplyBreaks, Pull, Refresh, Breaks, Fail, Finish, Goto

LEMMA ApplyingWrites ==
  ASSUME NEW r \in Runs, Step(r), state' # state \/ cloud' # cloud
  PROVE  pc[r] \in Applying /\ (ApplyToProvider(r) \/ ApplyPersist(r) \/ ApplyBreaks(r))
  BY DEF Applying, Step, Start, Validate, DeleteProtected, Build, BuildRefused, BuildDies, Observe,
         ObserveRefused, Plan, PlanRefused, Apply, ApplyRefused, ApplyToProvider, ApplyPersist,
         ApplyBreaks, Pull, Refresh, Breaks, Fail

(* A step that is not the apply's keeps the state, the cloud and the report.*)
LEMMA QuietStep ==
  ASSUME NEW r \in Runs, Step(r),
         ~(ApplyToProvider(r) \/ ApplyPersist(r) \/ ApplyBreaks(r))
  PROVE  UNCHANGED <<state, cloud, touched>>
  BY DEF Step, Start, Validate, DeleteProtected, Build, BuildRefused, BuildDies, Observe,
         ObserveRefused, Plan, PlanRefused, Apply, ApplyRefused, Pull, Refresh, Breaks, Fail

-----------------------------------------------------------------------------
(* Types.                                                                   *)

LEMMA FinishTyped ==
  ASSUME TypeOK, NEW r \in Runs, NEW kind \in Kinds, NEW machine \in Runs \cup {None},
         Finish(r, kind, machine)
  PROVE  /\ pc' \in [Runs -> Locations]
         /\ outcome' \in [Runs -> [kind : Kinds, machine : Runs \cup {None}]]
  BY DEF Finish, Goto, Answer, TypeOK, Locations

LEMMA FailTyped ==
  ASSUME TypeOK, NEW r \in Runs, Fail(r)
  PROVE  TypeOK'
  BY FinishTyped DEF Fail, TypeOK, Kinds

LEMMA GotoTyped ==
  ASSUME TypeOK, NEW r \in Runs, NEW label \in Locations, Goto(r, label)
  PROVE  pc' \in [Runs -> Locations]
  BY DEF Goto, TypeOK

LEMMA StatesTyped ==
  ASSUME TypeOK, NEW r \in Runs, req[r] \in Requests
  PROVE  StateAfter(r) \in States /\ StatesBroken(r) \subseteq States
<1>1. req[r].unit \in Units
  BY DEF Requests
<1>2. StateAfter(r) \in States
  BY <1>1 DEF StateAfter, States, TypeOK
<1>3. [StateAfter(r) EXCEPT !.owner = state.owner] \in States
  BY <1>2 DEF States, TypeOK
<1>4. [state EXCEPT !.present = TRUE, !.serial = @ + 1, !.owner = req[r].unit] \in States
  <2>1. state \in States
    BY DEF TypeOK
  <2>2. state.serial + 1 \in Nat
    BY <2>1 DEF States
  <2> QED
    BY <1>1, <2>1, <2>2 DEF States
<1> QED
  BY <1>2, <1>3, <1>4 DEF StatesBroken, TypeOK

(* Every step keeps the types.                                              *)
LEMMA TypeStep ==
  ASSUME TypeOK, InCourse, NEW r \in Runs, Step(r)
  PROVE  TypeOK'
<1>a. pc[r] # "idle" => req[r] \in Requests
  BY DEF InCourse
<1>b. pc[r] # "idle" => req[r].unit \in Units /\ req[r].dir \in Dirs
  BY <1>a DEF Requests
<1>1. CASE Start(r)
  BY <1>1 DEF Start, Goto, TypeOK, Locations
<1>2. CASE DeleteProtected(r) \/ BuildRefused(r) \/ ObserveRefused(r) \/ PlanRefused(r) \/ Breaks(r)
  BY <1>2, FailTyped DEF DeleteProtected, BuildRefused, ObserveRefused, PlanRefused, Breaks
<1>3. CASE Validate(r)
  BY <1>3 DEF Validate, Goto, TypeOK, Locations
<1>4. CASE Build(r)
  <2>1. pc' \in [Runs -> Locations]
    BY <1>4 DEF Build, Finish, Goto, TypeOK, Locations
  <2>2. outcome' \in [Runs -> [kind : Kinds, machine : Runs \cup {None}]]
    BY <1>4 DEF Build, Finish, Answer, TypeOK, Kinds
  <2>3. config' \in [Dirs -> Units \cup {None, Torn}]
    BY <1>4, <1>b DEF Build, TypeOK
  <2> QED
    BY <1>4, <2>1, <2>2, <2>3 DEF Build, TypeOK
<1>5. CASE BuildDies(r)
  <2>1. config' \in [Dirs -> Units \cup {None, Torn}]
    BY <1>5 DEF BuildDies, TypeOK
  <2> QED
    BY <1>5, <2>1, FinishTyped DEF BuildDies, TypeOK, Kinds
<1>6. CASE Observe(r)
  <2>1. pc' \in [Runs -> Locations]
    BY <1>6 DEF Observe, Finish, Goto, TypeOK, Locations
  <2>2. outcome' \in [Runs -> [kind : Kinds, machine : Runs \cup {None}]]
    BY <1>6 DEF Observe, Finish, Answer, TypeOK, Kinds
  <2>3. seen' \in [Runs -> States]
    BY <1>6 DEF Observe, TypeOK
  <2> QED
    BY <1>6, <2>1, <2>2, <2>3 DEF Observe, TypeOK
<1>7. CASE Plan(r)
  <2>1. PlannedActions(r) \subseteq {"no-op", "create", "update", "delete", "replace"}
    BY DEF PlannedActions
  <2>2. plan' \in [Runs -> Plans \cup {None}]
    BY <1>7, <2>1 DEF Plan, TypeOK, Plans, States
  <2> QED
    BY <1>7, <2>2, GotoTyped DEF Plan, TypeOK, Locations
<1>8. CASE Apply(r)
  BY <1>8, GotoTyped DEF Apply, TypeOK, Locations
<1>9. CASE ApplyRefused(r)
  BY <1>9, FinishTyped DEF ApplyRefused, TypeOK, Kinds
<1>10. CASE ApplyToProvider(r)
  <2>1. cloud' \subseteq Runs
    BY <1>10 DEF ApplyToProvider, CloudAfter, TypeOK
  <2> QED
    BY <1>10, <2>1, GotoTyped DEF ApplyToProvider, TypeOK, Locations
<1>11. CASE ApplyPersist(r)
  BY <1>11, <1>a, GotoTyped, StatesTyped DEF ApplyPersist, TypeOK, Locations
<1>12. CASE ApplyBreaks(r)
  <2>1. state' \in States /\ lock' \in Runs \cup {None}
    BY <1>12, <1>a, StatesTyped DEF ApplyBreaks
  <2> QED
    BY <1>12, <2>1, FinishTyped DEF ApplyBreaks, TypeOK, Kinds
<1>13. CASE Pull(r) \/ Refresh(r)
  <2>1. state.machine \in Runs \cup {None}
    BY DEF TypeOK, States
  <2>2. \E kind \in Kinds, machine \in Runs \cup {None} : Finish(r, kind, machine)
    BY <1>13, <2>1 DEF Pull, Refresh, Kinds
  <2> QED
    BY <1>13, <2>2, FinishTyped DEF Pull, Refresh, TypeOK
<1> QED
  BY <1>1, <1>2, <1>3, <1>4, <1>5, <1>6, <1>7, <1>8, <1>9, <1>10, <1>11, <1>12, <1>13
  DEF Step

-----------------------------------------------------------------------------
(* The lock, and where a run can be.                                        *)

LEMMA LockStep ==
  ASSUME TypeOK, LockHeld, NEW r \in Runs, Step(r)
  PROVE  LockHeld'
<1>1. ASSUME NEW o \in Runs \ {r}, pc'[o] \in Applying PROVE lock' = o
  <2>1. pc[o] \in Applying /\ lock = o /\ lock # None
    BY <1>1, OthersUntouched, NoneAssumption DEF LockHeld
  <2>2. pc[r] \notin Applying /\ ~Apply(r)
    BY <2>1 DEF LockHeld, Apply, Appliable
  <2> QED
    BY <2>1, <2>2
    DEF Applying, Step, Start, Validate, DeleteProtected, Build, BuildRefused, BuildDies, Observe,
        ObserveRefused, Plan, PlanRefused, ApplyRefused, ApplyToProvider, ApplyPersist,
        ApplyBreaks, Pull, Refresh, Breaks, Fail
<1>2. ASSUME pc'[r] \in Applying PROVE lock' = r
  BY <1>2
  DEF TypeOK, LockHeld, Applying, Step, Start, Validate, DeleteProtected, Build, BuildRefused,
      BuildDies, Observe, ObserveRefused, Plan, PlanRefused, Apply, ApplyRefused, ApplyToProvider,
      ApplyPersist, ApplyBreaks, Pull, Refresh, Breaks, Fail, Finish, Goto
<1> QED
  BY <1>1, <1>2 DEF LockHeld

(* Two runs are never in their applies together.                            *)
LEMMA OneApplies ==
  ASSUME LockHeld, NEW r \in Runs, NEW o \in Runs, pc[r] \in Applying, pc[o] \in Applying
  PROVE  o = r
  BY DEF LockHeld

LEMMA InCourseStep ==
  ASSUME TypeOK, InCourse, NEW r \in Runs, Step(r)
  PROVE  InCourse'
<1> DEFINE P(o) ==
        /\ pc[o] # "idle" => req[o] \in Requests
        /\ pc[o] # "done" => outcome[o].kind = "none"
        /\ pc[o] \in {"build", "observe", "plan"} \cup Planned =>
               (req[o].op = "delete" => ~req[o].protect)
        /\ pc[o] = "observe" => req[o].op # "build"
        /\ pc[o] \in {"plan"} \cup Planned => req[o].op \in {"create", "delete"}
        /\ pc[o] \in Planned => plan[o] \in Plans /\ ValidPlan(o, plan[o].action)
<1>1. \A o \in Runs : P(o)
  BY DEF InCourse
<1>2. ASSUME NEW o \in Runs \ {r} PROVE P(o)'
  BY <1>1, OthersUntouched DEF ValidPlan
<1>3. P(r)'
  <2>1. CASE Start(r)
    BY <2>1, <1>1 DEF Start, Goto, TypeOK, Planned, Applying
  <2>2. CASE Plan(r)
    <3>1. plan'[r] \in Plans /\ ValidPlan(r, plan'[r].action)
      BY <2>2 DEF Plan, PlannedActions, TypeOK, Plans, States
    <3> QED
      BY <2>2, <3>1, <1>1 DEF Plan, Goto, TypeOK, ValidPlan
  <2>3. CASE pc'[r] = "done"
    <3>1. req' = req
      BY <2>3
      DEF TypeOK, Step, Start, Validate, DeleteProtected, Build, BuildRefused, BuildDies, Observe,
          ObserveRefused, Plan, PlanRefused, Apply, ApplyRefused, ApplyToProvider, ApplyPersist,
          ApplyBreaks, Pull, Refresh, Breaks, Fail, Goto
    <3>2. pc[r] # "idle"
      BY <2>3
      DEF TypeOK, Step, Start, Validate, DeleteProtected, Build, BuildRefused, BuildDies, Observe,
          ObserveRefused, Plan, PlanRefused, Apply, ApplyRefused, ApplyToProvider, ApplyPersist,
          ApplyBreaks, Pull, Refresh, Breaks, Fail, Goto
    <3> QED
      BY <2>3, <3>1, <3>2, <1>1 DEF Planned, Applying
  <2>4. CASE Observe(r) /\ pc'[r] # "done"
    <3>1. req[r].op \in Operations
      BY <2>4, <1>1 DEF Observe, Requests
    <3> QED
      BY <2>4, <3>1, <1>1 DEF Observe, Finish, Goto, TypeOK, Planned, Applying, Operations
  <2>5. CASE Validate(r) \/ Build(r) \/ Apply(r) \/ ApplyToProvider(r) \/ ApplyPersist(r)
    BY <2>3, <2>5, <1>1
    DEF Validate, Build, Apply, ApplyToProvider, ApplyPersist, Finish, Goto, TypeOK, ValidPlan,
        Planned, Applying
  <2> QED
    BY <2>1, <2>2, <2>3, <2>4, <2>5
    DEF Step, TypeOK, Fail, Finish, Goto, DeleteProtected, BuildRefused, BuildDies, ObserveRefused,
        PlanRefused, ApplyRefused, ApplyBreaks, Pull, Refresh, Breaks
<1> QED
  BY <1>2, <1>3 DEF InCourse

-----------------------------------------------------------------------------
(* What an apply does to the state and to the cloud.                        *)

LEMMA AfterApply ==
  ASSUME TypeOK, InCourse, NEW r \in Runs, pc[r] \in Applying,
         NEW st \in StatesBroken(r) \cup {StateAfter(r)}, st # state
  PROVE  /\ st.serial = state.serial + 1
         /\ st.owner \in {None, state.owner, req[r].unit}
         /\ \/ st.machine = state.machine
            \/ st.machine = r /\ plan[r].action = "create"
            \/ st.machine = None /\ req[r].op = "delete"
         /\ plan[r].action = "create" /\ pc[r] = "persist" => st.machine = r
         /\ pc[r] = "applying" /\ st \in StatesBroken(r) => st.machine = state.machine
<1>1. state \in States /\ state.serial \in Nat
  BY DEF TypeOK, States
<1>2. /\ StateAfter(r).serial = state.serial + 1
      /\ StateAfter(r).owner \in {None, req[r].unit}
      /\ \/ StateAfter(r).machine = state.machine
         \/ StateAfter(r).machine = r /\ plan[r].action = "create"
         \/ StateAfter(r).machine = None /\ req[r].op = "delete"
      /\ plan[r].action = "create" => StateAfter(r).machine = r
  BY DEF StateAfter, InCourse, ValidPlan, Planned
<1>3. CASE st = StateAfter(r) /\ ~(pc[r] = "applying" /\ st \in StatesBroken(r))
  BY <1>2, <1>3
<1>4. CASE st = [StateAfter(r) EXCEPT !.owner = state.owner] /\ pc[r] = "persist"
  BY <1>2, <1>4 DEF StateAfter
<1>5. CASE /\ st = [state EXCEPT !.present = TRUE, !.serial = @ + 1, !.owner = req[r].unit]
           /\ pc[r] = "applying"
  BY <1>1, <1>5 DEF States
<1> QED
  BY <1>3, <1>4, <1>5 DEF StatesBroken, Applying

LEMMA StateEffect ==
  ASSUME TypeOK, InCourse, PlanFits, NEW r \in Runs, Step(r), state' # state
  PROVE  /\ pc[r] \in Applying /\ pc'[r] \in {"pull", "done"} /\ cloud' = cloud
         /\ pc'[r] = "pull" /\ plan[r].action = "create" => state'.machine = r
         /\ state'.serial = state.serial + 1
         /\ state'.owner \in {None, state.owner, req[r].unit}
         /\ \/ state'.machine = state.machine
            \/ state'.machine = r
            \/ state'.machine = None
         /\ state'.machine # state.machine => state.machine \notin cloud
<1>1. pc[r] \in Applying /\ (ApplyPersist(r) \/ ApplyBreaks(r))
  BY ApplyingWrites DEF ApplyToProvider
<1>2. state' \in StatesBroken(r) \cup {StateAfter(r)}
  BY <1>1 DEF ApplyPersist, ApplyBreaks
<1>3. /\ state'.serial = state.serial + 1
      /\ state'.owner \in {None, state.owner, req[r].unit}
      /\ \/ state'.machine = state.machine
         \/ state'.machine = r /\ plan[r].action = "create"
         \/ state'.machine = None /\ req[r].op = "delete"
      /\ plan[r].action = "create" /\ pc[r] = "persist" => state'.machine = r
      /\ pc[r] = "applying" /\ state' \in StatesBroken(r) => state'.machine = state.machine
  BY <1>1, <1>2, AfterApply
<1>4. pc'[r] \in {"pull", "done"} /\ cloud' = cloud
  BY <1>1 DEF ApplyPersist, ApplyBreaks, Finish, Goto, TypeOK
<1>5. state'.machine # state.machine => pc[r] = "persist"
  BY <1>1, <1>3 DEF ApplyPersist, ApplyBreaks
<1>6. state'.machine # state.machine => state.machine \notin cloud
  BY <1>3, <1>5 DEF PlanFits, Vacates
<1>7. pc'[r] = "pull" => pc[r] = "persist"
  BY <1>1 DEF ApplyPersist, ApplyBreaks, Finish, Goto, TypeOK
<1> QED
  BY <1>1, <1>3, <1>4, <1>6, <1>7

(* A machine is destroyed by a delete without protection alone.             *)
LEMMA CloudEffect ==
  ASSUME TypeOK, InCourse, NEW r \in Runs, Step(r), cloud' # cloud
  PROVE  /\ pc[r] = "applying" /\ pc'[r] = "persist" /\ state' = state
         /\ \/ cloud' = cloud \cup {r} /\ plan[r].action = "create"
            \/ /\ cloud' = cloud \ {state.machine} /\ plan[r].action = "delete"
               /\ req[r].op = "delete" /\ ~req[r].protect
<1>1. ApplyToProvider(r)
  BY ApplyingWrites DEF ApplyPersist, ApplyBreaks
<1>2. plan[r].action \in {"no-op", "create", "update"} \/ req[r].op = "delete"
  BY <1>1 DEF ApplyToProvider, InCourse, ValidPlan, Planned, Applying
<1>3. req[r].op = "delete" => ~req[r].protect /\ plan[r].action \in {"no-op", "delete"}
  BY <1>1 DEF ApplyToProvider, InCourse, ValidPlan, Planned, Applying
<1> QED
  BY <1>1, <1>2, <1>3 DEF ApplyToProvider, CloudAfter, Goto, TypeOK

(* Only the run that is being applied can enter the cloud, and what is      *)
(* recorded or was read is not that run.                                    *)
LEMMA KnownMachines ==
  ASSUME TypeOK, InCourse, MadeByRun, NEW r \in Runs, Step(r)
  PROVE  /\ \A m \in cloud' : m \in cloud \/ m = r
         /\ state.machine \in cloud' => state.machine \in cloud
         /\ \A q \in Runs : seen[q].machine \in cloud' => seen[q].machine \in cloud
<1>1. CASE cloud' = cloud
  BY <1>1
<1>2. CASE cloud' # cloud
  <2>1. pc[r] = "applying" /\ cloud' \subseteq cloud \cup {r}
    BY <1>2, CloudEffect
  <2>2. r # state.machine /\ \A q \in Runs : r # seen[q].machine
    BY <2>1 DEF MadeByRun
  <2> QED
    BY <2>1, <2>2
<1> QED
  BY <1>1, <1>2

-----------------------------------------------------------------------------
LEMMA PlanFitsStep ==
  ASSUME Inv, NEW r \in Runs, Step(r)
  PROVE  PlanFits'
<1> DEFINE P(o) ==
        /\ pc[o] \in Planned => plan[o].serial <= state.serial
        /\ pc[o] \in Applying => plan[o].serial = state.serial
        /\ pc[o] \in Planned /\ plan[o].serial = state.serial =>
               (Vacates(o) /\ plan[o].action # "delete" => state.machine \notin cloud)
        /\ pc[o] = "persist" /\ Vacates(o) => state.machine \notin cloud
<1>a. /\ TypeOK /\ LockHeld /\ InCourse /\ PlanFits /\ MadeByRun
      /\ \A o \in Runs : P(o)
  BY DEF Inv, PlanFits
<1>b. state.serial \in Nat /\ \A o \in Runs : pc[o] \in Planned => plan[o].serial \in Nat
  BY <1>a DEF TypeOK, States, InCourse, Plans
<1>1. ASSUME NEW o \in Runs \ {r} PROVE P(o)'
  <2>1. /\ pc'[o] = pc[o] /\ plan'[o] = plan[o] /\ Vacates(o)' = Vacates(o)
        /\ pc[o] \in Applying => pc[o] \in Planned
        /\ pc[o] = "persist" => pc[o] \in Applying
    BY <1>a, OthersUntouched DEF Vacates, Planned, Applying
  <2>2. CASE state' = state
    <3>1. state.machine \in cloud' => state.machine \in cloud
      BY <1>a, KnownMachines
    <3> QED
      BY <1>a, <2>1, <2>2, <3>1
  <2>3. CASE state' # state
    <3>1. pc[r] \in Applying /\ state'.serial = state.serial + 1
      BY <1>a, <2>3, StateEffect
    <3>2. pc[o] \notin Applying
      BY <1>a, <3>1, OneApplies
    <3> QED
      BY <1>a, <1>b, <2>1, <3>1, <3>2
  <2> QED
    BY <2>2, <2>3
<1>2. P(r)'
  <2>1. CASE Plan(r)
    <3>1. plan'[r].serial = state.serial /\ plan'[r].action \in PlannedActions(r)
      BY <1>a, <2>1 DEF Plan, TypeOK
    <3>2. Vacates(r)' /\ plan'[r].action # "delete" => state.machine \notin cloud
      BY <2>1, <3>1 DEF Plan, Vacates, PlannedActions
    <3> QED
      BY <1>a, <1>b, <2>1, <3>1, <3>2 DEF Plan, Goto, TypeOK, Applying
  <2>2. CASE Apply(r)
    BY <1>a, <1>b, <2>2 DEF Apply, Appliable, Goto, TypeOK, Planned, Applying, Vacates
  <2>3. CASE ApplyToProvider(r)
    <3>1. /\ state' = state /\ plan' = plan /\ Vacates(r)' = Vacates(r)
          /\ plan[r].serial = state.serial
      BY <1>a, <2>3 DEF ApplyToProvider, Vacates, Applying
    <3>2. Vacates(r) => state.machine \notin cloud'
      <4>1. CASE plan[r].action = "delete"
        BY <4>1, <2>3 DEF ApplyToProvider, CloudAfter
      <4>2. CASE plan[r].action # "delete"
        <5>1. Vacates(r) => state.machine \notin cloud
          BY <1>a, <2>3, <4>2, <3>1 DEF ApplyToProvider, Planned, Applying
        <5> QED
          BY <1>a, <5>1, KnownMachines
      <4> QED
        BY <4>1, <4>2
    <3> QED
      BY <1>b, <2>3, <3>1, <3>2, <1>a DEF ApplyToProvider, Planned, Applying
  <2>4. CASE ~(Plan(r) \/ Apply(r) \/ ApplyToProvider(r))
    <3>1. pc'[r] \notin Planned
      BY <1>a, <2>4
      DEF TypeOK, Planned, Applying, Step, Start, Validate, DeleteProtected, Build, BuildRefused,
          BuildDies, Observe, ObserveRefused, PlanRefused, ApplyRefused,
          ApplyPersist, ApplyBreaks, Pull, Refresh, Breaks, Fail, Finish, Goto
    <3> QED
      BY <3>1 DEF Planned, Applying
  <2> QED
    BY <2>1, <2>2, <2>3, <2>4
<1> QED
  BY <1>1, <1>2 DEF PlanFits

LEMMA MadeByRunStep ==
  ASSUME Inv, NEW r \in Runs, Step(r)
  PROVE  MadeByRun'
<1>a. TypeOK /\ InCourse /\ PlanFits /\ MadeByRun
  BY DEF Inv
<1>b. pc[r] \in {"pull", "done"} => pc'[r] \in {"pull", "done"}
  BY <1>a
  DEF TypeOK, Step, Start, Validate, DeleteProtected, Build, BuildRefused, BuildDies, Observe,
      ObserveRefused, Plan, PlanRefused, Apply, ApplyRefused, ApplyToProvider, ApplyPersist,
      ApplyBreaks, Pull, Refresh, Breaks, Fail, Finish, Goto
<1>c. pc[r] = "persist" => pc'[r] \in {"pull", "done"}
  BY <1>a
  DEF TypeOK, Step, Start, Validate, DeleteProtected, Build, BuildRefused, BuildDies, Observe,
      ObserveRefused, Plan, PlanRefused, Apply, ApplyRefused, ApplyToProvider, ApplyPersist,
      ApplyBreaks, Pull, Refresh, Breaks, Fail, Finish, Goto
<1>1. ASSUME NEW m \in cloud'
      PROVE  /\ pc'[m] \in {"persist", "pull", "done"}
             /\ pc'[m] = "persist" => plan'[m].action = "create"
  <2>1. CASE m \in cloud /\ m # r
    BY <1>a, <2>1, OthersUntouched DEF MadeByRun, TypeOK
  <2>2. CASE m \in cloud /\ m = r
    BY <1>a, <1>b, <1>c, <2>2 DEF MadeByRun
  <2>3. CASE m \notin cloud
    <3>1. m = r
      BY <1>a, <1>1, <2>3, KnownMachines
    <3>2. cloud' = cloud \cup {r} /\ pc'[r] = "persist" /\ pc[r] = "applying"
          /\ plan[r].action = "create"
      BY <1>a, <1>1, <2>3, CloudEffect
    <3>3. plan' = plan
      BY <1>1, <2>3, ApplyingWrites DEF ApplyToProvider, ApplyPersist, ApplyBreaks
    <3> QED
      BY <3>1, <3>2, <3>3
  <2> QED
    BY <2>1, <2>2, <2>3
<1>2. ASSUME NEW m \in Runs, pc[m] \in {"pull", "done"} PROVE pc'[m] \in {"pull", "done"}
  BY <1>a, <1>b, <1>2, OthersUntouched
<1>3. ASSUME NEW m \in Runs, m = state'.machine PROVE pc'[m] \in {"pull", "done"}
  <2>1. CASE m = state.machine
    BY <1>2, <2>1, <1>a DEF MadeByRun
  <2>2. CASE m # state.machine
    BY <1>a, <1>3, <2>2, StateEffect, NoneAssumption
  <2> QED
    BY <2>1, <2>2
<1>4. ASSUME NEW m \in Runs, NEW q \in Runs, m = seen'[q].machine PROVE pc'[m] \in {"pull", "done"}
  <2>1. m = seen[q].machine \/ m = state.machine
    <3>1. CASE q # r
      BY <1>a, <1>4, <3>1, OthersUntouched
    <3>2. CASE q = r
      BY <1>a, <1>4, <3>2
      DEF TypeOK, Step, Start, Validate, DeleteProtected, Build, BuildRefused, BuildDies, Observe,
          ObserveRefused, Plan, PlanRefused, Apply, ApplyRefused, ApplyToProvider, ApplyPersist,
          ApplyBreaks, Pull, Refresh, Breaks, Fail
    <3> QED
      BY <3>1, <3>2
  <2> QED
    BY <1>2, <2>1, <1>a DEF MadeByRun
<1> QED
  BY <1>1, <1>3, <1>4 DEF MadeByRun

(* What a run can have answered with, step by step.                         *)
LEMMA ReadyStep ==
  ASSUME TypeOK, InCourse, NEW r \in Runs, Step(r)
  PROVE  /\ outcome'[r].kind = "ready" => pc[r] \in {"pull", "refresh"} /\ UNCHANGED state
         /\ outcome'[r].kind = "ready" /\ pc[r] = "pull" => state.machine # None
         /\ pc'[r] = "pull" => Observe(r) \/ ApplyPersist(r)
         /\ pc[r] \notin {"done"}
<1>1. pc[r] # "done" /\ outcome[r].kind = "none"
  BY DEF InCourse, Step, Start, Validate, DeleteProtected, Build, BuildRefused, BuildDies, Observe,
         ObserveRefused, Plan, PlanRefused, Apply, ApplyRefused, ApplyToProvider, ApplyPersist,
         ApplyBreaks, Pull, Refresh, Breaks, Fail
<1> QED
  BY <1>1
  DEF TypeOK, Step, Start, Validate, DeleteProtected, Build, BuildRefused, BuildDies, Observe,
          ObserveRefused, Plan, PlanRefused, Apply, ApplyRefused, ApplyToProvider, ApplyPersist,
          ApplyBreaks, Pull, Refresh, Breaks, Fail, Finish, Goto, Answer

LEMMA KeepsTrackStep ==
  ASSUME Inv, NEW r \in Runs, Step(r)
  PROVE  KeepsTrack'
<1>a. TypeOK /\ InCourse /\ PlanFits /\ MadeByRun /\ KeepsTrack
  BY DEF Inv
<1>b. state'.machine # state.machine => cloud' = cloud /\ state.machine \notin cloud
  BY <1>a, StateEffect
<1>1. ASSUME NEW m \in cloud', pc'[m] = "pull" \/ outcome'[m].kind = "ready"
      PROVE  state'.machine = m
  <2>1. CASE m # r
    <3>1. m \in cloud /\ (pc[m] = "pull" \/ outcome[m].kind = "ready")
      BY <1>1, <1>a, <2>1, KnownMachines, OthersUntouched DEF TypeOK
    <3> QED
      BY <1>a, <1>b, <3>1 DEF KeepsTrack
  <2>2. CASE m = r /\ outcome'[m].kind = "ready"
    <3>1. pc[r] \in {"pull", "refresh"} /\ UNCHANGED state
      BY <1>a, <2>2, ReadyStep
    <3>2. cloud' = cloud
      BY <1>a, <3>1, CloudEffect
    <3> QED
      BY <1>1, <1>a, <2>2, <3>1, <3>2 DEF MadeByRun, KeepsTrack
  <2>3. CASE m = r /\ pc'[m] = "pull"
    <3>1. CASE Observe(r)
      BY <1>1, <1>a, <2>3, <3>1 DEF Observe, MadeByRun
    <3>2. CASE ApplyPersist(r)
      <4>1. pc[r] = "persist" /\ plan[r].action = "create"
        BY <1>1, <1>a, <2>3, <3>2 DEF ApplyPersist, MadeByRun
      <4>2. StateAfter(r).machine = r
        BY <1>a, <4>1 DEF StateAfter, InCourse, ValidPlan, Planned, Applying
      <4> QED
        BY <2>3, <3>2, <4>2 DEF ApplyPersist
    <3> QED
      BY <1>a, <2>3, <3>1, <3>2, ReadyStep
  <2> QED
    BY <1>1, <2>1, <2>2, <2>3
<1>2. ASSUME NEW q \in Runs, seen'[q].machine \in cloud' PROVE state'.machine = seen'[q].machine
  <2>1. CASE seen'[q] = seen[q]
    BY <1>2, <1>a, <1>b, <2>1, KnownMachines DEF KeepsTrack
  <2>2. CASE Observe(r)
    BY <1>2, <1>a, <2>1, <2>2 DEF Observe, TypeOK
  <2> QED
    BY <1>a, <2>1, <2>2, OthersUntouched
    DEF TypeOK, Step, Start, Validate, DeleteProtected, Build, BuildRefused, BuildDies, Observe,
          ObserveRefused, Plan, PlanRefused, Apply, ApplyRefused, ApplyToProvider, ApplyPersist,
          ApplyBreaks, Pull, Refresh, Breaks, Fail, Finish, Goto
<1> QED
  BY <1>1, <1>2 DEF KeepsTrack

LEMMA ReportedStep ==
  ASSUME TypeOK, Reported, NEW r \in Runs, Step(r)
  PROVE  Reported'
<1>1. ASSUME NEW o \in Runs \ {r}, o \in touched' \/ pc'[o] \in Applying
      PROVE  changes'[o] = "possible"
  BY <1>1, OthersUntouched DEF Reported
<1>2. ASSUME r \in touched' \/ pc'[r] \in Applying PROVE changes'[r] = "possible"
  BY <1>2
  DEF Reported, Applying, TypeOK, Step, Start, Validate, DeleteProtected, Build, BuildRefused, BuildDies, Observe,
          ObserveRefused, Plan, PlanRefused, Apply, ApplyRefused, ApplyToProvider, ApplyPersist,
          ApplyBreaks, Pull, Refresh, Breaks, Fail, Finish, Goto
<1> QED
  BY <1>1, <1>2 DEF Reported

LEMMA DestroyedStep ==
  ASSUME Inv, NEW r \in Runs, Step(r)
  PROVE  DestroyedIsGone'
<1>a. TypeOK /\ InCourse /\ MadeByRun /\ KeepsTrack /\ DestroyedIsGone
  BY DEF Inv
<1> SUFFICES ASSUME NEW o \in Runs, outcome'[o].kind = "destroyed"
             PROVE  seen'[o].machine \notin cloud'
  BY DEF DestroyedIsGone
<1>1. CASE o # r
  BY <1>a, <1>1, OthersUntouched, KnownMachines DEF DestroyedIsGone
<1>2. CASE o = r /\ Observe(r)
  <2>1. IsEmpty(state) /\ seen'[r] = state
    BY <1>a, <1>2 DEF Observe, TypeOK, InCourse, Finish, Answer
  <2>2. None \notin cloud
    BY <1>a, NoneAssumption DEF TypeOK
  <2> QED
    BY <1>2, <2>1, <2>2 DEF Observe, IsEmpty
<1>3. CASE o = r /\ Pull(r)
  <2>1. IsEmpty(state)
    BY <1>a, <1>3 DEF Pull, TypeOK, InCourse, Finish, Answer
  <2>2. None \notin cloud
    BY <1>a, NoneAssumption DEF TypeOK
  <2>3. seen[r].machine \notin cloud
    BY <1>a, <2>1, <2>2 DEF KeepsTrack, IsEmpty
  <2> QED
    BY <1>3, <2>3 DEF Pull
<1>4. CASE o = r /\ ~Observe(r) /\ ~Pull(r)
  <2>1. outcome[r].kind = "none"
    BY <1>a, <1>4
    DEF InCourse, Step, Start, Validate, DeleteProtected, Build, BuildRefused, BuildDies,
        ObserveRefused, Plan, PlanRefused, Apply, ApplyRefused, ApplyToProvider, ApplyPersist,
        ApplyBreaks, Refresh, Breaks, Fail
  <2> QED
    BY <1>a, <1>4, <2>1
    DEF TypeOK, Step, Start, Validate, DeleteProtected, Build, BuildRefused, BuildDies,
        ObserveRefused, Plan, PlanRefused, Apply, ApplyRefused, ApplyToProvider, ApplyPersist,
        ApplyBreaks, Refresh, Breaks, Fail, Finish, Goto, Answer
<1> QED
  BY <1>1, <1>2, <1>3, <1>4

(* Among runs that follow one another.                                      *)
LEMMA SerialStep ==
  ASSUME Inv, NEW r \in Runs, Step(r)
  PROVE  SerialDecision'
<1>a. TypeOK /\ InCourse /\ PlanFits /\ MadeByRun /\ SerialDecision
  BY DEF Inv
<1> SUFFICES ASSUME ~overlapped' PROVE SerialDecision'
  BY DEF SerialDecision
<1>1. CASE Start(r)
  <2>1. ~overlapped /\ \A q \in Runs : ~InProgress(q)
    BY <1>1 DEF Start
  <2>2. \A q \in Runs : InProgress(q)' => q = r
    BY <1>a, <1>1, <2>1, OthersUntouched DEF InProgress
  <2>3. /\ pc'[r] = "validate" /\ state' = state
        /\ state.machine # None => state.machine \in Runs \ {r}
    BY <1>a, <1>1 DEF Start, Goto, TypeOK, MadeByRun, States
  <2>4. \A q \in Runs : pc'[q] \in {"plan"} \cup Planned => InProgress(q)'
    BY DEF InProgress, Planned, Applying
  <2>5. state'.machine # None => state'.owner \in {None, req'[state'.machine].unit}
    BY <1>a, <2>1, <2>3, OthersUntouched DEF SerialDecision
  <2> QED
    BY <2>2, <2>3, <2>4, <2>5 DEF SerialDecision, Planned, Applying
<1>2. CASE ~Start(r)
  <2>1. /\ ~overlapped /\ req' = req /\ InProgress(r)
        /\ pc[r] # "idle"
    BY <1>a, <1>2
    DEF InProgress, Step, Start, Validate, DeleteProtected, Build, BuildRefused, BuildDies, Observe,
        ObserveRefused, Plan, PlanRefused, Apply, ApplyRefused, ApplyToProvider, ApplyPersist,
        ApplyBreaks, Pull, Refresh, Breaks, Fail
  <2>2. \A q \in Runs : InProgress(q)' => q = r
    BY <1>a, <2>1, OthersUntouched DEF InProgress, SerialDecision
  <2>3. req[r].unit \in Units /\ req[r].unit # None
    BY <1>a, <2>1, NoneAssumption DEF InCourse, Requests
  <2>4. ASSUME pc'[r] \in {"plan"} \cup Planned
        PROVE  /\ state' = state
               /\ state.machine # None => state.owner = req[r].unit
               /\ state.owner \in {None, req[r].unit}
    <3>1. state' = state
      BY <1>a, <2>4, StateEffect DEF Planned, Applying
    <3>2. CASE Observe(r)
      BY <1>a, <3>1, <3>2 DEF Observe, Accepts, IsEmpty, IdentityOnlyRetry
    <3>3. CASE ~Observe(r)
      <4>1. pc[r] \in {"plan"} \cup Planned
        BY <1>a, <1>2, <2>4, <3>3
        DEF TypeOK, Planned, Applying, Step, Validate, DeleteProtected, Build, BuildRefused,
            BuildDies, ObserveRefused, Plan, PlanRefused, Apply, ApplyRefused, ApplyToProvider,
            ApplyPersist, ApplyBreaks, Pull, Refresh, Breaks, Fail, Finish, Goto
      <4> QED
        BY <1>a, <2>1, <3>1, <4>1 DEF SerialDecision
    <3> QED
      BY <3>1, <3>2, <3>3
  <2>5. state'.machine # None => state'.owner \in {None, req[state'.machine].unit}
    <3>1. CASE state' = state
      BY <1>a, <2>1, <3>1 DEF SerialDecision
    <3>2. CASE state' # state
      <4>1. /\ pc[r] \in Applying
            /\ state'.owner \in {None, state.owner, req[r].unit}
            /\ state'.machine \in {state.machine, r, None}
        BY <1>a, <3>2, StateEffect
      <4>2. /\ state.machine # None => state.owner = req[r].unit
            /\ state.owner \in {None, req[r].unit}
            /\ state.machine # None => state.owner \in {None, req[state.machine].unit}
        BY <1>a, <2>1, <4>1 DEF SerialDecision, Planned
      <4> QED
        BY <2>3, <4>1, <4>2
    <3> QED
      BY <3>1, <3>2
  <2>6. \A q \in Runs : pc'[q] \in {"plan"} \cup Planned => q = r
    BY <2>2 DEF InProgress, Planned, Applying
  <2> QED
    BY <2>1, <2>2, <2>4, <2>5, <2>6 DEF SerialDecision
<1> QED
  BY <1>1, <1>2

-----------------------------------------------------------------------------
LEMMA InvInit == Init => Inv
<1> SUFFICES ASSUME Init PROVE Inv
  OBVIOUS
<1>1. NoState \in States /\ NoState.machine = None
  BY DEF NoState, States
<1>2. Answer("none", None) \in [kind : Kinds, machine : Runs \cup {None}]
  BY DEF Answer, Kinds
<1>3. TypeOK
  BY <1>1, <1>2 DEF Init, TypeOK, Locations
<1>4. LockHeld /\ InCourse /\ PlanFits /\ Reported
  BY DEF Init, LockHeld, InCourse, PlanFits, Reported, Applying, Planned, Answer
<1>5. MadeByRun /\ KeepsTrack
  BY <1>1, NoneAssumption DEF Init, MadeByRun, KeepsTrack
<1>6. SerialDecision /\ DestroyedIsGone
  BY <1>1 DEF Init, SerialDecision, DestroyedIsGone, InProgress, Answer, Applying, Planned
<1> QED
  BY <1>3, <1>4, <1>5, <1>6 DEF Inv

LEMMA InvStep == Inv /\ [Next]_vars => Inv'
<1> SUFFICES ASSUME Inv, [Next]_vars PROVE Inv'
  OBVIOUS
<1>1. CASE UNCHANGED vars
  BY <1>1
  DEF Inv, vars, TypeOK, LockHeld, InCourse, PlanFits, MadeByRun, KeepsTrack, Reported,
      SerialDecision, DestroyedIsGone, ValidPlan, Vacates, InProgress
<1>2. ASSUME NEW r \in Runs, Step(r) PROVE Inv'
  BY <1>2, TypeStep, LockStep, InCourseStep, PlanFitsStep, MadeByRunStep, KeepsTrackStep,
     ReportedStep, SerialStep, DestroyedStep
  DEF Inv
<1> QED
  BY <1>1, <1>2, NextIsStep

(* The invariant is inductive, and so holds in every reachable state.       *)
THEOREM Invariance == Spec => []Inv
  BY InvInit, InvStep, PTL DEF Spec

(* The types of the module's variables hold in every behaviour.             *)
THEOREM TypeCorrect == Spec => []TypeOK
  BY Invariance, PTL DEF Inv

(* Who answers that nothing was changed changed neither the state nor a     *)
(* machine, however applies broke off.                                      *)
THEOREM NoneIsTrue == Spec => []NoneMeansUntouched
<1>1. Inv => NoneMeansUntouched
  BY DEF Inv, TypeOK, Reported, NoneMeansUntouched
<1> QED
  BY <1>1, Invariance, PTL

(* A caller told "ready" keeps its machine recorded for as long as it lives.*)
THEOREM ReadyIsTracked == Spec => []NoReadyOrphan
<1>1. Inv => NoReadyOrphan
  BY DEF Inv, KeepsTrack, NoReadyOrphan
<1> QED
  BY <1>1, Invariance, PTL

(* A delete that reports "destroyed" left nothing of what it had found.     *)
THEOREM DestroyedIsTrue == Spec => []DestroyedIsGone
  BY Invariance, PTL DEF Inv

(* Among runs that follow one another no apply starts on a machine that was *)
(* made for another unit.                                                   *)
THEOREM SerialRunsKeepUnits == Spec => []SerialMachineKeepsUnit
<1>1. Inv => SerialMachineKeepsUnit
  <2> SUFFICES ASSUME Inv, ~overlapped, NEW r \in Runs, pc[r] = "applying", state.machine \in cloud
               PROVE  req[state.machine].unit = req[r].unit
    BY DEF SerialMachineKeepsUnit, ForeignMachineUntouched
  <2>1. state.machine # None
    BY NoneAssumption DEF Inv, TypeOK
  <2>2. state.owner = req[r].unit /\ state.owner \in {None, req[state.machine].unit}
    BY <2>1 DEF Inv, SerialDecision, Planned, Applying
  <2>3. req[r].unit # None
    BY NoneAssumption DEF Inv, InCourse, Requests
  <2> QED
    BY <2>2, <2>3
<1> QED
  BY <1>1, Invariance, PTL

(* A machine is destroyed only by a delete whose caller lifted the          *)
(* protection, whatever other runs do between its read and its plan.        *)
THEOREM DestructionIsConsented == Spec => DestroyNeedsConsent
<1> DEFINE Consented == \A m \in cloud \ cloud' : \E r \in Runs :
                            pc[r] = "applying" /\ req[r].op = "delete" /\ ~req[r].protect
<1>1. Inv /\ [Next]_vars => [Consented]_vars
  <2> SUFFICES ASSUME Inv, NEW r \in Runs, Step(r) PROVE Consented
    BY NextIsStep DEF vars
  <2>1. CASE cloud' = cloud
    BY <2>1
  <2>2. CASE cloud' # cloud
    BY <2>2, CloudEffect DEF Inv
  <2> QED
    BY <2>1, <2>2
<1> QED
  BY <1>1, Invariance, PTL DEF Spec, DestroyNeedsConsent

=============================================================================
