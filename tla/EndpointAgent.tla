---------------------------- MODULE EndpointAgent ----------------------------
(***************************************************************************)
(* The endpoint agent: operate() moves one reserved address to a node and  *)
(* confirms it.  The provider accepts an action and carries it out later,  *)
(* or never, so what an agent was told and what holds are two things.  An  *)
(* agent is one invocation of the artifact; electing a primary and keeping *)
(* agents apart is the caller's business.                                  *)
(***************************************************************************)

CONSTANTS Agents, Nodes, None

ASSUME NoneAssumption == None \notin Nodes

VARIABLES
    assignee,    \* the node the address is assigned to, or None
    actions,     \* accepted, unfinished actions: [by, type, node]
    pc,
    target,      \* agent -> --node-id (None for --action status)
    last,        \* the agent that last started to assign
    outcome,     \* agent -> [status, node]
    unsettled,   \* history: the agents that started while an action was left
    faulty       \* history: whether a request, an action or a wait failed

endpointVars ==
    <<assignee, actions, pc, target, last, outcome, unsettled, faulty>>

Actions == [by : Agents, type : {"assign", "unassign"}, node : Nodes \cup {None}]

EndpointLocations ==
    {"idle", "read", "unassign", "confirm-free", "assign", "confirm", "done"}

Outcomes == [status : {"none", "present", "assigned", "error"}, node : Nodes \cup {None}]

EndpointInit ==
    /\ assignee \in Nodes \cup {None}
    /\ actions = {}
    /\ pc = [a \in Agents |-> "idle"]
    /\ target = [a \in Agents |-> None]
    /\ last = None
    /\ outcome = [a \in Agents |-> [status |-> "none", node |-> None]]
    /\ unsettled = {}
    /\ faulty = FALSE

Goto(a, label) == pc' = [pc EXCEPT ![a] = label]

Finish(a, status, node) ==
    /\ Goto(a, "done")
    /\ outcome' = [outcome EXCEPT ![a] = [status |-> status, node |-> node]]

(* Anyone may ask for the status; the caller assigns one at a time.         *)
StartStatus(a) ==
    /\ pc[a] = "idle"
    /\ Goto(a, "read")
    /\ UNCHANGED <<assignee, actions, target, last, outcome, unsettled, faulty>>

Start(a) ==
    /\ pc[a] = "idle"
    /\ \A b \in Agents : target[b] # None => pc[b] = "done"
    /\ \E n \in Nodes : target' = [target EXCEPT ![a] = n]
    /\ last' = a
    /\ unsettled' = IF actions = {} THEN unsettled ELSE unsettled \cup {a}
    /\ Goto(a, "read")
    /\ UNCHANGED <<assignee, actions, outcome, faulty>>

-----------------------------------------------------------------------------
(* One agent.                                                               *)

SkipUnassign(a) ==    \* mutant: a held address is assigned right away
    /\ pc[a] = "read"
    /\ \/ target[a] = None /\ Finish(a, "present", assignee)
       \/ target[a] # None /\ target[a] = assignee /\ Finish(a, "assigned", assignee)
       \/ target[a] \notin {None, assignee} /\ Goto(a, "assign") /\ UNCHANGED outcome
    /\ UNCHANGED <<assignee, actions, target, last, unsettled, faulty>>

Read(a) ==
    /\ pc[a] = "read"
    /\ \/ target[a] = None /\ Finish(a, "present", assignee)
       \/ target[a] # None /\ target[a] = assignee /\ Finish(a, "assigned", assignee)
       \/ /\ target[a] \notin {None, assignee}
          /\ Goto(a, IF assignee = None THEN "assign" ELSE "unassign")
          /\ UNCHANGED outcome
    /\ UNCHANGED <<assignee, actions, target, last, unsettled, faulty>>

Post(a, type, node, next) ==
    /\ actions' = actions \cup {[by |-> a, type |-> type, node |-> node]}
    /\ Goto(a, next)
    /\ UNCHANGED <<assignee, target, last, outcome, unsettled, faulty>>

UnconfirmedUnassign(a) ==    \* mutant: confirmed(None) is left out
    pc[a] = "unassign" /\ Post(a, "unassign", None, "assign")

Unassign(a) == pc[a] = "unassign" /\ Post(a, "unassign", None, "confirm-free")

Assign(a) == pc[a] = "assign" /\ Post(a, "assign", target[a], "confirm")

(* A poll that sees another holder sleeps and polls again: no step.         *)
ConfirmFree(a) ==
    /\ pc[a] = "confirm-free"
    /\ assignee = None
    /\ Goto(a, "assign")
    /\ UNCHANGED <<assignee, actions, target, last, outcome, unsettled, faulty>>

Confirm(a) ==
    /\ pc[a] = "confirm"
    /\ assignee = target[a]
    /\ Finish(a, "assigned", assignee)
    /\ UNCHANGED <<assignee, actions, target, last, unsettled, faulty>>

(* A refused action, an unreadable answer, 60 polls or 120 seconds.         *)
GiveUp(a) ==
    /\ pc[a] \notin {"idle", "done"}
    /\ Finish(a, "error", None)
    /\ faulty' = TRUE
    /\ UNCHANGED <<assignee, actions, target, last, unsettled>>

(* A request that timed out although the provider accepted it.              *)
GiveUpAccepted(a) ==
    /\ pc[a] \in {"unassign", "assign"}
    /\ actions' = actions \cup {[by |-> a, type |-> pc[a],
                                 node |-> IF pc[a] = "assign" THEN target[a] ELSE None]}
    /\ Finish(a, "error", None)
    /\ faulty' = TRUE
    /\ UNCHANGED <<assignee, target, last, unsettled>>

-----------------------------------------------------------------------------
(* The provider.                                                            *)

Complete(action) ==
    /\ action \in actions
    /\ actions' = actions \ {action}
    /\ assignee' = action.node
    /\ UNCHANGED <<pc, target, last, outcome, unsettled, faulty>>

(* An accepted action ends as errored.  For the assignment of a held        *)
(* address, which may also move it, that is not a fault of the provider.    *)
Errored(action) ==
    /\ action \in actions
    /\ actions' = actions \ {action}
    /\ faulty' = (faulty \/ action.type = "unassign" \/ assignee = None)
    /\ UNCHANGED <<assignee, pc, target, last, outcome, unsettled>>

Agent(a) ==
    \/ Read(a) \/ Unassign(a) \/ ConfirmFree(a) \/ Assign(a) \/ Confirm(a)

Provider == \E action \in Actions : Complete(action) \/ Errored(action)

EndpointNext ==
    \/ Provider
    \/ \E a \in Agents : \/ StartStatus(a) \/ Start(a) \/ Agent(a)
                       \/ GiveUp(a) \/ GiveUpAccepted(a)

EndpointSpec == EndpointInit /\ [][EndpointNext]_endpointVars

(* The artifact runs on, and the provider finishes what it accepted.        *)
EndpointFairSpec ==
    EndpointSpec /\ WF_endpointVars(Provider) /\ \A a \in Agents : WF_endpointVars(Agent(a))

-----------------------------------------------------------------------------
(* Properties.                                                              *)

(* Every variable keeps to its type.                                        *)
EndpointTypeOK ==
    /\ assignee \in Nodes \cup {None} /\ actions \subseteq Actions
    /\ pc \in [Agents -> EndpointLocations] /\ target \in [Agents -> Nodes \cup {None}]
    /\ last \in Agents \cup {None} /\ outcome \in [Agents -> Outcomes]
    /\ unsettled \subseteq Agents /\ faulty \in BOOLEAN

(* The answer outlives the agent: until the caller starts another one, the  *)
(* address stays where the last agent confirmed it, however many earlier    *)
(* attempts gave up half way, unless one of their actions was still to be   *)
(* carried out when it started.                                             *)
AssignedHolds ==
    \A a \in Agents \ unsettled :
        outcome[a].status = "assigned" /\ last = a => assignee = target[a]

(* An agent gets the address to its node, whoever held it before, unless a  *)
(* request, an action or a wait has failed, its own or an earlier agent's.  *)
AgentSucceeds ==
    \A a \in Agents :
        pc[a] = "read" /\ target[a] # None ~>
            faulty \/ outcome[a] = [status |-> "assigned", node |-> target[a]]

=============================================================================
