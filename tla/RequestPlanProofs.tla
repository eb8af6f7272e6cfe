------------------------- MODULE RequestPlanProofs -------------------------
(***************************************************************************)
(* Proofs about RequestPlan, for every provider registry that satisfies    *)
(* RecipesAssumption and every set of requests that satisfies              *)
(* InputsAssumption.                                                       *)
(*                                                                         *)
(* A state of RequestPlan is a request and the answer a port gave it, so   *)
(* the inductive invariant PlanInv only says which question the answer     *)
(* answers.  What an accepted answer is like follows from the planner:     *)
(* the three ports put the same checks in three orders, and a request is   *)
(* granted exactly if none of them refuses (WhyOk, RequestOk).  What each  *)
(* group of checks lets through then gives the stage that is rendered      *)
(* (StageHasTemplate), the rules that are opened (RulesOpened), the        *)
(* machine of every role (RoleGranted), what a machine is bound to         *)
(* (MachineBound) and the document a node is applied from                  *)
(* (DocumentStands).                                                       *)
(***************************************************************************)
EXTENDS RequestPlan, WellFoundedInduction, SequenceTheorems, TLAPS

-----------------------------------------------------------------------------
(* No check of a list refuses.                                              *)
Passes(checks) == \A i \in DOMAIN checks : ~checks[i][2]

(* FirstRefusal picks the least index of a check that refuses: a set of     *)
(* numbers has one.                                                         *)
LEMMA LeastNumber ==
  ASSUME NEW T \in SUBSET Nat, T # {}
  PROVE  \E i \in T : \A j \in T : i <= j
<1>1. OpToRel(<, Nat) = {ss \in Nat \X Nat : ss[1] < ss[2]}
  BY DEF OpToRel
<1>2. PICK i \in T : \A j \in T : <<j, i>> \notin OpToRel(<, Nat)
  BY NatLessThanWellFounded, WFMin
<1>3. \A j \in T : ~(j < i)
  BY <1>1, <1>2
<1> QED
  BY <1>3

(* A list of checks with reasons of its own answers "ok" only when none of  *)
(* them refuses.                                                            *)
LEMMA OkMeansPasses ==
  ASSUME NEW checks, DOMAIN checks \subseteq Nat, \A i \in DOMAIN checks : checks[i][1] # "ok"
  PROVE  FirstRefusal(checks) = "ok" <=> Passes(checks)
<1> DEFINE refusing == {i \in DOMAIN checks : checks[i][2]}
<1>1. CASE refusing = {}
  BY <1>1 DEF FirstRefusal, Passes
<1>2. CASE refusing # {}
  <2>1. \E i \in refusing : \A j \in refusing : i <= j
    BY <1>2, LeastNumber
  <2>2. (CHOOSE i \in refusing : \A j \in refusing : i <= j) \in refusing
    BY <2>1
  <2> QED
    BY <1>2, <2>2 DEF FirstRefusal, Passes
<1> QED
  BY <1>1, <1>2

(* Groups in an order answer "ok" exactly when each group does.             *)
LEMMA InOrderPasses ==
  ASSUME NEW order, NEW groups, Len(order) \in Nat
  PROVE  InOrder(order, groups) = "ok" <=> \A i \in 1..Len(order) : FirstRefusal(groups[order[i]]) = "ok"
<1> DEFINE raised == [i \in 1..Len(order) |-> Raising(FirstRefusal(groups[order[i]]))]
<1>1. /\ DOMAIN raised = 1..Len(order)
      /\ \A i \in 1..Len(order) : /\ raised[i][1] = FirstRefusal(groups[order[i]])
                                  /\ raised[i][2] <=> raised[i][1] # "ok"
  BY DEF Raising
<1>2. InOrder(order, groups) = FirstRefusal(raised)
  BY DEF InOrder
<1>3. CASE \A i \in 1..Len(order) : FirstRefusal(groups[order[i]]) = "ok"
  <2>1. {i \in DOMAIN raised : raised[i][2]} = {}
    BY <1>1, <1>3
  <2> QED
    BY <1>2, <1>3, <2>1 DEF FirstRefusal
<1>4. CASE ~\A i \in 1..Len(order) : FirstRefusal(groups[order[i]]) = "ok"
  <2> DEFINE refusing == {i \in DOMAIN raised : raised[i][2]}
  <2>1. refusing # {} /\ refusing \subseteq Nat
    BY <1>1, <1>4
  <2>2. \E i \in refusing : \A j \in refusing : i <= j
    BY <2>1, LeastNumber
  <2>3. (CHOOSE i \in refusing : \A j \in refusing : i <= j) \in refusing
    BY <2>2
  <2>4. raised[CHOOSE i \in refusing : \A j \in refusing : i <= j][1] # "ok"
    BY <1>1, <2>3
  <2> HIDE DEF raised
  <2> QED
    BY <1>2, <1>4, <2>1, <2>4 DEF FirstRefusal
<1> QED
  BY <1>3, <1>4

(* The groups of checks of a request.                                       *)
Names == {"recipe", "placement", "role", "form", "peers", "networking", "ingress", "created", "range",
          "inside", "subrange", "subnet", "address", "sharing", "rules", "policies", "closing", "options"}

(* Each port goes through every group, and through no other.                *)
LEMMA Orders ==
  ASSUME NEW port \in Ports
  PROVE  /\ Len(Order(port)) = 18
         /\ \A i \in 1..18 : Order(port)[i] \in Names
         /\ \A name \in Names : \E i \in 1..18 : Order(port)[i] = name
<1>1. CASE port = "blue"
  <2>1. Order(port) = BlueOrder
    BY <1>1 DEF Order
  <2> QED
    BY <2>1 DEF BlueOrder, Names
<1>2. CASE port = "green"
  <2>1. Order(port) = GreenOrder
    BY <1>2 DEF Order
  <2> QED
    BY <2>1 DEF GreenOrder, Names
<1>3. CASE port = "red"
  <2>1. Order(port) = RedOrder
    BY <1>3 DEF Order
  <2> QED
    BY <2>1 DEF RedOrder, Names
<1> QED
  BY <1>1, <1>2, <1>3 DEF Ports

(* No group refuses the request.                                            *)
Granting(port, o, c, policies) ==
  \A name \in Names : FirstRefusal(Groups(port, o, c, policies)[name]) = "ok"

(* So the order in which a port checks does not decide what it grants.      *)
LEMMA WhyOk ==
  ASSUME NEW port \in Ports, NEW o, NEW c, NEW policies
  PROVE  Why(port, o, c, policies) = "ok" <=> Granting(port, o, c, policies)
<1> DEFINE groups == Groups(port, o, c, policies)
<1>1. Why(port, o, c, policies) = InOrder(Order(port), groups)
  BY DEF Why
<1>2. Granting(port, o, c, policies) <=> \A name \in Names : FirstRefusal(groups[name]) = "ok"
  BY DEF Granting
<1> HIDE DEF groups
<1>3. InOrder(Order(port), groups) = "ok"
        <=> \A i \in 1..18 : FirstRefusal(groups[Order(port)[i]]) = "ok"
  <2>1. Len(Order(port)) = 18 /\ Len(Order(port)) \in Nat
    BY Orders
  <2>2. InOrder(Order(port), groups) = "ok"
          <=> \A i \in 1..Len(Order(port)) : FirstRefusal(groups[Order(port)[i]]) = "ok"
    BY <2>1, InOrderPasses, Zenon
  <2> QED
    BY <2>1, <2>2
<1>4. (\A i \in 1..18 : FirstRefusal(groups[Order(port)[i]]) = "ok")
        <=> \A name \in Names : FirstRefusal(groups[name]) = "ok"
  BY Orders
<1> QED
  BY <1>1, <1>2, <1>3, <1>4

(* What a machine needs of the applied shared stage.                        *)
LEMMA SharingPasses ==
  ASSUME NEW o, NEW c
  PROVE  FirstRefusal(Sharing(o, c)) = "ok" <=>
              /\ {"protect", "shared", "ids"} \cap o.faults = {}
              /\ c.stage = "node" =>
                   /\ c.shared.provider = o.provider
                   /\ DOMAIN o.roles # {} => /\ c.role \in DOMAIN o.roles
                                             /\ c.role \in DOMAIN c.shared.firewalls
                                             /\ R(o).tags => c.role \in DOMAIN c.shared.tags
                   /\ R(o).registers => Ids(o, c) # {}
<1> DEFINE checks == Sharing(o, c)
<1>1. DOMAIN checks = 1..7 /\ \A i \in 1..7 : checks[i][1] # "ok"
  BY DEF Sharing, Bad
<1>2. /\ checks[1][2] <=> "protect" \in o.faults
      /\ checks[2][2] <=> "shared" \in o.faults
      /\ checks[6][2] <=> "ids" \in o.faults
  BY DEF Sharing, Bad
<1>3. /\ checks[3][2] <=> c.stage = "node" /\ c.shared.provider # o.provider
      /\ checks[4][2] <=> c.stage = "node" /\ DOMAIN o.roles # {} /\
                          (c.role \notin DOMAIN o.roles \/ c.role \notin DOMAIN c.shared.firewalls)
  BY DEF Sharing
<1>4. /\ checks[5][2] <=> /\ c.stage = "node" /\ DOMAIN o.roles # {}
                          /\ R(o).tags /\ c.role \notin DOMAIN c.shared.tags
      /\ checks[7][2] <=> c.stage = "node" /\ R(o).registers /\ Ids(o, c) = {}
  BY DEF Sharing
<1> HIDE DEF checks
<1>5. Passes(checks) <=> /\ ~checks[1][2] /\ ~checks[2][2] /\ ~checks[3][2] /\ ~checks[4][2]
                         /\ ~checks[5][2] /\ ~checks[6][2] /\ ~checks[7][2]
  BY <1>1 DEF Passes
<1>6. FirstRefusal(checks) = "ok" <=> Passes(checks)
  BY <1>1, OkMeansPasses
<1> QED
  BY <1>2, <1>3, <1>4, <1>5, <1>6 DEF checks

(* The three readers of an address range give the same reason, whatever the *)
(* range looks like.                                                        *)
LEMMA CidrsAgree ==
  ASSUME NEW c \in Ranges, NEW six, NEW port \in Ports
  PROVE  Cidr(port, c, six) = BlueCidr(c, six)
  BY DEF Ranges, Ports, Cidr, BlueCidr, GreenCidr, RedCidr

(* So are whole ranges of a request.                                        *)
LEMMA ReadableAgrees ==
  ASSUME NEW range, range \subseteq Ranges, NEW port \in Ports, NEW other \in Ports
  PROVE  Readable(port, range) = Readable(other, range)
<1>1. \A c \in range : Cidr(port, c, FALSE) = Cidr(other, c, FALSE)
  BY CidrsAgree
<1>2. /\ (\E c \in range : Cidr(port, c, FALSE) = "cidr") <=> \E c \in range : Cidr(other, c, FALSE) = "cidr"
      /\ (\E c \in range : Cidr(port, c, FALSE) = "family") <=> \E c \in range : Cidr(other, c, FALSE) = "family"
  BY <1>1
<1> QED
  BY <1>2 DEF Readable

(* The three ports judge the rules of a request alike.                      *)
LEMMA IngressAgrees ==
  ASSUME NEW o, \A rule \in o.rules : IsRule(rule), NEW port \in Ports, NEW other \in Ports
  PROVE  Ingress(port, o) = Ingress(other, o)
<1> DEFINE public == {pair \in o.rules \X UNION {rule.sources : rule \in o.rules} :
                        pair[2] \in pair[1].sources /\ ~IsPrivate(pair[2])}
           six == R(o).ipv6
<1>1. ASSUME NEW pair \in public PROVE Cidr(port, pair[2], six) = Cidr(other, pair[2], six)
  <2>1. pair[2] \in Ranges
    BY DEF IsRule, PublicSource, PrivateSource, IsPrivate
  <2> QED
    BY <2>1, CidrsAgree
<1> HIDE DEF public, six
<1>2. /\ (\E pair \in public : Cidr(port, pair[2], six) = "cidr")
             <=> \E pair \in public : Cidr(other, pair[2], six) = "cidr"
      /\ (\E pair \in public : Cidr(port, pair[2], six) = "family")
             <=> \E pair \in public : Cidr(other, pair[2], six) = "family"
  BY <1>1
<1> QED
  BY <1>2 DEF Ingress, public, six

(* No part of the request is null where the ports read null in different    *)
(* ways.                                                                    *)
NullsRead(o) == o.faults \cap {"null-peers", "null-settings"} = {}

(* The three ports then refuse a request for the same reasons.              *)
LEMMA GroupsAgree ==
  ASSUME NEW o, IsRequest(o), NullsRead(o), NEW c, NEW policies, NEW port \in Ports, NEW other \in Ports
  PROVE  Groups(port, o, c, policies) = Groups(other, o, c, policies)
<1>1. RoleChecks(port, o, c) = RoleChecks(other, o, c)
  BY DEF RoleChecks, NullsRead
<1>2. PeerChecks(port, o) = PeerChecks(other, o)
  BY DEF PeerChecks, NullsRead
<1>3. Ingress(port, o) = Ingress(other, o)
  BY IngressAgrees DEF IsRequest
<1>4. NetworkCidr(o) \subseteq Ranges /\ Subnet(o) \subseteq Ranges
  BY DEF IsRequest, NetworkCidr, Subnet
<1>5. /\ Readable(port, NetworkCidr(o)) = Readable(other, NetworkCidr(o))
      /\ Readable(port, Subnet(o)) = Readable(other, Subnet(o))
  BY <1>4, ReadableAgrees
<1> QED
  BY <1>1, <1>2, <1>3, <1>5 DEF Groups

-----------------------------------------------------------------------------
(* The request that the shared stage tries for a role differs from its own  *)
(* only in the rules and their filter.                                      *)
LEMMA TrialFields ==
  ASSUME NEW o, IsRequest(o), NEW r \in DOMAIN o.roles
  PROVE  /\ IsRequest(Trial(o, r))
         /\ Trial(o, r).rules = o.roles[r].rules /\ Trial(o, r).filter = o.roles[r].filter
         /\ \A field \in DOMAIN o \ {"rules", "filter"} : Trial(o, r)[field] = o[field]
<1>1. /\ DOMAIN Trial(o, r) = DOMAIN o
      /\ \A field \in DOMAIN o \ {"rules", "filter"} : Trial(o, r)[field] = o[field]
  BY DEF Trial
<1>2. Trial(o, r).rules = o.roles[r].rules /\ Trial(o, r).filter = o.roles[r].filter
  BY DEF Trial, IsRequest
<1>3. \A rule \in Trial(o, r).rules : IsRule(rule)
  BY <1>2 DEF IsRequest, Topology
<1>4. /\ Trial(o, r).caller = o.caller /\ Trial(o, r).provider = o.provider /\ Trial(o, r).roles = o.roles
      /\ Trial(o, r).later = o.later
      /\ Trial(o, r).cidr = o.cidr /\ Trial(o, r).optionCidr = o.optionCidr /\ Trial(o, r).subnet = o.subnet
  BY <1>1 DEF IsRequest
<1>5. IsRequest(Trial(o, r))
  BY <1>1, <1>3, <1>4 DEF IsRequest, Topology
<1> QED
  BY <1>1, <1>2, <1>5

(* Every group but the trials of the roles grants the request.              *)
Grants(port, o, c) ==
  \A name \in Names \ {"policies"} : FirstRefusal(Groups(port, o, c, << >>)[name]) = "ok"

(* A request is granted when these groups and the trials grant it.          *)
LEMMA WhyGrants ==
  ASSUME NEW port \in Ports, NEW o, NEW c, NEW policies
  PROVE  Why(port, o, c, policies) = "ok" <=> Grants(port, o, c) /\ FirstRefusal(policies) = "ok"
<1>1. \A name \in Names \ {"policies"} : Groups(port, o, c, policies)[name] = Groups(port, o, c, << >>)[name]
  BY DEF Groups, Names
<1>2. Groups(port, o, c, policies).policies = policies
  BY DEF Groups
<1>3. "policies" \in Names
  BY DEF Names
<1>4. Granting(port, o, c, policies) <=> Grants(port, o, c) /\ FirstRefusal(policies) = "ok"
  BY <1>1, <1>2, <1>3 DEF Granting, Grants
<1> QED
  BY <1>4, WhyOk

(* No check refuses in an empty list.                                       *)
LEMMA NoneRefuses == FirstRefusal(<< >>) = "ok"
  BY DEF FirstRefusal

(* A list of one check.                                                     *)
LEMMA OneCheck ==
  ASSUME NEW checks, DOMAIN checks = {1}
  PROVE  FirstRefusal(checks) = "ok" <=> (checks[1][2] => checks[1][1] = "ok")
<1>1. CASE checks[1][2]
  <2>1. {i \in DOMAIN checks : checks[i][2]} = {1}
    BY <1>1
  <2>2. (CHOOSE i \in {1} : \A j \in {1} : i <= j) = 1
    OBVIOUS
  <2> QED
    BY <1>1, <2>1, <2>2 DEF FirstRefusal
<1>2. CASE ~checks[1][2]
  <2>1. {i \in DOMAIN checks : checks[i][2]} = {}
    BY <1>2
  <2> QED
    BY <1>2, <2>1 DEF FirstRefusal
<1> QED
  BY <1>1, <1>2

(* The trials refuse when one of them does, whichever is named.             *)
LEMMA NamingPasses ==
  ASSUME NEW reasons, "ok" \notin reasons
  PROVE  FirstRefusal(Naming(reasons)) = "ok" <=> reasons = {}
<1>1. CASE reasons = {}
  BY <1>1, NoneRefuses DEF Naming
<1>2. CASE reasons # {}
  <2> DEFINE reason == CHOOSE reason \in reasons : TRUE
             checks == << <<reason, TRUE>> >>
  <2>1. reason \in reasons /\ reason # "ok"
    BY <1>2
  <2> HIDE DEF reason
  <2>2. DOMAIN checks = {1} /\ checks[1][1] # "ok" /\ checks[1][2]
    BY <2>1
  <2>3. Naming(reasons) = checks
    BY <1>2 DEF Naming, reason
  <2> HIDE DEF checks
  <2>4. FirstRefusal(checks) # "ok"
    BY <2>2, OneCheck
  <2> QED
    BY <1>2, <2>3, <2>4
<1> QED
  BY <1>1, <1>2

(* A call is granted when no group refuses, and, at the shared stage, when *)
(* the machine of each role is not refused either.                         *)
GrantsAll(port, o, c) ==
  /\ Grants(port, o, c)
  /\ c.stage = "shared" => \A r \in DOMAIN o.roles : Grants(port, Trial(o, r), MachineCall(r, o.unit, StandIns(o)))

(* A granted answer is the one Granted describes.                           *)
LEMMA RequestOk ==
  ASSUME NEW port \in Ports, NEW o, NEW c
  PROVE  /\ Request(port, o, c).why = "ok" <=> GrantsAll(port, o, c)
         /\ GrantsAll(port, o, c) => Request(port, o, c) = Granted(port, o, c)
<1> DEFINE trial(r) == Why(port, Trial(o, r), MachineCall(r, o.unit, StandIns(o)), << >>)
           policies == PolicyChecks(port, o, c)
           why == Why(port, o, c, policies)
<1>1. \A r \in DOMAIN o.roles : trial(r) = "ok" <=> Grants(port, Trial(o, r), MachineCall(r, o.unit, StandIns(o)))
  BY WhyGrants, NoneRefuses
<1> HIDE DEF trial
<1>2. FirstRefusal(policies) = "ok" <=> (c.stage = "shared" => \A r \in DOMAIN o.roles : trial(r) = "ok")
  <2>1. CASE c.stage # "shared"
    BY <2>1, NoneRefuses DEF PolicyChecks
  <2>2. CASE c.stage = "shared"
    <3>1. policies = Naming({trial(r) : r \in DOMAIN o.roles} \ {"ok"})
      BY <2>2 DEF PolicyChecks, trial
    <3>2. FirstRefusal(policies) = "ok" <=> {trial(r) : r \in DOMAIN o.roles} \ {"ok"} = {}
      BY <3>1, NamingPasses
    <3> QED
      BY <2>2, <3>2
  <2> QED
    BY <2>1, <2>2
<1> HIDE DEF policies
<1>3. why = "ok" <=> GrantsAll(port, o, c)
  BY <1>1, <1>2, WhyGrants DEF GrantsAll
<1>4. Request(port, o, c) = Answer(why, Granted(port, o, c))
  BY DEF Request, policies
<1> HIDE DEF why
<1>5. Granted(port, o, c).why = "ok"
  BY DEF Granted
<1>6. Refused(why).why = why
  BY DEF Refused
<1> QED
  BY <1>3, <1>4, <1>5, <1>6 DEF Answer

(* Green asks for discovery before the roles, Blue and Red after the        *)
(* network: a discovering recipe has no other stage for it, so the template *)
(* is the same.                                                             *)
LEMMA StagesAgree ==
  ASSUME NEW o, IsRequest(o), NEW c, NEW port \in Ports
  PROVE  Stage(port, o, c) = BlueStage(o, c)
<1>1. ASSUME R(o).discovers, NEW stage, stage = "node-discovery"
      PROVE  Referenced(o, Network(o, stage)) = stage
  <2>1. Complete(R(o), Templates(o.provider))
    BY RecipesAssumption DEF IsRequest, Topology, R
  <2>2. /\ stage \notin DOMAIN R(o).referenceStages
        /\ \A mode \in DOMAIN R(o).networkStages : stage \notin DOMAIN R(o).networkStages[mode]
    BY <1>1, <2>1 DEF Complete
  <2> QED
    BY <2>2 DEF Referenced, Network, Through
<1>2. GreenStage(o, c) = BlueStage(o, c)
  <2>1. CASE Discovers(o, c)
    BY <1>1, <2>1 DEF GreenStage, BlueStage, Discovers
  <2>2. CASE ~Discovers(o, c)
    BY <2>2 DEF GreenStage, BlueStage
  <2> QED
    BY <2>1, <2>2
<1>3. RedStage(o, c) = BlueStage(o, c)
  BY DEF RedStage, BlueStage
<1> QED
  BY <1>2, <1>3 DEF Stage, Ports

(* What passes the checks of one port passes those of every port.           *)
LEMMA GrantsAgree ==
  ASSUME NEW o, IsRequest(o), NullsRead(o), NEW c, NEW port \in Ports, NEW other \in Ports
  PROVE  Grants(port, o, c) <=> Grants(other, o, c)
  BY GroupsAgree DEF Grants

(* What one port grants, every port grants with the same answer.            *)
LEMMA RequestsAgree ==
  ASSUME NEW o, IsRequest(o), NullsRead(o), NEW c, NEW port \in Ports, NEW other \in Ports
  PROVE  /\ Request(port, o, c).why = "ok" <=> Request(other, o, c).why = "ok"
         /\ Request(port, o, c).why = "ok" => Request(port, o, c) = Request(other, o, c)
<1>1. ASSUME NEW r \in DOMAIN o.roles
      PROVE  Grants(port, Trial(o, r), MachineCall(r, o.unit, StandIns(o)))
               <=> Grants(other, Trial(o, r), MachineCall(r, o.unit, StandIns(o)))
  <2>1. IsRequest(Trial(o, r)) /\ Trial(o, r).faults = o.faults
    BY TrialFields DEF IsRequest
  <2> QED
    BY <2>1, GrantsAgree DEF NullsRead
<1>2. GrantsAll(port, o, c) <=> GrantsAll(other, o, c)
  BY <1>1, GrantsAgree DEF GrantsAll
<1>3. Granted(port, o, c) = Granted(other, o, c)
  BY StagesAgree DEF Granted
<1> QED
  BY <1>2, <1>3, RequestOk

-----------------------------------------------------------------------------
(* The groups of checks of a single node, which are the same in every port  *)
(* but for the settings and the option that requires existing state.        *)
NodeNames == {"literals", "topology", "fields", "unit", "recipe", "combined", "registered", "path", "setting",
              "shared", "node", "disks", "backend"}
Asks(port) == CASE port = "green" -> NodeNames
                [] OTHER -> (NodeNames \ {"setting"}) \cup {"settings", "existing"}

(* A port goes through the groups it asks, and through no other.            *)
LEMMA NodeOrders ==
  ASSUME NEW port \in Ports
  PROVE  /\ Len(NodeOrder(port)) \in Nat
         /\ \A i \in 1..Len(NodeOrder(port)) : NodeOrder(port)[i] \in Asks(port)
         /\ \A name \in Asks(port) : \E i \in 1..Len(NodeOrder(port)) : NodeOrder(port)[i] = name
<1>1. CASE port = "blue"
  <2>1. NodeOrder(port) = BlueNodeOrder
    BY <1>1 DEF NodeOrder
  <2>2. Len(BlueNodeOrder) = 14
    BY DEF BlueNodeOrder
  <2>3. Asks(port) = (NodeNames \ {"setting"}) \cup {"settings", "existing"}
    BY <1>1 DEF Asks
  <2> QED
    BY <2>1, <2>2, <2>3 DEF BlueNodeOrder, NodeNames
<1>2. CASE port = "green"
  <2>1. NodeOrder(port) = GreenNodeOrder
    BY <1>2 DEF NodeOrder
  <2>2. Len(GreenNodeOrder) = 13
    BY DEF GreenNodeOrder
  <2>3. Asks(port) = NodeNames
    BY <1>2 DEF Asks
  <2> QED
    BY <2>1, <2>2, <2>3 DEF GreenNodeOrder, NodeNames
<1>3. CASE port = "red"
  <2>1. NodeOrder(port) = RedNodeOrder
    BY <1>3 DEF NodeOrder
  <2>2. Len(RedNodeOrder) = 14
    BY DEF RedNodeOrder
  <2>3. Asks(port) = (NodeNames \ {"setting"}) \cup {"settings", "existing"}
    BY <1>3 DEF Asks
  <2> QED
    BY <2>1, <2>2, <2>3 DEF RedNodeOrder, NodeNames
<1> QED
  BY <1>1, <1>2, <1>3 DEF Ports

(* A port accepts a single node exactly when each group it looks at does.   *)
LEMMA NodeInOrder ==
  ASSUME NEW port \in Ports, NEW groups
  PROVE  InOrder(NodeOrder(port), groups) = "ok" <=> \A name \in Asks(port) : FirstRefusal(groups[name]) = "ok"
<1>1. InOrder(NodeOrder(port), groups) = "ok"
        <=> \A i \in 1..Len(NodeOrder(port)) : FirstRefusal(groups[NodeOrder(port)[i]]) = "ok"
  BY NodeOrders, InOrderPasses, Zenon
<1> QED
  BY <1>1, NodeOrders

(* The groups of one check.                                                 *)
LEMMA ExternalPasses ==
  ASSUME NEW n, NEW options
  PROVE  FirstRefusal(External(n, options)) = "ok" <=> n.external \notin options
<1> DEFINE checks == External(n, options)
<1>1. DOMAIN checks = {1} /\ checks[1][1] # "ok"
  BY DEF External
<1>2. checks[1][2] <=> n.external \in options
  BY DEF External
<1> HIDE DEF checks
<1>3. FirstRefusal(checks) = "ok" <=> n.external \notin options
  BY <1>1, <1>2, OneCheck
<1> QED
  BY <1>3 DEF checks

(* A check of a part passes when that part is well formed.                  *)
LEMMA BadPasses ==
  ASSUME NEW o, NEW part, part # "ok"
  PROVE  FirstRefusal(<<Bad(o, part)>>) = "ok" <=> part \notin o.faults
<1> DEFINE checks == <<Bad(o, part)>>
<1>1. DOMAIN checks = {1} /\ checks[1][1] # "ok"
  BY DEF Bad
<1>2. checks[1][2] <=> part \in o.faults
  BY DEF Bad
<1> HIDE DEF checks
<1>3. FirstRefusal(checks) = "ok" <=> part \notin o.faults
  BY <1>1, <1>2, OneCheck
<1> QED
  BY <1>3 DEF checks

(* A refusal that is passed on passes only when there was none.             *)
LEMMA RaisingPasses ==
  ASSUME NEW reason
  PROVE  FirstRefusal(<<Raising(reason)>>) = "ok" <=> reason = "ok"
<1> DEFINE checks == <<Raising(reason)>>
<1>1. DOMAIN checks = {1} /\ checks[1][1] = reason
  BY DEF Raising
<1>2. checks[1][2] <=> reason # "ok"
  BY DEF Raising
<1> HIDE DEF checks
<1>3. FirstRefusal(checks) = "ok" <=> reason = "ok"
  BY <1>1, <1>2, OneCheck
<1> QED
  BY <1>3 DEF checks

(* The ports differ in two groups: Green does not take the aliases of the   *)
(* setting that names an external key, and does not look at the option that *)
(* requires existing state. Apart from these, they refuse the same single   *)
(* nodes.                                                                   *)
LEMMA NodeSettings ==
  ASSUME NEW n, NEW asked, NEW port \in Ports
  PROVE  LET groups == NodeGroups(n, asked)
         IN /\ InOrder(NodeOrder(port), groups) = "ok"
                 => \A name \in NodeNames : FirstRefusal(groups[name]) = "ok"
            /\ n.external # "alias" /\ "existing" \notin n.faults =>
                 (InOrder(NodeOrder(port), groups) = "ok"
                    <=> \A name \in NodeNames : FirstRefusal(groups[name]) = "ok")
<1> DEFINE groups == NodeGroups(n, asked)
<1>1. FirstRefusal(groups.setting) = "ok" <=> n.external # "setting"
  BY ExternalPasses DEF NodeGroups
<1>2. FirstRefusal(groups.settings) = "ok" <=> n.external \notin Settings(n)
  BY ExternalPasses DEF NodeGroups
<1>3. FirstRefusal(groups.existing) = "ok" <=> "existing" \notin n.faults
  BY BadPasses DEF NodeGroups
<1> HIDE DEF groups
<1>4. FirstRefusal(groups["setting"]) = "ok" <=> n.external # "setting"
  BY <1>1
<1>5. n.external \notin Settings(n) => n.external # "setting"
  BY DEF Settings
<1>6. n.external # "alias" => (n.external \notin Settings(n) <=> n.external # "setting")
  BY DEF Settings
<1>7. InOrder(NodeOrder(port), groups) = "ok" <=> \A name \in Asks(port) : FirstRefusal(groups[name]) = "ok"
  BY NodeInOrder
<1>8. Asks(port) = NodeNames \/ Asks(port) = (NodeNames \ {"setting"}) \cup {"settings", "existing"}
  BY DEF Asks
<1>9. /\ FirstRefusal(groups["settings"]) = "ok" <=> n.external \notin Settings(n)
      /\ FirstRefusal(groups["existing"]) = "ok" <=> "existing" \notin n.faults
  BY <1>2, <1>3
<1>10. "setting" \in NodeNames
  BY DEF NodeNames
<1>11. CASE Asks(port) = NodeNames
  BY <1>7, <1>11 DEF groups
<1>12. CASE Asks(port) = (NodeNames \ {"setting"}) \cup {"settings", "existing"}
  <2>1. (\A name \in Asks(port) : FirstRefusal(groups[name]) = "ok") <=>
           /\ \A name \in NodeNames \ {"setting"} : FirstRefusal(groups[name]) = "ok"
           /\ FirstRefusal(groups["settings"]) = "ok" /\ FirstRefusal(groups["existing"]) = "ok"
    BY <1>12
  <2>2. (\A name \in NodeNames : FirstRefusal(groups[name]) = "ok") <=>
           (\A name \in NodeNames \ {"setting"} : FirstRefusal(groups[name]) = "ok") /\ n.external # "setting"
    BY <1>4, <1>10
  <2> QED
    BY <2>1, <2>2, <1>5, <1>6, <1>7, <1>9 DEF groups
<1> QED
  BY <1>8, <1>11, <1>12

(* A granted single node is the merge of its two granted stages.            *)
LEMMA NodeGranted ==
  ASSUME NEW n, NEW port \in Ports, NodePlan(port, n).why = "ok"
  PROVE  LET asked == Stages(port, n)
         IN /\ asked.shared.why = "ok" /\ asked.node.why = "ok"
            /\ NodePlan(port, n) = [asked.node EXCEPT !.rules = asked.shared.rules, !.document = Document(n)]
<1> DEFINE asked == Stages(port, n)
           groups == NodeGroups(n, asked)
           why == InOrder(NodeOrder(port), groups)
<1>1. NodePlan(port, n) = Merged(why, n, asked)
  BY DEF NodePlan, Combination
<1>2. FirstRefusal(groups["shared"]) = "ok" => asked.shared.why = "ok"
  BY RaisingPasses DEF NodeGroups
<1>3. FirstRefusal(groups["node"]) = "ok" => asked.node.why = "ok"
  BY RaisingPasses DEF NodeGroups
<1>4. why = "ok" => \A name \in NodeNames : FirstRefusal(groups[name]) = "ok"
  BY NodeSettings
<1>5. "shared" \in NodeNames /\ "node" \in NodeNames
  BY DEF NodeNames
<1> HIDE DEF why, groups
<1>6. why = "ok"
  <2>1. CASE why # "ok"
    BY <2>1, <1>1 DEF Merged, Refused
  <2> QED
    BY <2>1
<1>7. asked.shared.why = "ok" /\ asked.node.why = "ok"
  BY <1>2, <1>3, <1>4, <1>5, <1>6
<1>8. NodePlan(port, n) = [asked.node EXCEPT !.rules = asked.shared.rules, !.document = Document(n)]
  BY <1>1, <1>6 DEF Merged
<1> QED
  BY <1>7, <1>8

(* What one port grants of a single node, every port does.                  *)
LEMMA NodesAgree ==
  ASSUME NEW n, IsRequest(n), NullsRead(n), n.external # "alias", "existing" \notin n.faults,
         NEW port \in Ports, NEW other \in Ports, NodePlan(port, n).why = "ok"
  PROVE  NodePlan(port, n) = NodePlan(other, n)
<1> DEFINE one == Stages(port, n)
           two == Stages(other, n)
<1>1. one.shared.why = "ok" /\ one.node.why = "ok"
  BY NodeGranted
<1>2. one.shared = Request(port, n, SharedCall) /\ one.node = Request(port, n, MachineCall("", n.unit, Promised(n)))
  BY DEF Stages
<1>3. one = two
  BY <1>1, <1>2, RequestsAgree DEF Stages
<1>4. InOrder(NodeOrder(port), NodeGroups(n, one)) = "ok"
  <2> DEFINE why == InOrder(NodeOrder(port), NodeGroups(n, one))
  <2>1. NodePlan(port, n) = Merged(why, n, one)
    BY DEF NodePlan, Combination
  <2> HIDE DEF why, one
  <2>2. why = "ok"
    BY <2>1 DEF Merged, Refused
  <2> QED
    BY <2>2 DEF why
<1> HIDE DEF one, two
<1>5. InOrder(NodeOrder(other), NodeGroups(n, one)) = "ok"
  BY <1>4, NodeSettings
<1> QED
  BY <1>3, <1>4, <1>5 DEF NodePlan, Combination, one, two

-----------------------------------------------------------------------------
(* The document of a single node.                                           *)

(* A token of the shared stage becomes the reference it stands for, and a   *)
(* reference stays as it is.                                                *)
LEMMA SharedReplaced ==
  ASSUME NEW o, NEW v \in NetworkValues(o)
  PROVE  Resolved(Replacements(o), Token(v)) = v /\ Resolved(Replacements(o), v) = v
<1> DEFINE table == Replacements(o)
<1>1. v[1] = "reference" /\ v[2] \in {"firewall", "network"}
  BY DEF NetworkValues, Reference
<1>2. Token(v)[1] = "token" /\ Token(v)[2] = v
  BY DEF Token
<1>3. Marker[1] = "marker"
  BY DEF Marker
<1>4. \A w : w = v => w \notin DOMAIN table
  <2>1. \A a \in {"id", "key_name"} : Reference("registration", a)[2] = "registration"
    BY DEF Reference
  <2>2. \A w \in Tokens(o) : w[1] = "token"
    BY DEF Tokens, Token
  <2> QED
    BY <1>1, <1>3, <2>1, <2>2 DEF Replacements
<1>5. Token(v) \in DOMAIN table
  BY DEF Replacements, Tokens
<1>6. table[Token(v)] = v
  <2>1. \A a \in {"id", "key_name"} : Reference("registration", a)[1] = "reference"
    BY DEF Reference
  <2> QED
    BY <1>2, <1>3, <1>5, <2>1 DEF Replacements
<1> HIDE DEF table
<1>7. Once(table, v) = v /\ Once(table, Token(v)) = v
  BY <1>4, <1>5, <1>6 DEF Once
<1> QED
  BY <1>7 DEF Resolved, table

(* A registered key goes through two replacements: the token becomes the    *)
(* reference to the registration, and that the identity of the applied one. *)
LEMMA KeyReplaced ==
  ASSUME NEW o, R(o).registers, NEW a \in KeyNames(o)
  PROVE  Resolved(Replacements(o), Token(Reference("registration", a))) = <<"literal", "registration_id">>
<1> DEFINE table == Replacements(o)
           named == Reference("registration", a)
<1>1. a \in {"id", "key_name"}
  BY DEF KeyNames
<1>2. /\ named[1] = "reference" /\ Token(named)[1] = "token" /\ Token(named)[2] = named
      /\ Marker[1] = "marker" /\ \A b : Reference("registration", b)[1] = "reference"
  BY DEF Reference, Token, Marker
<1>3. Token(named) \in Tokens(o)
  BY DEF Tokens, SharedValues
<1>4. Token(named) \in DOMAIN table /\ table[Token(named)] = named
  BY <1>2, <1>3 DEF Replacements
<1>5. named \in DOMAIN table /\ table[named] = <<"literal", "registration_id">>
  BY <1>1, <1>2 DEF Replacements
<1>6. <<"literal", "registration_id">> \notin DOMAIN table
  <2>1. \A w \in DOMAIN table : w[1] \in {"marker", "reference", "token"}
    BY <1>2 DEF Replacements, Tokens, Token
  <2>2. <<"literal", "registration_id">>[1] = "literal"
    OBVIOUS
  <2> QED
    BY <2>1, <2>2
<1> HIDE DEF table, named
<1> QED
  BY <1>4, <1>5, <1>6 DEF Resolved, Once, table, named

(* A key that is not registered is the marker until the public key is put   *)
(* in its place.                                                            *)
LEMMA MarkerReplaced ==
  ASSUME NEW o
  PROVE  Resolved(Replacements(o), Marker) = <<"literal", "public_key">>
<1> DEFINE table == Replacements(o)
<1>1. Marker \in DOMAIN table /\ table[Marker] = <<"literal", "public_key">>
  BY DEF Replacements
<1>2. <<"literal", "public_key">> \notin DOMAIN table
  <2>1. \A w \in DOMAIN table : w[1] \in {"marker", "reference", "token"}
    BY DEF Replacements, Tokens, Token, Marker, Reference
  <2>2. <<"literal", "public_key">>[1] = "literal"
    OBVIOUS
  <2> QED
    BY <2>1, <2>2
<1> HIDE DEF table
<1> QED
  BY <1>1, <1>2 DEF Resolved, Once, table

(* A document refers only to its own resources, and nothing in it is left   *)
(* to be replaced; the keys of the machine are literals.                    *)
Stands(document) ==
  /\ \A v \in document.values : /\ v[1] \notin {"token", "marker"}
                                /\ v[1] = "reference" => v[2] \in document.resources
  /\ \A v \in document.key : v[1] = "literal"

(* The document of a single node stands on its own.                         *)
LEMMA DocumentStands ==
  ASSUME NEW o
  PROVE  Stands(Document(o))
<1> DEFINE final(v) == Resolved(Replacements(o), v)
           resources == {"machine"} \cup (SharedResources(o) \ {"registration"})
<1>1. \A v \in MachineKey(o) : final(v)[1] = "literal"
  <2>1. CASE R(o).registers
    <3>1. \A v \in MachineKey(o) : \E a \in KeyNames(o) : v = Token(Reference("registration", a))
      BY <2>1 DEF MachineKey, SharedValues
    <3>2. \A a \in KeyNames(o) : final(Token(Reference("registration", a))) = <<"literal", "registration_id">>
      BY <2>1, KeyReplaced
    <3> HIDE DEF final
    <3>3. \A v \in MachineKey(o) : final(v) = <<"literal", "registration_id">>
      BY <3>1, <3>2
    <3> QED
      BY <3>3
  <2>2. CASE ~R(o).registers
    <3>1. \A v \in MachineKey(o) : v = Marker
      BY <2>2 DEF MachineKey
    <3>2. final(Marker) = <<"literal", "public_key">>
      BY MarkerReplaced
    <3> HIDE DEF final
    <3> QED
      BY <3>1, <3>2
  <2> QED
    BY <2>1, <2>2
<1>2. \A v \in NetworkValues(o) : final(v) = v /\ final(Token(v)) = v
  BY SharedReplaced
<1>3. \A v \in NetworkValues(o) : v[1] = "reference" /\ v[2] \in resources
  BY DEF NetworkValues, Reference, SharedResources
<1>4. \A v \in SharedValues(o) : final(Token(v))[1] = "literal"
  <2>1. CASE R(o).registers
    BY <1>1, <2>1 DEF MachineKey
  <2>2. CASE ~R(o).registers
    BY <2>2 DEF SharedValues
  <2> QED
    BY <2>1, <2>2
<1> HIDE DEF final, resources
<1> DEFINE sound(v) == final(v)[1] = "literal" \/ (final(v)[1] = "reference" /\ final(v)[2] \in resources)
<1>5. \A v \in NetworkValues(o) : sound(v) /\ sound(Token(v))
  BY <1>2, <1>3
<1>6. \A v \in SharedValues(o) : sound(Token(v))
  BY <1>4
<1>7. \A v \in MachineKey(o) : sound(v)
  BY <1>1
<1> HIDE DEF sound
<1>8. \A v \in Tokens(o) : sound(v)
  BY <1>5, <1>6 DEF Tokens
<1>9. \A v \in MachineKey(o) \cup Tokens(o) \cup NetworkValues(o) : sound(v)
  BY <1>5, <1>7, <1>8
<1>10. /\ Document(o).values = {final(v) : v \in MachineKey(o) \cup Tokens(o) \cup NetworkValues(o)}
      /\ Document(o).key = {final(v) : v \in MachineKey(o)}
      /\ Document(o).resources = resources
  BY DEF Document, final, resources
<1> QED
  BY <1>1, <1>9, <1>10 DEF Stands, sound

-----------------------------------------------------------------------------
(* What an accepted request is known to be.                                *)
LEMMA FormAccepted ==
  ASSUME NEW o, FirstRefusal(Form(o)) = "ok"
  PROVE  DOMAIN o.roles # {} => R(o).roles
<1> DEFINE checks == Form(o)
<1>1. DOMAIN checks = 1..6 /\ \A i \in 1..6 : checks[i][1] # "ok"
  BY DEF Form, Bad
<1>2. checks[6][2] <=> DOMAIN o.roles # {} /\ ("roles" \in o.faults \/ ~R(o).roles)
  BY DEF Form
<1> HIDE DEF checks
<1>3. Passes(checks)
  BY <1>1, OkMeansPasses DEF checks
<1>4. ~checks[6][2]
  BY <1>1, <1>3 DEF Passes
<1> QED
  BY <1>2, <1>4

(* An accepted network mode is one of the provider's, a reference belongs   *)
(* to a discovered network, and a public machine has no roles.              *)
LEMMA NetworkingAccepted ==
  ASSUME NEW o, NEW c, FirstRefusal(Networking(o, c)) = "ok"
  PROVE  /\ o.mode \in R(o).modes
         /\ o.id # {} => R(o).reference /\ o.mode = "discovered"
         /\ o.mode = "none" => DOMAIN o.roles = {}
<1> DEFINE checks == Networking(o, c)
<1>1. DOMAIN checks = 1..9 /\ \A i \in 1..9 : checks[i][1] # "ok"
  BY DEF Networking, Bad, PublicOnly
<1>2. checks[4][2] <=> o.mode \notin R(o).modes
  BY DEF Networking
<1>3. checks[5][2] <=> o.id # {} /\ ~(R(o).reference /\ o.mode = "discovered" /\ o.id = {"uuid"})
  BY DEF Networking
<1>4. checks[7][2] <=> /\ o.mode = "none"
                       /\ NamesNetwork(o) \/ DOMAIN o.roles # {} \/ \E rule \in o.rules : PrivateRule(rule)
  BY DEF Networking, PublicOnly
<1> HIDE DEF checks
<1>5. Passes(checks)
  BY <1>1, OkMeansPasses DEF checks
<1>6. ~checks[4][2] /\ ~checks[5][2] /\ ~checks[7][2]
  BY <1>1, <1>5 DEF Passes
<1> QED
  BY <1>2, <1>3, <1>4, <1>6

(* Each group grants a granted request.                                     *)
LEMMA GrantsParts ==
  ASSUME NEW port, NEW o, NEW c, Grants(port, o, c)
  PROVE  /\ FirstRefusal(Form(o)) = "ok" /\ FirstRefusal(Networking(o, c)) = "ok"
         /\ FirstRefusal(Ingress(port, o)) = "ok" /\ FirstRefusal(Sharing(o, c)) = "ok"
         /\ FirstRefusal(Closing(o, c)) = "ok"
<1>1. {"form", "networking", "ingress", "sharing", "closing"} \subseteq Names \ {"policies"}
  BY DEF Names
<1>2. \A name \in {"form", "networking", "ingress", "sharing", "closing"} :
        FirstRefusal(Groups(port, o, c, << >>)[name]) = "ok"
  BY <1>1 DEF Grants
<1> QED
  BY <1>2 DEF Groups

(* The stage of a granted request, however its network, its discovery, its  *)
(* roles and its static address change the name, has a template.            *)
LEMMA StageHasTemplate ==
  ASSUME NEW port \in Ports, NEW o, IsRequest(o), NEW c, c.stage \in {"shared", "node"}, Grants(port, o, c)
  PROVE  Stage(port, o, c) \in Templates(o.provider)
<1> DEFINE recipe == R(o)
           templates == Templates(o.provider)
           base == Base(o, c)
           network == Referenced(o, Network(o, base))
           image == IF Discovers(o, c) THEN "node-discovery" ELSE network
           roles == Roles(o, c, image)
           referenced == o.id # {}
           in(mode, stage) == IF mode \in DOMAIN recipe.networkStages
                              THEN Through(recipe.networkStages[mode], stage) ELSE stage
           by(mode, reference, stage) ==
             IF reference THEN Through(recipe.referenceStages, in(mode, stage)) ELSE in(mode, stage)
           sharedStages == {"shared"} \cup (IF recipe.registers THEN {"shared-keygen"} ELSE {})
<1>1. Complete(recipe, templates)
  BY RecipesAssumption DEF IsRequest, Topology, R
<1>2. /\ DOMAIN o.roles # {} => recipe.roles
      /\ o.mode \in recipe.modes
      /\ o.id # {} => recipe.reference /\ o.mode = "discovered"
      /\ o.mode = "none" => DOMAIN o.roles = {}
  BY GrantsParts, FormAccepted, NetworkingAccepted
<1>3. network = by(o.mode, referenced, base)
  BY DEF Referenced, Network
<1>4. referenced \in BOOLEAN /\ (referenced => recipe.reference /\ o.mode = "discovered")
  BY <1>2
<1>5. /\ by(o.mode, referenced, "node") \in templates
      /\ \A stage \in sharedStages :
           /\ by(o.mode, referenced, stage) \in templates
           /\ o.mode # "none" /\ recipe.roles =>
                /\ by(o.mode, referenced, stage) \in DOMAIN recipe.roleStages
                /\ recipe.roleStages[by(o.mode, referenced, stage)] \in templates
  BY <1>1, <1>2, <1>4 DEF Complete
<1>6. /\ \A stage \in templates : Through(recipe.dynamicStages, stage) \in templates
      /\ recipe.discovers => "node-discovery" \in templates
  BY <1>1 DEF Complete
<1> HIDE DEF by, in, recipe, templates, referenced
<1>7. roles \in templates
  <2>1. CASE c.stage = "node"
    <3>1. base = "node"
      BY <2>1 DEF Base
    <3>2. image \in templates
      BY <1>3, <1>5, <1>6, <3>1 DEF Discovers, recipe
    <3> QED
      BY <2>1, <3>2 DEF Roles
  <2>2. CASE c.stage = "shared"
    <3>1. base \in sharedStages
      BY <2>2 DEF Base, recipe
    <3>2. image = network
      BY <2>2 DEF Discovers
    <3>3. CASE DOMAIN o.roles = {}
      BY <1>3, <1>5, <2>2, <3>1, <3>2, <3>3 DEF Roles
    <3>4. CASE DOMAIN o.roles # {}
      <4>1. network \in DOMAIN recipe.roleStages /\ recipe.roleStages[network] \in templates
        BY <1>2, <1>3, <1>5, <3>1, <3>4
      <4> QED
        BY <2>2, <3>2, <3>4, <4>1 DEF Roles, recipe
    <3> QED
      BY <3>3, <3>4
  <2> QED
    BY <2>1, <2>2
<1>8. BlueStage(o, c) = Dynamic(o, roles)
  BY DEF BlueStage
<1>9. Dynamic(o, roles) \in templates
  BY <1>6, <1>7 DEF Dynamic, recipe
<1> QED
  BY <1>8, <1>9, StagesAgree DEF templates

-----------------------------------------------------------------------------
(* The machine of a role, as it is tried and as it is asked for.           *)
LEMMA ClosingPasses ==
  ASSUME NEW o, NEW c
  PROVE  FirstRefusal(Closing(o, c)) = "ok" <=>
            /\ ~(o.static = "junk" /\ DOMAIN R(o).dynamicStages # {})
            /\ ~Unbound(o, c)
            /\ "literal" \notin o.faults
<1> DEFINE checks == Closing(o, c)
<1>1. DOMAIN checks = 1..3 /\ \A i \in 1..3 : checks[i][1] # "ok"
  BY DEF Closing, Bad
<1>2. checks[1][2] <=> o.static = "junk" /\ DOMAIN R(o).dynamicStages # {}
  BY DEF Closing
<1>3. checks[2][2] <=> Unbound(o, c)
  BY DEF Closing
<1>4. checks[3][2] <=> "literal" \in o.faults
  BY DEF Closing, Bad
<1> HIDE DEF checks
<1>5. Passes(checks) <=> ~checks[1][2] /\ ~checks[2][2] /\ ~checks[3][2]
  BY <1>1 DEF Passes
<1>6. FirstRefusal(checks) = "ok" <=> Passes(checks)
  BY <1>1, OkMeansPasses
<1> QED
  BY <1>2, <1>3, <1>4, <1>5, <1>6 DEF checks

(* Nine checks make the networking group.                                   *)
LEMMA NetworkingPasses ==
  ASSUME NEW o, NEW c
  PROVE  FirstRefusal(Networking(o, c)) = "ok" <=>
           \A i \in 1..9 : ~Networking(o, c)[i][2]
<1> DEFINE checks == Networking(o, c)
<1>1. DOMAIN checks = 1..9 /\ \A i \in 1..9 : checks[i][1] # "ok"
  BY DEF Networking, Bad, PublicOnly
<1> HIDE DEF checks
<1>2. FirstRefusal(checks) = "ok" <=> Passes(checks)
  BY <1>1, OkMeansPasses
<1>3. Passes(checks) <=> \A i \in 1..9 : ~checks[i][2]
  BY <1>1 DEF Passes
<1> QED
  BY <1>2, <1>3 DEF checks

(* A machine whose node_id fits is named if the shared stage was; the rest  *)
(* of the group does not look at the call.                                  *)
LEMMA MachineNamed ==
  ASSUME NEW o, NEW c, c.stage = "node", FirstRefusal(Networking(o, SharedCall)) = "ok"
  PROVE  FirstRefusal(Networking(o, c)) = "ok" <=> c.unit.fits
<1>1. \A i \in 2..9 : Networking(o, c)[i] = Networking(o, SharedCall)[i]
  BY DEF Networking
<1>2. Networking(o, c)[1][2] <=> "name" \in o.faults \/ ~c.unit.fits
  BY DEF Networking
<1>3. Networking(o, SharedCall)[1][2] <=> "name" \in o.faults
  BY DEF Networking, SharedCall
<1>4. \A i \in 1..9 : ~Networking(o, SharedCall)[i][2]
  BY NetworkingPasses
<1>5. (\A i \in 1..9 : ~Networking(o, c)[i][2]) <=> c.unit.fits
  <2>1. 1 \in 1..9 /\ \A i \in 1..9 : i = 1 \/ i \in 2..9
    OBVIOUS
  <2> QED
    BY <1>1, <1>2, <1>3, <1>4, <2>1
<1> QED
  BY <1>5, NetworkingPasses

(* On OCI a machine is placed if its trial was and, with domains to choose  *)
(* from, its node_id ends in a number.                                      *)
LEMMA MachinePlaced ==
  ASSUME NEW o, NEW c, NEW trial, NEW tried, c.stage = "node", tried.stage = "node",
         trial.provider = o.provider, trial.cpus = o.cpus, trial.domains = o.domains, trial.faults = o.faults,
         FirstRefusal(Placement(trial, tried)) = "ok"
  PROVE  FirstRefusal(Placement(o, c)) = "ok"
           <=> (o.provider = "oci" /\ o.domains # << >> => c.unit.index # {})
<1>1. CASE o.provider # "oci"
  BY <1>1, NoneRefuses DEF Placement
<1>2. CASE o.provider = "oci"
  <2> DEFINE one == Placement(o, c)
             two == Placement(trial, tried)
  <2>1. /\ DOMAIN one = 1..3 /\ \A i \in 1..3 : one[i][1] # "ok"
        /\ DOMAIN two = 1..3 /\ \A i \in 1..3 : two[i][1] # "ok"
    BY <1>2 DEF Placement
  <2>2. /\ one[1][2] <=> o.cpus # "one"
        /\ one[2][2] <=> o.domains # << >> /\ "domains" \in o.faults
        /\ one[3][2] <=> o.domains # << >> /\ c.unit.index = {}
        /\ two[1][2] <=> o.cpus # "one"
        /\ two[2][2] <=> o.domains # << >> /\ "domains" \in o.faults
    BY <1>2 DEF Placement
  <2> HIDE DEF one, two
  <2>3. (FirstRefusal(one) = "ok" <=> Passes(one)) /\ (FirstRefusal(two) = "ok" <=> Passes(two))
    BY <2>1, OkMeansPasses
  <2>4. Passes(one) <=> ~one[1][2] /\ ~one[2][2] /\ ~one[3][2]
    BY <2>1 DEF Passes
  <2>5. Passes(two) => ~two[1][2] /\ ~two[2][2]
    BY <2>1 DEF Passes
  <2>6. FirstRefusal(two) = "ok"
    BY DEF two
  <2>7. FirstRefusal(one) = "ok" <=> (o.domains # << >> => c.unit.index # {})
    BY <2>2, <2>3, <2>4, <2>5, <2>6
  <2> QED
    BY <1>2, <2>7 DEF one
<1> QED
  BY <1>1, <1>2

(* What the shared stage tried for a role with stand-ins for its results is *)
(* granted with the results exactly if the machine's own node_id can be     *)
(* used.                                                                    *)
LEMMA RoleGranted ==
  ASSUME NEW port \in Ports, NEW o, IsRequest(o), GrantsAll(port, o, SharedCall), NEW role \in DOMAIN o.roles,
         NEW unit
  PROVE  Grants(port, o, MachineCall(role, unit, Outputs(o))) <=> Placeable(o, unit)
<1> DEFINE trial == Trial(o, role)
           tried == MachineCall(role, o.unit, StandIns(o))
           due == MachineCall(role, unit, Outputs(o))
           first == Groups(port, o, SharedCall, << >>)
           second == Groups(port, trial, tried, << >>)
           groups == Groups(port, o, due, << >>)
<1>1. /\ tried.stage = "node" /\ tried.role = role /\ tried.shared = StandIns(o)
      /\ due.stage = "node" /\ due.role = role /\ due.unit = unit /\ due.shared = Outputs(o)
      /\ SharedCall.stage = "shared"
  BY DEF MachineCall, SharedCall
<1>2. Grants(port, o, SharedCall) /\ Grants(port, trial, tried)
  BY <1>1 DEF GrantsAll
<1>3. /\ trial.provider = o.provider /\ trial.keyMode = o.keyMode /\ trial.ids = o.ids
      /\ trial.reference = o.reference /\ trial.roles = o.roles /\ trial.settings = o.settings
      /\ trial.mode = o.mode /\ trial.cpus = o.cpus /\ trial.domains = o.domains
      /\ trial.faults = o.faults /\ trial.static = o.static
  BY TrialFields DEF IsRequest
<1>4. \A name \in {"recipe", "form", "peers", "ingress", "created", "range", "inside", "subrange",
                   "subnet", "address", "rules", "options"} : groups[name] = first[name]
  BY DEF Groups
<1>5. groups.role = second.role
  <2>1. RoleChecks(port, o, due) = RoleChecks(port, trial, tried)
    BY <1>1, <1>3 DEF RoleChecks, Bad, R
  <2> QED
    BY <2>1 DEF Groups
<1>6. R(trial) = R(o) /\ (RegistrationOwned(trial) <=> RegistrationOwned(o))
  BY <1>3 DEF R, RegistrationOwned
<1>7. FirstRefusal(groups["sharing"]) = "ok"
  <2>1. FirstRefusal(Sharing(trial, tried)) = "ok"
    BY <1>2, GrantsParts
  <2>2. /\ {"protect", "shared", "ids"} \cap o.faults = {}
        /\ R(o).registers => Ids(trial, tried) # {}
    BY <1>1, <1>3, <1>6, <2>1, SharingPasses
  <2>3. /\ Outputs(o).provider = o.provider /\ DOMAIN Outputs(o).firewalls = DOMAIN o.roles
        /\ R(o).tags => DOMAIN Outputs(o).tags = DOMAIN o.roles
        /\ RegistrationOwned(o) /\ R(o).registers => Outputs(o).key # {}
    BY DEF Outputs
  <2>4. ASSUME R(o).registers PROVE Ids(o, due) # {}
    <3>1. CASE RegistrationOwned(o)
      BY <1>1, <2>3, <2>4, <3>1 DEF Ids, Primary
    <3>2. CASE ~RegistrationOwned(o)
      BY <1>3, <1>6, <2>2, <2>4, <3>2 DEF Ids
    <3> QED
      BY <3>1, <3>2
  <2>5. FirstRefusal(Sharing(o, due)) = "ok"
    BY <1>1, <2>2, <2>3, <2>4, SharingPasses
  <2> QED
    BY <2>5 DEF Groups
<1>8. FirstRefusal(groups["closing"]) = "ok"
  <2>1. FirstRefusal(Closing(o, SharedCall)) = "ok"
    BY <1>2, GrantsParts
  <2>2. /\ ~(o.static = "junk" /\ DOMAIN R(o).dynamicStages # {})
        /\ ~Unbound(o, SharedCall) /\ "literal" \notin o.faults
    BY <2>1, ClosingPasses
  <2>3. "setting" \notin o.faults
    BY <2>2 DEF Unbound
  <2>4. Outputs(o).network <=> o.mode # "none"
    BY DEF Outputs
  <2>5. BoundFirewall(o, due) # {}
    <3>1. role \in DOMAIN Outputs(o).firewalls
      BY DEF Outputs
    <3>2. BoundFirewall(o, due) = {Outputs(o).firewalls[r] : r \in {role} \cap DOMAIN Outputs(o).firewalls}
      BY <1>1 DEF BoundFirewall
    <3>3. Outputs(o).firewalls[role] \in BoundFirewall(o, due)
      BY <3>1, <3>2
    <3> QED
      BY <3>3
  <2>6. ~Unbound(o, due)
    BY <1>1, <2>3, <2>4, <2>5 DEF Unbound
  <2>7. FirstRefusal(Closing(o, due)) = "ok"
    BY <2>2, <2>6, ClosingPasses
  <2> QED
    BY <2>7 DEF Groups
<1>9. /\ \A name \in Names \ {"policies"} : FirstRefusal(first[name]) = "ok" /\ FirstRefusal(second[name]) = "ok"
  BY <1>2 DEF Grants
<1>10. FirstRefusal(groups["networking"]) = "ok" <=> unit.fits
  <2>1. FirstRefusal(Networking(o, SharedCall)) = "ok"
    BY <1>2, GrantsParts
  <2>2. FirstRefusal(Networking(o, due)) = "ok" <=> due.unit.fits
    BY <1>1, <2>1, MachineNamed
  <2> QED
    BY <1>1, <2>2 DEF Groups
<1>11. FirstRefusal(groups["placement"]) = "ok" <=> (o.provider = "oci" /\ o.domains # << >> => unit.index # {})
  <2>1. FirstRefusal(Placement(trial, tried)) = "ok"
    BY <1>9 DEF Groups, Names
  <2> HIDE DEF trial, tried, due
  <2>2. FirstRefusal(Placement(o, due)) = "ok"
          <=> (o.provider = "oci" /\ o.domains # << >> => due.unit.index # {})
    BY <1>1, <1>3, <2>1, MachinePlaced
  <2> QED
    BY <1>1, <2>2 DEF Groups
<1> HIDE DEF first, second, groups
<1>12. (\A name \in Names \ {"policies"} : FirstRefusal(groups[name]) = "ok") <=> Placeable(o, unit)
  <2>1. \A name \in Names \ {"policies", "networking", "placement"} : FirstRefusal(groups[name]) = "ok"
    BY <1>4, <1>5, <1>7, <1>8, <1>9 DEF Names
  <2>2. {"networking", "placement"} \subseteq Names \ {"policies"}
    BY DEF Names
  <2> QED
    BY <1>10, <1>11, <2>1, <2>2 DEF Placeable
<1> QED
  BY <1>12 DEF Grants, groups

(* A machine's stage tries no role policies: it is granted exactly when     *)
(* none of its own checks refuses, and then with the granted answer.        *)
LEMMA NodeCallOk ==
  ASSUME NEW port \in Ports, NEW o, NEW role, NEW unit, NEW results
  PROVE  LET call == MachineCall(role, unit, results)
         IN /\ Request(port, o, call).why = "ok" <=> Grants(port, o, call)
            /\ Request(port, o, call).why = "ok" => Request(port, o, call) = Granted(port, o, call)
<1>1. MachineCall(role, unit, results).stage # "shared"
  BY DEF MachineCall
<1>2. GrantsAll(port, o, MachineCall(role, unit, results)) <=> Grants(port, o, MachineCall(role, unit, results))
  BY <1>1 DEF GrantsAll
<1> QED
  BY <1>2, RequestOk

(* The machine's stage of a single node, once granted.                      *)
LEMMA NodeStage ==
  ASSUME NEW port \in Ports, NEW n, Stages(port, n).node.why = "ok"
  PROVE  Stages(port, n).node = Granted(port, n, MachineCall("", n.unit, Promised(n)))
<1>1. Stages(port, n).node = Request(port, n, MachineCall("", n.unit, Promised(n)))
  BY DEF Stages
<1>2. ASSUME NEW role, NEW unit, NEW results, Request(port, n, MachineCall(role, unit, results)).why = "ok"
      PROVE  Request(port, n, MachineCall(role, unit, results)) = Granted(port, n, MachineCall(role, unit, results))
  BY <1>2, NodeCallOk
<1> QED
  BY <1>1, <1>2

(* A machine has the firewall, the tag and the keys of the results.         *)
BoundTo(results, o, machine, role) ==
  /\ results.provider = o.provider
  /\ DOMAIN o.roles # {} => /\ role \in DOMAIN results.firewalls
                            /\ machine.firewall = {results.firewalls[role]}
                            /\ R(o).tags => machine.tag = results.tags[role]
  /\ DOMAIN o.roles = {} => /\ machine.firewall = results.firewall
                            /\ R(o).firewallBound => results.firewall # {}
  /\ o.mode # "none" /\ o.provider # "oci" => results.network
  /\ RegistrationOwned(o) /\ R(o).registers => machine.keys = results.key

(* A granted machine is bound to the results it was planned with, if they   *)
(* hold the key of a registration the stage owns.                           *)
LEMMA MachineBound ==
  ASSUME NEW port \in Ports, NEW o, NEW role, NEW unit, NEW results,
         RegistrationOwned(o) /\ R(o).registers /\ results.provider = o.provider => results.key # {},
         Request(port, o, MachineCall(role, unit, results)).why = "ok"
  PROVE  BoundTo(results, o, Request(port, o, MachineCall(role, unit, results)), role)
<1> DEFINE call == MachineCall(role, unit, results)
           machine == Request(port, o, call)
<1>1. call.stage = "node" /\ call.role = role /\ call.shared = results
  BY DEF MachineCall
<1>2. /\ FirstRefusal(Sharing(o, call)) = "ok" /\ FirstRefusal(Closing(o, call)) = "ok"
      /\ machine = Granted(port, o, call)
  BY NodeCallOk, GrantsParts
<1>3. /\ machine.firewall = BoundFirewall(o, call) /\ machine.tag = BoundTag(o, call)
      /\ machine.keys = Ids(o, call)
  BY <1>2 DEF Granted
<1>4. /\ results.provider = o.provider
      /\ DOMAIN o.roles # {} => /\ role \in DOMAIN results.firewalls
                                /\ R(o).tags => role \in DOMAIN results.tags
  BY <1>1, <1>2, SharingPasses
<1>5. DOMAIN o.roles # {} => machine.firewall = {results.firewalls[role]}
  BY <1>1, <1>3, <1>4 DEF BoundFirewall
<1>6. DOMAIN o.roles # {} /\ R(o).tags => machine.tag = results.tags[role]
  BY <1>1, <1>3, <1>4 DEF BoundTag
<1>7. DOMAIN o.roles = {} => machine.firewall = results.firewall
  BY <1>1, <1>3 DEF BoundFirewall
<1>8. RegistrationOwned(o) /\ R(o).registers => machine.keys = results.key
  BY <1>1, <1>3, <1>4 DEF Ids, Primary
<1>9. /\ o.mode # "none" /\ o.provider # "oci" => results.network
      /\ R(o).firewallBound => machine.firewall # {}
  BY <1>1, <1>2, <1>3, ClosingPasses DEF Unbound
<1> HIDE DEF call, machine
<1>10. BoundTo(results, o, machine, role)
  BY <1>4, <1>5, <1>6, <1>7, <1>8, <1>9 DEF BoundTo
<1> QED
  BY <1>10 DEF call, machine

-----------------------------------------------------------------------------
(* What an accepted request's rules open.                                  *)
LEMMA IngressAccepted ==
  ASSUME NEW port, NEW o, FirstRefusal(Ingress(port, o)) = "ok"
  PROVE  /\ \A one, other \in o.rules : one.id = other.id => one = other
         /\ \A rule \in o.rules : IF rule.protocol = "icmp" THEN rule.lo = 0 /\ rule.hi = 0
                                  ELSE 1 <= rule.lo /\ rule.lo <= rule.hi /\ rule.hi <= 65535
         /\ \A rule \in o.rules : PeerRule(rule) => R(o).roles
         /\ \A rule \in o.rules : \A source \in rule.sources :
              ~IsPrivate(source) => Cidr(port, source, R(o).ipv6) \notin {"cidr", "family"}
<1> DEFINE checks == Ingress(port, o)
           public == {pair \in o.rules \X UNION {rule.sources : rule \in o.rules} :
                        pair[2] \in pair[1].sources /\ ~IsPrivate(pair[2])}
<1>1. DOMAIN checks = 1..8 /\ \A i \in 1..8 : checks[i][1] # "ok"
  BY DEF Ingress, Bad
<1>2. checks[2][2] <=> \E one, other \in o.rules : one # other /\ one.id = other.id
  BY DEF Ingress
<1>3. checks[3][2] <=> \E rule \in o.rules :
                         ~IF rule.protocol = "icmp" THEN rule.lo = 0 /\ rule.hi = 0
                          ELSE 1 <= rule.lo /\ rule.lo <= rule.hi /\ rule.hi <= 65535
  BY DEF Ingress
<1>4. checks[4][2] <=> \E rule \in o.rules : PeerRule(rule) /\
                         (~R(o).roles \/ rule.peers = {} \/ ~ rule.peers \subseteq DOMAIN o.roles)
  BY DEF Ingress
<1>5. checks[6][2] <=> \E pair \in public : Cidr(port, pair[2], R(o).ipv6) = "cidr"
  BY DEF Ingress
<1>6. checks[7][2] <=> \E pair \in public : Cidr(port, pair[2], R(o).ipv6) = "family"
  BY DEF Ingress
<1> HIDE DEF checks
<1>7. Passes(checks)
  BY <1>1, OkMeansPasses DEF checks
<1>8. ~checks[2][2] /\ ~checks[3][2] /\ ~checks[4][2] /\ ~checks[6][2] /\ ~checks[7][2]
  BY <1>1, <1>7 DEF Passes
<1>9. ASSUME NEW rule \in o.rules, NEW source \in rule.sources, ~IsPrivate(source)
      PROVE  Cidr(port, source, R(o).ipv6) \notin {"cidr", "family"}
  <2>1. <<rule, source>> \in public
    BY <1>9
  <2>2. <<rule, source>>[2] = source
    OBVIOUS
  <2> HIDE DEF public
  <2> QED
    BY <1>5, <1>6, <1>8, <2>1, <2>2
<1> QED
  BY <1>2, <1>3, <1>4, <1>8, <1>9

(* The parts of an expanded rule, and where each comes from.                *)
SourceRange(o, source) ==
  IF ~IsPrivate(source) THEN {source.name}
  ELSE IF o.provider = "digitalocean" THEN {}
  ELSE IF o.provider = "oci" THEN {<<"private">>} ELSE {c.name : c \in NetworkCidr(o)}
PeerEntry(rule, peer) ==
  [key |-> <<rule.id, "peer", peer.ip>>, rule |-> rule, range |-> {<<"host", peer.ip>>}, private |-> FALSE]
SourceEntry(o, rule, source) ==
  [key |-> <<rule.id, source.name>>, rule |-> rule, private |-> IsPrivate(source),
   range |-> SourceRange(o, source)]
ByPeer(o, e) ==
  \E rule \in o.rules, peer \in o.peers :
    PeerRule(rule) /\ peer.role \in rule.peers /\ e = PeerEntry(rule, peer)
BySource(o, e) == \E rule \in o.rules : \E source \in rule.sources : e = SourceEntry(o, rule, source)

(* The entries a request expands to come from its peers and from its        *)
(* sources.                                                                 *)
LEMMA Expansion ==
  ASSUME NEW o, NEW e
  PROVE  e \in Expanded(o) <=> ByPeer(o, e) \/ BySource(o, e)
  BY DEF Expanded, ByPeer, BySource, PeerEntry, SourceEntry, SourceRange, PeerRule

(* The elements of a concatenation.                                         *)
LEMMA ConcatenatedElements ==
  ASSUME NEW S, NEW s \in Seq(S), NEW t \in Seq(S)
  PROVE  /\ Len(s) \in Nat /\ Len(t) \in Nat /\ Len(s \o t) = Len(s) + Len(t)
         /\ \A i \in 1..Len(s) : (s \o t)[i] = s[i]
         /\ \A i \in 1..Len(t) : (s \o t)[Len(s) + i] = t[i]
<1> DEFINE whole == s \o t
<1>1. /\ Len(whole) = Len(s) + Len(t)
      /\ \A i \in 1..(Len(s) + Len(t)) : whole[i] = IF i <= Len(s) THEN s[i] ELSE t[i - Len(s)]
  BY ConcatProperties
<1>2. Len(s) \in Nat /\ Len(t) \in Nat
  BY LenProperties
<1> HIDE DEF whole
<1>3. ASSUME NEW i \in 1..Len(t) PROVE whole[Len(s) + i] = t[i]
  <2>1. /\ Len(s) + i \in 1..(Len(s) + Len(t))
        /\ ~(Len(s) + i <= Len(s)) /\ (Len(s) + i) - Len(s) = i
    BY <1>2
  <2> QED
    BY <1>1, <2>1
<1>4. \A i \in 1..Len(s) : whole[i] = s[i]
  BY <1>1, <1>2
<1> QED
  BY <1>1, <1>2, <1>3, <1>4 DEF whole

(* Azure names a resource by the rule's identity and the fields of the     *)
(* source's address: five fields, or the word for the private network.     *)
Texts == STRING \cup {"private"}
PrivateName == <<"private">>
AzureName(name) == name = PrivateName \/ (Len(name) = 5 /\ name[5] # "private")

(* The name of the private source is a single text.                         *)
LEMMA PrivateNameShort == PrivateName \in Seq(Texts) /\ Len(PrivateName) = 1 /\ PrivateName[1] = "private"
<1>1. \A x \in Texts : <<x>> \in Seq(Texts)
  OBVIOUS
<1>2. "private" \in Texts
  BY DEF Texts
<1>3. PrivateName \in Seq(Texts)
  BY <1>1, <1>2 DEF PrivateName
<1> QED
  BY <1>3 DEF PrivateName

(* A sequence of strings is one of texts.                                   *)
LEMMA TextsOfStrings ==
  ASSUME NEW s \in Seq(STRING)
  PROVE  s \in Seq(Texts)
  BY DEF Texts

(* The source of an accepted rule has a name of this kind.                  *)
LEMMA AzureNames ==
  ASSUME NEW port \in Ports, NEW source, PublicSource(source) \/ PrivateSource(source),
         ~IsPrivate(source) => Cidr(port, source, FALSE) \notin {"cidr", "family"}
  PROVE  source.name \in Seq(Texts) /\ AzureName(source.name)
<1>1. CASE PrivateSource(source)
  BY <1>1, PrivateNameShort DEF PrivateSource, PrivateName, AzureName
<1>2. CASE PublicSource(source)
  <2>1. source \in Ranges /\ ~IsPrivate(source)
    BY <1>2 DEF PublicSource, Ranges, IsPrivate
  <2>2. BlueCidr(source, FALSE) \notin {"cidr", "family"}
    BY <2>1, CidrsAgree
  <2>3. source.family = 4 /\ source.plain /\ source.prefix = "digits"
    BY <2>2 DEF BlueCidr
  <2>4. source.name \in Seq(STRING)
    BY <2>1 DEF Ranges
  <2> QED
    BY <1>2, <2>3, <2>4, TextsOfStrings DEF PublicSource, AzureName
<1> QED
  BY <1>1, <1>2

(* The last field of a name tells how long the name is.                     *)
LEMMA AzureLengths ==
  ASSUME NEW m, NEW n, AzureName(m), AzureName(n)
  PROVE  /\ Len(m) # 0 /\ Len(n) # 0
         /\ m[Len(m)] = n[Len(n)] => Len(m) = Len(n)
<1> DEFINE sized(name) == \/ Len(name) = 1 /\ name[1] = "private"
                          \/ Len(name) = 5 /\ name[5] # "private"
<1>1. \A name : AzureName(name) => sized(name)
  BY PrivateNameShort DEF AzureName
<1>2. sized(m) /\ sized(n)
  BY <1>1
<1> QED
  BY <1>2

(* So the identity of the rule and the name of the source can be told from  *)
(* the one name they are joined to.                                         *)
LEMMA NamesApart ==
  ASSUME NEW S, NEW s \in Seq(S), NEW t \in Seq(S), NEW u \in Seq(S), NEW v \in Seq(S), s \o t = u \o v
  PROVE  AzureName(t) /\ AzureName(v) => s = u /\ t = v
<1> DEFINE whole == s \o t
           other == u \o v
<1>1. /\ Len(s) \in Nat /\ Len(t) \in Nat /\ Len(whole) = Len(s) + Len(t)
      /\ \A i \in 1..Len(s) : whole[i] = s[i]
      /\ \A i \in 1..Len(t) : whole[Len(s) + i] = t[i]
  BY ConcatenatedElements
<1>2. /\ Len(u) \in Nat /\ Len(v) \in Nat /\ Len(other) = Len(u) + Len(v)
      /\ \A i \in 1..Len(u) : other[i] = u[i]
      /\ \A i \in 1..Len(v) : other[Len(u) + i] = v[i]
  BY ConcatenatedElements
<1>3. whole = other
  OBVIOUS
<1> HIDE DEF whole, other
<1>4. ASSUME Len(t) # 0, Len(v) # 0 PROVE t[Len(t)] = v[Len(v)]
  <2>1. whole[Len(s) + Len(t)] = t[Len(t)] /\ other[Len(u) + Len(v)] = v[Len(v)]
    BY <1>1, <1>2, <1>4
  <2> QED
    BY <1>1, <1>2, <1>3, <2>1
<1>5. ASSUME Len(t) = Len(v) PROVE s = u /\ t = v
  <2>1. Len(s) = Len(u)
    BY <1>1, <1>2, <1>3, <1>5
  <2>2. \A i \in 1..Len(s) : s[i] = u[i]
    BY <1>1, <1>2, <1>3, <2>1
  <2>3. \A i \in 1..Len(t) : t[i] = v[i]
    BY <1>1, <1>2, <1>3, <1>5, <2>1
  <2> QED
    BY <1>5, <2>1, <2>2, <2>3, SeqEqual
<1> QED
  BY <1>4, <1>5, AzureLengths, Zenon

(* No two entries of an accepted request share the key under which a        *)
(* template keeps them.                                                     *)
LEMMA KeysDistinct ==
  ASSUME NEW port \in Ports, NEW o, IsRequest(o), FirstRefusal(Ingress(port, o)) = "ok",
         NEW e \in Expanded(o), NEW f \in Expanded(o), Key(o.provider, e.key) = Key(o.provider, f.key)
  PROVE  e = f
<1>1. /\ \A one, other \in o.rules : one.id = other.id => one = other
      /\ \A rule \in o.rules : PeerRule(rule) => R(o).roles
      /\ \A rule \in o.rules : \A source \in rule.sources :
              ~IsPrivate(source) => Cidr(port, source, R(o).ipv6) \notin {"cidr", "family"}
  BY IngressAccepted
<1>2. /\ ByPeer(o, e) \/ BySource(o, e)
      /\ ByPeer(o, f) \/ BySource(o, f)
  BY Expansion
<1>3. \A rule \in o.rules : IsRule(rule)
  BY DEF IsRequest
<1>4. ASSUME e.key = f.key PROVE e = f
  <2>1. CASE ByPeer(o, e) /\ ByPeer(o, f)
    <3>1. PICK one \in o.rules, p \in o.peers : e = PeerEntry(one, p)
      BY <2>1 DEF ByPeer
    <3>2. PICK other \in o.rules, q \in o.peers : f = PeerEntry(other, q)
      BY <2>1 DEF ByPeer
    <3>3. one.id = other.id /\ p.ip = q.ip
      BY <1>4, <3>1, <3>2 DEF PeerEntry
    <3>4. one = other
      BY <1>1, <3>3
    <3> QED
      BY <3>1, <3>2, <3>3, <3>4 DEF PeerEntry
  <2>2. CASE BySource(o, e) /\ BySource(o, f)
    <3>1. PICK one \in o.rules : \E source \in one.sources : e = SourceEntry(o, one, source)
      BY <2>2 DEF BySource
    <3>2. PICK s \in one.sources : e = SourceEntry(o, one, s)
      BY <3>1
    <3>3. PICK other \in o.rules : \E source \in other.sources : f = SourceEntry(o, other, source)
      BY <2>2 DEF BySource
    <3>4. PICK t \in other.sources : f = SourceEntry(o, other, t)
      BY <3>3
    <3>5. one.id = other.id /\ s.name = t.name
      BY <1>4, <3>2, <3>4 DEF SourceEntry
    <3>6. one = other
      BY <1>1, <3>5
    <3>7. IsPrivate(s) <=> IsPrivate(t)
      <4>1. /\ PublicSource(s) \/ PrivateSource(s)
            /\ PublicSource(t) \/ PrivateSource(t)
        BY <1>3, <3>6 DEF IsRule
      <4>2. \A c : PublicSource(c) => ~IsPrivate(c) /\ c.name # <<"private">>
        BY DEF PublicSource, Ranges, IsPrivate
      <4>3. \A c : PrivateSource(c) => IsPrivate(c) /\ c.name = <<"private">>
        BY DEF PrivateSource, IsPrivate
      <4> QED
        BY <3>5, <4>1, <4>2, <4>3
    <3>8. SourceRange(o, s) = SourceRange(o, t)
      BY <3>5, <3>7 DEF SourceRange
    <3>9. IsPrivate(s) = IsPrivate(t)
      BY <3>7 DEF IsPrivate
    <3> QED
      BY <3>2, <3>4, <3>5, <3>6, <3>8, <3>9 DEF SourceEntry
  <2>3. ByPeer(o, e) => Len(e.key) = 3
    BY DEF ByPeer, PeerEntry
  <2>4. ByPeer(o, f) => Len(f.key) = 3
    BY DEF ByPeer, PeerEntry
  <2>5. BySource(o, e) => Len(e.key) = 2
    BY DEF BySource, SourceEntry
  <2>6. BySource(o, f) => Len(f.key) = 2
    BY DEF BySource, SourceEntry
  <2> QED
    BY <1>2, <1>4, <2>1, <2>2, <2>3, <2>4, <2>5, <2>6
<1>5. CASE o.provider # "azure"
  BY <1>4, <1>5 DEF Key
<1>6. CASE o.provider = "azure"
  <2>1. ~R(o).roles /\ ~R(o).ipv6
    BY <1>6, RecipesAssumption DEF IsRequest, Topology, R
  <2>2. BySource(o, e) /\ BySource(o, f)
    BY <1>1, <1>2, <2>1 DEF ByPeer
  <2>3. PICK one \in o.rules : \E source \in one.sources : e = SourceEntry(o, one, source)
    BY <2>2 DEF BySource
  <2>4. PICK s \in one.sources : e = SourceEntry(o, one, s)
    BY <2>3
  <2>5. PICK other \in o.rules : \E source \in other.sources : f = SourceEntry(o, other, source)
    BY <2>2 DEF BySource
  <2>6. PICK t \in other.sources : f = SourceEntry(o, other, t)
    BY <2>5
  <2>7. /\ e.key = <<one.id, s.name>> /\ f.key = <<other.id, t.name>>
        /\ one.id \in Seq(STRING) /\ other.id \in Seq(STRING)
    BY <1>3, <2>4, <2>6 DEF SourceEntry, IsRule
  <2>8. one.id \o s.name = other.id \o t.name
    <3>1. Flat(e.key) = Flat(f.key)
      BY <1>6 DEF Key
    <3>2. /\ e.key[1] = one.id /\ e.key[2] = s.name
          /\ f.key[1] = other.id /\ f.key[2] = t.name
      BY <2>7
    <3>3. e.key[1] \o e.key[2] = f.key[1] \o f.key[2]
      BY <3>1 DEF Flat
    <3> QED
      BY <3>2, <3>3
  <2>9. /\ s.name \in Seq(Texts) /\ t.name \in Seq(Texts)
        /\ AzureName(s.name) /\ AzureName(t.name)
    <3>1. /\ PublicSource(s) \/ PrivateSource(s)
          /\ PublicSource(t) \/ PrivateSource(t)
      BY <1>3 DEF IsRule
    <3>2. \A c, six : ~six => Cidr(port, c, six) = Cidr(port, c, FALSE)
      BY DEF Cidr, BlueCidr, GreenCidr, RedCidr
    <3>3. /\ ~IsPrivate(s) => Cidr(port, s, FALSE) \notin {"cidr", "family"}
          /\ ~IsPrivate(t) => Cidr(port, t, FALSE) \notin {"cidr", "family"}
      BY <1>1, <2>1, <3>2
    <3> QED
      BY <3>1, <3>3, AzureNames
  <2>10. one.id \in Seq(Texts) /\ other.id \in Seq(Texts)
    BY <2>7, TextsOfStrings
  <2>11. one.id = other.id /\ s.name = t.name
    BY <2>8, <2>9, <2>10, NamesApart
  <2> QED
    BY <1>4, <2>7, <2>11
<1> QED
  BY <1>5, <1>6

(* The traffic an entry of the expansion asks to be let in.                 *)
Traffic(e) == [protocol |-> e.rule.protocol, ports |-> <<e.rule.lo, e.rule.hi>>, from |-> e.range]

(* Every provider's form of an entry opens just this traffic.               *)
LEMMA EntryOpened ==
  ASSUME NEW provider, NEW e, e.rule.protocol \in {"tcp", "udp", "icmp"},
         e.rule.protocol = "icmp" => e.rule.lo = 0 /\ e.rule.hi = 0
  PROVE  Opened(Entry(provider, e)) = Traffic(e)
<1> DEFINE entry == Entry(provider, e)
           protocol == CASE entry.protocol = "1" -> "icmp" [] entry.protocol = "6" -> "tcp"
                         [] entry.protocol = "17" -> "udp" [] OTHER -> entry.protocol
<1>1. protocol = e.rule.protocol
  <2>1. CASE provider = "oci"
    <3>1. entry.protocol = (CASE e.rule.protocol = "icmp" -> "1" [] e.rule.protocol = "tcp" -> "6"
                             [] OTHER -> "17")
      BY <2>1 DEF Entry
    <3> HIDE DEF entry
    <3> QED
      BY <3>1
  <2>2. CASE provider # "oci"
    <3>1. entry.protocol = e.rule.protocol
      BY <2>2 DEF Entry
    <3> HIDE DEF entry
    <3> QED
      BY <3>1
  <2> QED
    BY <2>1, <2>2
<1>2. entry.from = e.range
  BY DEF Entry
<1>3. ASSUME e.rule.protocol # "icmp"
      PROVE  entry.ports[1] = e.rule.lo /\ entry.ports[Len(entry.ports)] = e.rule.hi
  <2>1. CASE provider \in {"aws", "yandex", "oci"} \/ e.rule.lo # e.rule.hi
    <3>1. entry.ports = <<e.rule.lo, e.rule.hi>>
      BY <1>3, <2>1 DEF Entry
    <3> HIDE DEF entry
    <3> QED
      BY <3>1
  <2>2. CASE ~(provider \in {"aws", "yandex", "oci"} \/ e.rule.lo # e.rule.hi)
    <3>1. entry.ports = <<e.rule.lo>>
      BY <1>3, <2>2 DEF Entry
    <3> HIDE DEF entry
    <3> QED
      BY <2>2, <3>1
  <2> QED
    BY <2>1, <2>2
<1>4. Opened(entry) = [protocol |-> protocol, from |-> entry.from,
                       ports |-> IF protocol = "icmp" THEN <<0, 0>>
                                 ELSE <<entry.ports[1], entry.ports[Len(entry.ports)]>>]
  BY DEF Opened
<1> HIDE DEF entry, protocol
<1>5. CASE e.rule.protocol = "icmp"
  BY <1>1, <1>2, <1>4, <1>5 DEF Traffic, entry
<1>6. CASE e.rule.protocol # "icmp"
  BY <1>1, <1>2, <1>3, <1>4, <1>6 DEF Traffic, entry
<1> QED
  BY <1>5, <1>6

(* No entry is lost when the entries are kept by their keys.                *)
LEMMA RenderedExact ==
  ASSUME NEW port \in Ports, NEW o, IsRequest(o), FirstRefusal(Ingress(port, o)) = "ok"
  PROVE  Rendered(o) = {Entry(o.provider, e) : e \in Expanded(o)}
<1> DEFINE entries == Expanded(o)
           key(e) == Key(o.provider, e.key)
           under(k) == Entry(o.provider, CHOOSE e \in entries : key(e) = k)
<1>1. \A e, f \in entries : key(e) = key(f) => e = f
  BY KeysDistinct
<1>2. CASE o.provider = "hcloud"
  BY <1>2 DEF Rendered
<1>3. CASE o.provider # "hcloud"
  <2>1. Rendered(o) = {under(k) : k \in {key(e) : e \in entries}}
    BY <1>3 DEF Rendered
  <2> HIDE DEF entries, key
  <2>2. \A e \in entries : (CHOOSE f \in entries : key(f) = key(e)) = e
    BY <1>1
  <2>3. \A e \in entries : under(key(e)) = Entry(o.provider, e)
    BY <2>2
  <2> HIDE DEF under
  <2>4. {under(k) : k \in {key(e) : e \in entries}} = {Entry(o.provider, e) : e \in entries}
    BY <2>3
  <2> QED
    BY <2>1, <2>4 DEF entries
<1> QED
  BY <1>2, <1>3

(* An accepted request opens what was asked, no more and no less.           *)
LEMMA RulesOpened ==
  ASSUME NEW port \in Ports, NEW o, IsRequest(o), FirstRefusal(Ingress(port, o)) = "ok"
  PROVE  {Opened(x) : x \in Rendered(o)} = Asked(o, o.rules)
<1>1. \A rule \in o.rules : rule.protocol \in {"tcp", "udp", "icmp"}
                            /\ (rule.protocol = "icmp" => rule.lo = 0 /\ rule.hi = 0)
  BY IngressAccepted DEF IsRequest, IsRule
<1>2. \A e \in Expanded(o) : e.rule \in o.rules
  <2>1. ASSUME NEW e \in Expanded(o) PROVE e.rule \in o.rules
    <3>1. ByPeer(o, e) \/ BySource(o, e)
      BY Expansion
    <3> QED
      BY <3>1 DEF ByPeer, BySource, PeerEntry, SourceEntry
  <2> QED
    BY <2>1
<1>3. \A e \in Expanded(o) : Opened(Entry(o.provider, e)) = Traffic(e)
  BY <1>1, <1>2, EntryOpened
<1>4. {Opened(x) : x \in Rendered(o)} = {Traffic(e) : e \in Expanded(o)}
  <2>1. {Opened(x) : x \in {Entry(o.provider, e) : e \in Expanded(o)}}
          = {Opened(Entry(o.provider, e)) : e \in Expanded(o)}
    OBVIOUS
  <2> QED
    BY <1>3, <2>1, RenderedExact
<1> DEFINE peers(rule) == {[protocol |-> rule.protocol, ports |-> <<rule.lo, rule.hi>>,
                             from |-> {<<"host", peer.ip>>}] :
                             peer \in {p \in o.peers : PeerRule(rule) /\ p.role \in rule.peers}}
           sources(rule) == {[protocol |-> rule.protocol, ports |-> <<rule.lo, rule.hi>>,
                               from |-> SourceRange(o, source)] :
                               source \in rule.sources}
<1>5. Asked(o, o.rules) = UNION {peers(rule) \cup sources(rule) : rule \in o.rules}
  BY DEF Asked, SourceRange
<1>6. \A x : x \in Asked(o, o.rules) <=> \E rule \in o.rules : x \in peers(rule) \/ x \in sources(rule)
  <2> HIDE DEF peers, sources
  <2> QED
    BY <1>5
<1>7. ASSUME NEW e \in Expanded(o) PROVE Traffic(e) \in Asked(o, o.rules)
  <2>1. CASE ByPeer(o, e)
    <3>1. PICK rule \in o.rules, peer \in o.peers :
            PeerRule(rule) /\ peer.role \in rule.peers /\ e = PeerEntry(rule, peer)
      BY <2>1 DEF ByPeer
    <3>2. Traffic(e) \in peers(rule)
      BY <3>1 DEF Traffic, PeerEntry
    <3> QED
      <4> HIDE DEF peers, sources
      <4> QED
        BY <1>6, <3>2
  <2>2. CASE BySource(o, e)
    <3>1. PICK rule \in o.rules : \E source \in rule.sources : e = SourceEntry(o, rule, source)
      BY <2>2 DEF BySource
    <3>2. PICK source \in rule.sources : e = SourceEntry(o, rule, source)
      BY <3>1
    <3>3. Traffic(e) \in sources(rule)
      BY <3>2 DEF Traffic, SourceEntry
    <3> QED
      <4> HIDE DEF peers, sources
      <4> QED
        BY <1>6, <3>3
  <2> QED
    BY <2>1, <2>2, Expansion
<1>8. ASSUME NEW rule \in o.rules, NEW x \in peers(rule) PROVE \E e \in Expanded(o) : x = Traffic(e)
  <2>1. PICK peer \in o.peers : /\ PeerRule(rule) /\ peer.role \in rule.peers
                                /\ x = [protocol |-> rule.protocol, ports |-> <<rule.lo, rule.hi>>,
                                        from |-> {<<"host", peer.ip>>}]
    OBVIOUS
  <2>2. ByPeer(o, PeerEntry(rule, peer))
    BY <2>1 DEF ByPeer
  <2>3. x = Traffic(PeerEntry(rule, peer))
    BY <2>1 DEF Traffic, PeerEntry
  <2> QED
    BY <2>2, <2>3, Expansion
<1>9. ASSUME NEW rule \in o.rules, NEW x \in sources(rule) PROVE \E e \in Expanded(o) : x = Traffic(e)
  <2>1. PICK source \in rule.sources :
          x = [protocol |-> rule.protocol, ports |-> <<rule.lo, rule.hi>>, from |-> SourceRange(o, source)]
    OBVIOUS
  <2>2. BySource(o, SourceEntry(o, rule, source))
    BY DEF BySource
  <2>3. x = Traffic(SourceEntry(o, rule, source))
    BY <2>1 DEF Traffic, SourceEntry
  <2> QED
    BY <2>2, <2>3, Expansion
<1> HIDE DEF peers, sources
<1>10. \A x \in Asked(o, o.rules) : \E e \in Expanded(o) : x = Traffic(e)
  BY <1>6, <1>8, <1>9
<1>11. {Traffic(e) : e \in Expanded(o)} = Asked(o, o.rules)
  BY <1>7, <1>10
<1> QED
  BY <1>4, <1>11

-----------------------------------------------------------------------------
(* The results of an applied stage, whatever became of the request since.  *)
AppliedResults ==
  /\ shared.provider \in Providers
  /\ DOMAIN shared.tags \subseteq DOMAIN shared.firewalls
  /\ input.keyMode = "managed" \/ Recipe[shared.provider].registersExternal =>
       (Recipe[shared.provider].registers => shared.key # {})

(* Every answer is one of a port's to the request it was asked, and the    *)
(* results are those of a stage that was accepted.                         *)
PlanInv ==
  /\ IsRequest(input)
  /\ phase \in Phases
  /\ phase = "asked" => answer = NoAnswer
  /\ phase \in {"asked", "planned", "node", "registration"} => shared = NoShared
  /\ phase \in {"planned", "applied", "changed", "machine", "late"} => input.caller = "topology"
  /\ phase \in {"planned", "applied"} => \E port \in Ports : answer = Request(port, input, SharedCall)
  /\ phase = "applied" => answer.why = "ok" /\ shared = Outputs(input)
  /\ phase = "changed" => answer # NoAnswer
  /\ phase \in {"applied", "changed", "machine", "late"} => AppliedResults
  /\ phase \in {"machine", "late"} =>
       \E port \in Ports, role \in DOMAIN input.settings \cup {""}, unit \in input.machines :
         answer = Request(port, input, MachineCall(role, unit, shared))
  /\ phase = "node" => \E port \in Ports : answer = NodePlan(port, input)
  /\ phase = "registration" => \E port \in Ports : answer = RegistrationPlan(port, input)

(* A port's answer is not the answer of a request that was not asked.       *)
LEMMA Answered ==
  ASSUME NEW port, NEW o, NEW c
  PROVE  Request(port, o, c) # NoAnswer
<1>1. /\ "stage" \in DOMAIN Refused(Why(port, o, c, PolicyChecks(port, o, c)))
      /\ "stage" \in DOMAIN Granted(port, o, c)
  BY DEF Refused, Granted
<1>2. "stage" \notin DOMAIN NoAnswer
  BY DEF NoAnswer
<1> QED
  BY <1>1, <1>2 DEF Request, Answer

(* The results of a granted stage are of its provider, and hold the key     *)
(* that a managed registration makes.                                       *)
LEMMA OutputsResults ==
  ASSUME NEW o, IsRequest(o)
  PROVE  /\ Outputs(o).provider = o.provider /\ o.provider \in Providers
         /\ DOMAIN Outputs(o).tags \subseteq DOMAIN Outputs(o).firewalls
         /\ o.keyMode = "managed" \/ Recipe[o.provider].registersExternal =>
              (Recipe[o.provider].registers => Outputs(o).key # {})
<1>1. Outputs(o).provider = o.provider /\ o.provider \in Providers
  BY DEF Outputs, IsRequest, Topology
<1>2. DOMAIN Outputs(o).firewalls = DOMAIN o.roles
  BY DEF Outputs
<1>3. DOMAIN Outputs(o).tags = DOMAIN o.roles \/ DOMAIN Outputs(o).tags = {}
  BY DEF Outputs
<1>4. RegistrationOwned(o) /\ R(o).registers => Outputs(o).key # {}
  BY DEF Outputs
<1> QED
  BY <1>1, <1>2, <1>3, <1>4 DEF RegistrationOwned, R

(* The caller's first request satisfies the invariant.                      *)
LEMMA PlanInit == Init => PlanInv
  BY InputsAssumption DEF Init, PlanInv, Phases

(* Every call of every port, the application of a stage and the change of a *)
(* topology preserve the invariant.                                         *)
LEMMA PlanStep == PlanInv /\ [Next]_vars => PlanInv'
<1> SUFFICES ASSUME PlanInv, [Next]_vars PROVE PlanInv'
  OBVIOUS
<1>1. ASSUME NEW port \in Ports, PlanShared(port) PROVE PlanInv'
  <2>1. answer' # NoAnswer
    BY <1>1, Answered DEF PlanShared
  <2> QED
    BY <1>1, <2>1 DEF PlanShared, PlanInv, Phases
<1>2. ASSUME NEW port \in Ports, PlanNode(port) PROVE PlanInv'
  BY <1>2 DEF PlanNode, PlanInv, Phases
<1>3. ASSUME NEW port \in Ports, PlanRegistration(port) PROVE PlanInv'
  BY <1>3 DEF PlanRegistration, PlanInv, Phases
<1>4. CASE Apply
  <2>1. shared' = Outputs(input) /\ IsRequest(input)
    BY <1>4 DEF Apply, PlanInv
  <2>2. AppliedResults'
    BY <1>4, <2>1, OutputsResults DEF Apply, AppliedResults
  <2> QED
    BY <1>4, <2>1, <2>2 DEF Apply, PlanInv, Phases
<1>5. ASSUME NEW to \in input.later, Change(to) PROVE PlanInv'
  <2>1. /\ IsRequest(input) /\ AppliedResults /\ input.caller = "topology" /\ answer # NoAnswer
        /\ input' = [input EXCEPT !.roles = to.roles, !.settings = to.settings, !.provider = to.provider,
                                   !.mode = to.mode]
        /\ shared' = shared /\ answer' = answer /\ phase' = "changed"
    <3>1. answer # NoAnswer
      BY <1>5, Answered DEF Change, PlanInv
    <3> QED
      BY <1>5, <3>1 DEF Change, PlanInv
  <2>2. /\ DOMAIN input' = DOMAIN input
        /\ \A field \in DOMAIN input \ {"roles", "settings", "provider", "mode"} : input'[field] = input[field]
        /\ "mode" \in DOMAIN input => input'.mode = to.mode
        /\ "roles" \in DOMAIN input => input'.roles = to.roles
        /\ "provider" \in DOMAIN input => input'.provider = to.provider
    BY <2>1
  <2>3. /\ input'.caller = input.caller /\ input'.mode = to.mode /\ input'.keyMode = input.keyMode
        /\ input'.later = input.later /\ input'.rules = input.rules
        /\ input'.cidr = input.cidr /\ input'.optionCidr = input.optionCidr /\ input'.subnet = input.subnet
        /\ input'.roles = to.roles /\ input'.provider = to.provider
    BY <2>1, <2>2 DEF IsRequest
  <2>4. Topology(to)
    BY <2>1 DEF IsRequest
  <2>5. IsRequest(input')
    BY <2>1, <2>2, <2>3, <2>4 DEF IsRequest, Topology
  <2>6. AppliedResults'
    BY <2>1, <2>3 DEF AppliedResults
  <2> QED
    BY <2>1, <2>3, <2>5, <2>6 DEF PlanInv, Phases
<1>6. ASSUME NEW port \in Ports, NEW role \in DOMAIN input.settings \cup {""}, NEW unit \in input.machines,
             PlanMachine(port, role, unit)
      PROVE  PlanInv'
  <2>1. AppliedResults /\ AppliedResults'
    BY <1>6 DEF PlanMachine, PlanInv, AppliedResults
  <2> QED
    BY <1>6, <2>1 DEF PlanMachine, PlanInv, Phases
<1>7. CASE UNCHANGED vars
  BY <1>7 DEF vars, PlanInv, AppliedResults
<1> QED
  BY <1>1, <1>2, <1>3, <1>4, <1>5, <1>6, <1>7 DEF Next

(* The answer at hand is one a port gave to the request, or to the request  *)
(* before it changed, and the results are those of a stage that was         *)
(* granted.                                                                 *)
THEOREM PlanInvariance == Spec => []PlanInv
  BY PlanInit, PlanStep, PTL DEF Spec

-----------------------------------------------------------------------------
(* The groups of checks of a key registration.                              *)
RegistrationNames == {"fields", "registers", "identity", "combined", "unit", "literals", "region", "backend"}

(* Red looks at the unit after the literals; every port grants when no      *)
(* group refuses.                                                           *)
LEMMA RegistrationInOrder ==
  ASSUME NEW port, NEW groups
  PROVE  InOrder(RegistrationOrder(port), groups) = "ok"
           <=> \A name \in RegistrationNames : FirstRefusal(groups[name]) = "ok"
<1> DEFINE order == RegistrationOrder(port)
<1>1. /\ Len(order) = 8
      /\ \A i \in 1..8 : order[i] \in RegistrationNames
      /\ \A name \in RegistrationNames : \E i \in 1..8 : order[i] = name
  <2>1. CASE port = "red"
    <3>1. order = <<"fields", "registers", "identity", "combined", "literals", "unit", "region", "backend">>
      BY <2>1 DEF RegistrationOrder
    <3> QED
      BY <3>1 DEF RegistrationNames
  <2>2. CASE port # "red"
    <3>1. order = <<"fields", "registers", "identity", "unit", "combined", "literals", "region", "backend">>
      BY <2>2 DEF RegistrationOrder
    <3> QED
      BY <3>1 DEF RegistrationNames
  <2> QED
    BY <2>1, <2>2
<1> HIDE DEF order
<1>2. Len(order) \in Nat
  BY <1>1
<1>3. InOrder(order, groups) = "ok" <=> \A i \in 1..Len(order) : FirstRefusal(groups[order[i]]) = "ok"
  BY <1>2, InOrderPasses, Zenon
<1>4. (\A i \in 1..8 : FirstRefusal(groups[order[i]]) = "ok")
        <=> \A name \in RegistrationNames : FirstRefusal(groups[name]) = "ok"
  BY <1>1
<1> QED
  BY <1>1, <1>3, <1>4 DEF order

(* A granted registration and its document.                                 *)
LEMMA RegistrationGranted ==
  ASSUME NEW n, NEW port, RegistrationPlan(port, n).why = "ok"
  PROVE  /\ R(n).registers /\ RegistrationPlan(port, n).stage = "shared-keygen"
         /\ RegistrationPlan(port, n).document =
              [resources |-> {"registration"}, key |-> {<<"literal", "public_key">>},
               values |-> {Reference("registration", IF n.provider = "aws" THEN "key_name" ELSE "id")}]
         /\ \A other : RegistrationPlan(other, n) = RegistrationPlan(port, n)
<1> DEFINE groups == RegistrationGroups(n)
           why(any) == InOrder(RegistrationOrder(any), groups)
           document == [resources |-> {"registration"}, key |-> {<<"literal", "public_key">>},
                        values |-> {Reference("registration", IF n.provider = "aws" THEN "key_name" ELSE "id")}]
           granted == [Refused("ok") EXCEPT !.stage = "shared-keygen", !.document = document]
<1>1. \A any : RegistrationPlan(any, n) = Answer(why(any), granted)
  BY DEF RegistrationPlan
<1>2. why(port) = "ok"
  <2> HIDE DEF why, granted
  <2>1. Answer(why(port), granted).why = "ok"
    BY <1>1
  <2> QED
    BY <2>1 DEF Answer, Refused
<1>3. \A any : why(any) = "ok"
  <2> HIDE DEF groups
  <2> QED
    BY <1>2, RegistrationInOrder
<1>4. FirstRefusal(groups["registers"]) = "ok" => R(n).registers
  <2> DEFINE checks == << <<"registers", ~R(n).registers>> >>
  <2>1. DOMAIN checks = {1} /\ checks[1][1] # "ok"
    OBVIOUS
  <2>2. checks[1][2] <=> ~R(n).registers
    OBVIOUS
  <2> HIDE DEF checks
  <2>3. FirstRefusal(checks) = "ok" => R(n).registers
    BY <2>1, <2>2, OneCheck
  <2> QED
    BY <2>3 DEF checks, RegistrationGroups
<1>5. R(n).registers
  <2>1. "registers" \in RegistrationNames
    BY DEF RegistrationNames
  <2> HIDE DEF groups
  <2> QED
    BY <1>2, <1>4, <2>1, RegistrationInOrder
<1>6. granted.stage = "shared-keygen" /\ granted.document = document
  BY DEF Refused
<1> HIDE DEF why, granted, document
<1> QED
  BY <1>1, <1>2, <1>3, <1>5, <1>6 DEF Answer, document

(* The invariant implies the types: a stage leaves tags only for roles it   *)
(* has a firewall for.                                                      *)
LEMMA PlanTypes == PlanInv => TypeOK
<1> SUFFICES ASSUME PlanInv PROVE TypeOK
  OBVIOUS
<1>1. /\ phase \in Phases
      /\ Topology(input)
  BY DEF PlanInv, IsRequest
<1>2. "none" \notin Providers
  BY RecipesAssumption
<1>3. NoShared.provider = "none" /\ DOMAIN NoShared.tags = {} /\ DOMAIN NoShared.firewalls = {}
  BY DEF NoShared
<1>4. phase \in {"asked", "planned", "node", "registration"} => shared = NoShared
  BY DEF PlanInv
<1>5. phase \notin {"asked", "planned", "node", "registration"} =>
        shared.provider \in Providers /\ DOMAIN shared.tags \subseteq DOMAIN shared.firewalls
  BY <1>1 DEF PlanInv, AppliedResults, Phases
<1>6. answer = NoAnswer <=> phase = "asked"
  <2>1. \A port \in Ports : NodePlan(port, input) # NoAnswer /\ RegistrationPlan(port, input) # NoAnswer
    <3>1. ASSUME NEW port \in Ports PROVE NodePlan(port, input) # NoAnswer
      <4>1. NodePlan(port, input) = NoAnswer => NodePlan(port, input).why = "none"
        BY DEF NoAnswer
      <4>2. "stage" \notin DOMAIN NoAnswer
        BY DEF NoAnswer
      <4>3. "stage" \in DOMAIN NodePlan(port, input)
        <5>1. "stage" \in DOMAIN Stages(port, input).node
          BY DEF Stages, Request, Answer, Refused, Granted
        <5> QED
          BY <5>1 DEF NodePlan, Combination, Merged, Refused
      <4> QED
        BY <4>2, <4>3
    <3>2. ASSUME NEW port \in Ports PROVE RegistrationPlan(port, input) # NoAnswer
      <4>1. "stage" \in DOMAIN RegistrationPlan(port, input)
        BY DEF RegistrationPlan, Answer, Refused
      <4> QED
        BY <4>1 DEF NoAnswer
    <3> QED
      BY <3>1, <3>2
  <2>2. phase \in {"planned", "applied", "machine", "late"} => answer # NoAnswer
    BY Answered DEF PlanInv
  <2> QED
    BY <1>1, <2>1, <2>2 DEF PlanInv, Phases
<1> QED
  BY <1>1, <1>2, <1>3, <1>4, <1>5, <1>6 DEF TypeOK

(* The fields of a granted answer that the properties look at.              *)
LEMMA GrantedFields ==
  ASSUME NEW port, NEW o, NEW c
  PROVE  /\ {"stage", "rules", "roleRules", "document"} \subseteq DOMAIN Granted(port, o, c)
         /\ c.stage # "shared" => DOMAIN Granted(port, o, c).roleRules = {}
  BY DEF Granted

(* The stages of the answers.                                               *)
LEMMA StageOfRequest ==
  ASSUME NEW port \in Ports, NEW o, IsRequest(o), NEW c, c.stage \in {"shared", "node"},
         Request(port, o, c).why = "ok"
  PROVE  Request(port, o, c).stage \in Templates(o.provider)
<1>1. Grants(port, o, c) /\ Request(port, o, c) = Granted(port, o, c)
  BY RequestOk DEF GrantsAll
<1>2. Stage(port, o, c) \in Templates(o.provider)
  BY <1>1, StageHasTemplate
<1> QED
  BY <1>1, <1>2 DEF Granted

(* The stage of a granted machine has a template.                           *)
LEMMA StageOfMachine ==
  ASSUME NEW port \in Ports, NEW o, IsRequest(o), NEW role, NEW unit, NEW results,
         Request(port, o, MachineCall(role, unit, results)).why = "ok"
  PROVE  Request(port, o, MachineCall(role, unit, results)).stage \in Templates(o.provider)
<1> DEFINE c == MachineCall(role, unit, results)
<1>1. c.stage = "node"
  BY DEF MachineCall
<1> HIDE DEF c
<1>2. Request(port, o, c).why = "ok" => Request(port, o, c).stage \in Templates(o.provider)
  BY <1>1, StageOfRequest
<1> QED
  BY <1>2 DEF c

(* The stage of an answer has a template, whichever call it answers.        *)
LEMMA PlanStageExists == PlanInv => StageExists
<1> SUFFICES ASSUME PlanInv, phase \notin {"asked", "changed"}, answer.why = "ok"
             PROVE  answer.stage \in Templates(input.provider)
  BY DEF StageExists
<1>1. IsRequest(input)
  BY DEF PlanInv
<1>2. CASE phase \in {"planned", "applied"}
  <2>1. PICK port \in Ports : answer = Request(port, input, SharedCall)
    BY <1>2 DEF PlanInv
  <2>2. SharedCall.stage = "shared"
    BY DEF SharedCall
  <2> QED
    BY <1>1, <2>1, <2>2, StageOfRequest
<1>3. CASE phase \in {"machine", "late"}
  <2>1. PICK port \in Ports, role \in DOMAIN input.settings \cup {""}, unit \in input.machines :
          answer = Request(port, input, MachineCall(role, unit, shared))
    BY <1>3 DEF PlanInv
  <2> QED
    BY <1>1, <2>1, StageOfMachine
<1>4. CASE phase = "node"
  <2>1. PICK port \in Ports : answer = NodePlan(port, input)
    BY <1>4 DEF PlanInv
  <2> DEFINE asked == Stages(port, input)
  <2>2. /\ asked.node.why = "ok"
        /\ answer = [asked.node EXCEPT !.rules = asked.shared.rules, !.document = Document(input)]
    BY <2>1, NodeGranted
  <2>3. asked.node = Request(port, input, MachineCall("", input.unit, Promised(input)))
    BY DEF Stages
  <2>4. asked.node.stage \in Templates(input.provider)
    BY <1>1, <2>2, <2>3, StageOfMachine
  <2>5. asked.node = Granted(port, input, MachineCall("", input.unit, Promised(input)))
    BY <2>2, NodeStage
  <2>6. "stage" \in DOMAIN asked.node
    BY <2>5, GrantedFields
  <2> HIDE DEF asked
  <2>7. answer.stage = asked.node.stage
    BY <2>2, <2>6
  <2> QED
    BY <2>4, <2>7
<1>5. CASE phase = "registration"
  <2>1. PICK port \in Ports : answer = RegistrationPlan(port, input)
    BY <1>5 DEF PlanInv
  <2>2. R(input).registers /\ answer.stage = "shared-keygen"
    BY <2>1, RegistrationGranted
  <2>3. Complete(R(input), Templates(input.provider))
    BY RecipesAssumption DEF PlanInv, IsRequest, Topology, R
  <2> QED
    BY <2>2, <2>3 DEF Complete
<1> QED
  BY <1>2, <1>3, <1>4, <1>5 DEF PlanInv, Phases

(* The rules of a granted shared stage: its own and each role's.            *)
LEMMA SharedRules ==
  ASSUME NEW port \in Ports, NEW o, IsRequest(o), Request(port, o, SharedCall).why = "ok"
  PROVE  LET plan == Request(port, o, SharedCall)
         IN /\ {Opened(e) : e \in plan.rules} = Asked(o, o.rules)
            /\ \A role \in DOMAIN plan.roleRules :
                  {Opened(e) : e \in plan.roleRules[role]} = Asked(o, o.roles[role].rules)
<1>1. SharedCall.stage = "shared"
  BY DEF SharedCall
<1>2. /\ GrantsAll(port, o, SharedCall) /\ Grants(port, o, SharedCall)
      /\ Request(port, o, SharedCall) = Granted(port, o, SharedCall)
  BY RequestOk DEF GrantsAll
<1>3. /\ Request(port, o, SharedCall).rules = Rendered(o)
      /\ Request(port, o, SharedCall).roleRules = [r \in DOMAIN o.roles |-> RoleRules(o, r)]
  BY <1>1, <1>2 DEF Granted
<1>4. {Opened(e) : e \in Rendered(o)} = Asked(o, o.rules)
  BY <1>2, GrantsParts, RulesOpened
<1>5. ASSUME NEW role \in DOMAIN o.roles
      PROVE  {Opened(e) : e \in RoleRules(o, role)} = Asked(o, o.roles[role].rules)
  <2> DEFINE trial == Trial(o, role)
  <2>1. Grants(port, trial, MachineCall(role, o.unit, StandIns(o)))
    BY <1>1, <1>2 DEF GrantsAll
  <2>2. IsRequest(trial) /\ trial.rules = o.roles[role].rules
    BY TrialFields
  <2>3. {Opened(e) : e \in Rendered(trial)} = Asked(trial, trial.rules)
    BY <2>1, <2>2, GrantsParts, RulesOpened
  <2>4. /\ trial.peers = o.peers /\ trial.provider = o.provider
        /\ trial.cidr = o.cidr /\ trial.optionCidr = o.optionCidr
    BY TrialFields DEF IsRequest
  <2>5. NetworkCidr(trial) = NetworkCidr(o)
    BY <2>4 DEF NetworkCidr, R
  <2>6. Asked(trial, trial.rules) = Asked(o, o.roles[role].rules)
    BY <2>2, <2>4, <2>5 DEF Asked
  <2>7. RoleRules(o, role) = Rendered(trial)
    <3> DEFINE other == [o EXCEPT !.rules = o.roles[role].rules]
    <3>1. /\ other.rules = trial.rules /\ other.provider = trial.provider /\ other.peers = trial.peers
          /\ other.cidr = trial.cidr /\ other.optionCidr = trial.optionCidr
      BY <2>2, <2>4 DEF IsRequest
    <3> HIDE DEF other, trial
    <3>2. NetworkCidr(other) = NetworkCidr(trial)
      BY <3>1 DEF NetworkCidr, R
    <3>3. Rendered(other) = Rendered(trial)
      BY <3>1, <3>2 DEF Rendered, Expanded
    <3> QED
      BY <3>3 DEF RoleRules, other
  <2> QED
    BY <2>3, <2>6, <2>7
<1> QED
  BY <1>3, <1>4, <1>5

(* A planned stage or node opens what its request asks for.                 *)
LEMMA PlanRulesExact == PlanInv => RulesExact
<1> SUFFICES ASSUME PlanInv, phase \in {"planned", "node"}, answer.why = "ok"
             PROVE  /\ {Opened(e) : e \in answer.rules} = Asked(input, input.rules)
                    /\ \A role \in DOMAIN answer.roleRules :
                         {Opened(e) : e \in answer.roleRules[role]} = Asked(input, input.roles[role].rules)
  BY DEF RulesExact
<1>1. IsRequest(input)
  BY DEF PlanInv
<1>2. CASE phase = "planned"
  <2>1. PICK port \in Ports : answer = Request(port, input, SharedCall)
    BY <1>2 DEF PlanInv
  <2> QED
    BY <1>1, <2>1, SharedRules
<1>3. CASE phase = "node"
  <2>1. PICK port \in Ports : answer = NodePlan(port, input)
    BY <1>3 DEF PlanInv
  <2> DEFINE asked == Stages(port, input)
  <2>2. /\ asked.shared.why = "ok" /\ asked.node.why = "ok"
        /\ answer = [asked.node EXCEPT !.rules = asked.shared.rules, !.document = Document(input)]
    BY <2>1, NodeGranted
  <2>3. /\ asked.shared = Request(port, input, SharedCall)
        /\ asked.node = Request(port, input, MachineCall("", input.unit, Promised(input)))
    BY DEF Stages
  <2>4. asked.node = Granted(port, input, MachineCall("", input.unit, Promised(input)))
    BY <2>2, NodeStage
  <2>5. {"rules", "roleRules"} \subseteq DOMAIN asked.node /\ DOMAIN asked.node.roleRules = {}
    <3>1. MachineCall("", input.unit, Promised(input)).stage # "shared"
      BY DEF MachineCall
    <3> QED
      BY <2>4, <3>1, GrantedFields
  <2> HIDE DEF asked
  <2>6. answer.rules = asked.shared.rules /\ answer.roleRules = asked.node.roleRules
    BY <2>2, <2>5
  <2>7. DOMAIN answer.roleRules = {}
    BY <2>5, <2>6
  <2> QED
    BY <1>1, <2>2, <2>3, <2>6, <2>7, SharedRules
<1> QED
  BY <1>2, <1>3

(* The results of an applied stage are good for each of its roles, and a    *)
(* machine is refused only for its own node_id.                             *)
LEMMA PlanRolesPlanAgree == PlanInv => RolesPlanAgree
<1> SUFFICES ASSUME PlanInv, phase = "applied", ~Lenient, NEW port \in Ports, NEW role \in DOMAIN input.roles,
                    NEW unit \in input.machines
             PROVE  Request(port, input, MachineCall(role, unit, shared)).why = "ok" <=> Placeable(input, unit)
  BY DEF RolesPlanAgree
<1>1. IsRequest(input) /\ NullsRead(input) /\ shared = Outputs(input) /\ answer.why = "ok"
  BY DEF PlanInv, Lenient, NullsRead
<1>2. PICK first \in Ports : answer = Request(first, input, SharedCall)
  BY DEF PlanInv
<1>3. Request(port, input, SharedCall).why = "ok"
  BY <1>1, <1>2, RequestsAgree
<1>4. GrantsAll(port, input, SharedCall)
  BY <1>3, RequestOk
<1>5. Grants(port, input, MachineCall(role, unit, Outputs(input))) <=> Placeable(input, unit)
  BY <1>1, <1>4, RoleGranted
<1> QED
  BY <1>1, <1>5, NodeCallOk

(* Whatever became of the request, a machine is bound to the stage that was *)
(* applied.                                                                 *)
LEMMA PlanNodeBoundToShared == PlanInv => NodeBoundToShared
<1> SUFFICES ASSUME PlanInv, phase \in {"applied", "changed"}, NEW port \in Ports,
                    NEW role \in DOMAIN input.settings \cup {""}, NEW unit \in input.machines
             PROVE  Bound(Request(port, input, MachineCall(role, unit, shared)), role)
  BY DEF NodeBoundToShared
<1> DEFINE machine == Request(port, input, MachineCall(role, unit, shared))
<1>1. RegistrationOwned(input) /\ R(input).registers /\ shared.provider = input.provider => shared.key # {}
  BY DEF PlanInv, AppliedResults, RegistrationOwned, R
<1>2. machine.why = "ok" => BoundTo(shared, input, machine, role)
  BY <1>1, MachineBound
<1> HIDE DEF machine
<1> QED
  BY <1>2 DEF Bound, BoundTo, machine

(* The document of a granted node or registration stands on its own.        *)
LEMMA PlanReferencesResolve == PlanInv => ReferencesResolve
<1> SUFFICES ASSUME PlanInv, phase \in {"node", "registration"}, answer.why = "ok"
             PROVE  Stands(answer.document)
  BY DEF ReferencesResolve, Stands
<1>1. CASE phase = "node"
  <2>1. PICK port \in Ports : answer = NodePlan(port, input)
    BY <1>1 DEF PlanInv
  <2> DEFINE asked == Stages(port, input)
  <2>2. /\ asked.node.why = "ok"
        /\ answer = [asked.node EXCEPT !.rules = asked.shared.rules, !.document = Document(input)]
    BY <2>1, NodeGranted
  <2>3. asked.node = Granted(port, input, MachineCall("", input.unit, Promised(input)))
    BY <2>2, NodeStage
  <2>4. "document" \in DOMAIN asked.node
    BY <2>3, GrantedFields
  <2> HIDE DEF asked
  <2>5. answer.document = Document(input)
    BY <2>2, <2>4
  <2> QED
    BY <2>5, DocumentStands
<1>2. CASE phase = "registration"
  <2>1. PICK port \in Ports : answer = RegistrationPlan(port, input)
    BY <1>2 DEF PlanInv
  <2> DEFINE named == Reference("registration", IF input.provider = "aws" THEN "key_name" ELSE "id")
             literal == <<"literal", "public_key">>
  <2>2. answer.document = [resources |-> {"registration"}, key |-> {literal}, values |-> {named}]
    BY <2>1, RegistrationGranted
  <2>3. literal[1] = "literal" /\ named[1] = "reference" /\ named[2] = "registration"
    BY DEF Reference
  <2> HIDE DEF named, literal
  <2> QED
    BY <2>2, <2>3 DEF Stands
<1> QED
  BY <1>1, <1>2

(* Each kind of caller gets the same answers from every port.               *)
LEMMA PlanPortsAgree == PlanInv => PortsAgree
<1> SUFFICES ASSUME PlanInv, ~Lenient, NEW call \in Due
             PROVE  Alike({Reply(port, call) : port \in Ports})
  BY DEF PortsAgree
<1>1. IsRequest(input) /\ NullsRead(input)
  BY DEF PlanInv, Lenient, NullsRead
<1> SUFFICES ASSUME NEW port \in Ports, NEW other \in Ports, Reply(port, call).why = "ok"
             PROVE  Reply(port, call) = Reply(other, call)
  BY DEF Alike
<1>2. CASE input.caller = "topology"
  BY <1>1, <1>2, RequestsAgree DEF Reply
<1>3. CASE input.caller = "single"
  <2>1. "existing" \notin input.faults /\ input.external # "alias"
    BY <1>3 DEF Lenient
  <2> QED
    BY <1>1, <1>3, <2>1, NodesAgree DEF Reply
<1>4. CASE input.caller = "registration"
  BY <1>4, RegistrationGranted DEF Reply
<1> QED
  BY <1>1, <1>2, <1>3, <1>4 DEF IsRequest

(* Every variable keeps to its type.                                        *)
THEOREM PlanTypeCorrect == Spec => []TypeOK
  BY PlanInvariance, PlanTypes, PTL

(* What one of the three ports grants, every port grants with the same      *)
(* plan, whatever it was asked by and with the results of whatever stage,   *)
(* except where the ports read a null, an alias or the option that requires *)
(* existing state differently (Lenient).                                    *)
THEOREM PortsAgreeHolds == Spec => []PortsAgree
  BY PlanInvariance, PlanPortsAgree, PTL

(* Every granted request names a stage that its provider has a template     *)
(* for, for every network mode, reference, set of roles and discovery.      *)
THEOREM StageExistsHolds == Spec => []StageExists
  BY PlanInvariance, PlanStageExists, PTL

(* The rendered rules of a granted request, and those of each role, open    *)
(* the traffic that was asked for, no more and no less, in the form of      *)
(* every provider and under its keys.                                       *)
THEOREM RulesExactHolds == Spec => []RulesExact
  BY PlanInvariance, PlanRulesExact, PTL

(* Once the shared stage of a topology was granted by one port and applied, *)
(* every port grants the machine of each of its roles.                      *)
THEOREM RolesPlanAgreeHolds == Spec => []RolesPlanAgree
  BY PlanInvariance, PlanRolesPlanAgree, PTL

(* A machine is granted only with the results of a stage of its own         *)
(* provider, and gets its own role's firewall and tag and the registered    *)
(* key of these results, whatever became of the request since the stage was *)
(* applied.                                                                 *)
THEOREM NodeBoundToSharedHolds == Spec => []NodeBoundToShared
  BY PlanInvariance, PlanNodeBoundToShared, PTL

(* The document of a granted single node or registration names only         *)
(* resources it declares and holds no token or marker that is still to be   *)
(* replaced.                                                                *)
THEOREM ReferencesResolveHolds == Spec => []ReferencesResolve
  BY PlanInvariance, PlanReferencesResolve, PTL

=============================================================================
