---------------------------- MODULE RequestPlan ----------------------------
(***************************************************************************)
(* Plans from requests.  A topology asks for its shared stage, applies it, *)
(* and asks for the machine of each role with the results; the request may *)
(* have changed since the stage was applied.  A single node is planned in  *)
(* one call that asks for both stages itself and marks the results of the  *)
(* first until the second is rendered.  Any port may serve any call.       *)
(***************************************************************************)
EXTENDS ProviderRequest

CONSTANT Inputs   \* the requests of an instance

(* How a request is written: ranges, rules and their sources, peers and policies.  A      *)
(* source's name is what its resource is called after, a canonical IPv4 range five fields. *)
Ranges == [family : {0, 4, 6}, prefix : {"digits", "padded", "none", "mask", "junk"}, aligned : BOOLEAN,
           plain : BOOLEAN, name : Seq(STRING), lo : Nat, hi : Nat]
PublicSource(c) ==
  /\ c \in Ranges /\ c.name # <<"private">>
  /\ c.family = 4 /\ c.plain /\ c.prefix = "digits" => Len(c.name) = 5 /\ c.name[5] # "private"
PrivateSource(c) == c.family = -1 /\ c.name = <<"private">>
IsRule(rule) == /\ rule.id \in Seq(STRING) /\ rule.protocol \in {"tcp", "udp", "icmp"}
                /\ rule.lo \in Int /\ rule.hi \in Int
                /\ \A source \in rule.sources : PublicSource(source) \/ PrivateSource(source)
Topology(o) == /\ o.provider \in Providers /\ o.mode \in {"created", "discovered", "none"}
               /\ \A role \in DOMAIN o.roles : \A rule \in o.roles[role].rules : IsRule(rule)
IsRequest(o) ==
  /\ DOMAIN o = {"caller", "provider", "keyMode", "ids", "reference", "endpoint", "roles", "peers", "settings",
                 "mode", "cidr", "optionCidr", "subnet", "address", "id", "filter", "rules", "image", "static",
                 "cpus", "domains", "unit", "machines", "backups", "legacyBackups", "sixth", "registration", "external",
                 "later", "faults"}
  /\ o.caller \in {"topology", "single", "registration"}
  /\ Topology(o) /\ \A to \in o.later : Topology(to)
  /\ \A rule \in o.rules : IsRule(rule)
  /\ o.cidr \cup o.optionCidr \cup o.subnet \subseteq Ranges
ASSUME InputsAssumption == \A o \in Inputs : IsRequest(o)

VARIABLES input, phase, shared, answer
vars == <<input, phase, shared, answer>>

\* The calls for the stages of a request; the machines of a topology have units of their own.
SharedCall == [stage |-> "shared", role |-> "", shared |-> NoShared]
MachineCall(role, unit, results) == [stage |-> "node", role |-> role, unit |-> unit, shared |-> results]

-----------------------------------------------------------------------------
(* Optional machine settings: automatic backups and an IPv6 address.                       *)
BackupsSought(o) == IF o.backups = "absent" /\ o.provider = "digitalocean" THEN o.legacyBackups ELSE o.backups
OptionChecks(o) ==
  LET backups == BackupsSought(o)
      scheduled == o.provider = "vultr"
      valid == IF scheduled THEN {"off", "daily"} ELSE {"off", "on"}
  IN IF backups = "absent" /\ o.sixth = "absent" THEN << >>
     ELSE << <<"capability", o.provider \notin {"vultr", "digitalocean"}>>,
             <<"sixth", o.sixth = "junk">>,
             <<"schedule", scheduled /\ backups = "badhour">>,
             <<"backups", backups \notin valid \cup {"absent"} /\ ~(scheduled /\ backups = "badhour")>> >>
OptionsApplied(o, c) == IF c.stage = "node" THEN [backups |-> BackupsSought(o), sixth |-> o.sixth]
                     ELSE [backups |-> "absent", sixth |-> "absent"]

-----------------------------------------------------------------------------
(* The firewall of a machine with a role is its role's; the tag likewise.                  *)
BoundFirewall(o, c) ==
  IF c.stage = "shared" THEN {}
  ELSE IF DOMAIN o.roles = {} THEN c.shared.firewall
  ELSE {c.shared.firewalls[r] : r \in {c.role} \cap DOMAIN c.shared.firewalls}
BoundTag(o, c) ==
  IF c.stage = "shared" \/ ~R(o).tags THEN "deployment"
  ELSE IF c.role \in DOMAIN c.shared.tags /\ DOMAIN o.roles # {} THEN c.shared.tags[c.role] ELSE "deployment"

\* the bindings of the selected template: the first value present, else the default, else refused
Unbound(o, c) ==
  \/ "setting" \in o.faults
  \/ c.stage = "shared" /\ o.provider \in {"aws", "azure", "google", "yandex"} /\ NetworkCidr(o) = {}
  \/ c.stage = "node" /\ o.mode # "none" /\ o.provider # "oci" /\ ~c.shared.network
  \/ c.stage = "node" /\ R(o).firewallBound /\ BoundFirewall(o, c) = {}

Closing(o, c) == << <<"boolean", o.static = "junk" /\ DOMAIN R(o).dynamicStages # {}>>,
                 <<"input", Unbound(o, c)>>, Bad(o, "literal") >>

\* The checks in groups, of which each port makes its own order; policies are the refusals
\* of the role policies.
Groups(port, o, c, policies) ==
  [recipe |-> <<Bad(o, "recipe")>>, placement |-> Placement(o, c), role |-> RoleChecks(port, o, c),
   form |-> Form(o), peers |-> PeerChecks(port, o), networking |-> Networking(o, c), ingress |-> Ingress(port, o),
   created |-> CreatedNeedsRange(o), range |-> Readable(port, NetworkCidr(o)), inside |-> PeersInside(o),
   subrange |-> Readable(port, Subnet(o)),
   subnet |-> SubnetInside(o), address |-> PrivateAddress(o), sharing |-> Sharing(o, c), rules |-> RuleChecks(o),
   policies |-> policies, closing |-> Closing(o, c), options |-> OptionChecks(o)]

BlueOrder == <<"recipe", "placement", "role", "form", "peers", "networking", "ingress", "created", "range", "inside",
               "subrange", "subnet", "address", "sharing", "rules", "policies", "closing", "options">>
GreenOrder == <<"placement", "recipe", "role", "form", "peers", "networking", "ingress", "range", "subrange",
                "inside", "subnet", "address", "sharing", "rules", "created", "policies", "closing", "options">>
RedOrder == <<"placement", "recipe", "role", "form", "peers", "networking", "ingress", "created", "range", "inside",
              "subrange", "subnet", "address", "sharing", "rules", "policies", "closing", "options">>
Order(port) == CASE port = "blue" -> BlueOrder [] port = "green" -> GreenOrder [] OTHER -> RedOrder

FirstRefusal(checks) ==
  LET refusing == {i \in DOMAIN checks : checks[i][2]}
  IN IF refusing = {} THEN "ok" ELSE checks[CHOOSE i \in refusing : \A j \in refusing : i <= j][1]
Raising(reason) == <<reason, reason # "ok">>
InOrder(order, groups) == FirstRefusal([i \in 1..Len(order) |-> Raising(FirstRefusal(groups[order[i]]))])
Why(port, o, c, policies) == InOrder(Order(port), Groups(port, o, c, policies))

\* The machine of a role as the shared stage tries it: with the role's policy, the node_id of
\* the stage's own request and stand-ins for the results there are not yet.
Trial(o, role) == [o EXCEPT !.rules = o.roles[role].rules, !.filter = o.roles[role].filter]
StandIns(o) ==
  LET primary == Primary(o, SharedCall)
  IN [provider |-> o.provider, key |-> IF primary = {} THEN {"trial"} ELSE primary, network |-> TRUE,
      firewall |-> {"trial"}, firewalls |-> [r \in DOMAIN o.roles |-> "trial"],
      tags |-> [r \in DOMAIN o.roles |-> "trial"]]

\* mutant: only the rules of a policy are tried, not the machine
RulesTried(port, o, c) ==
  << <<"role_policy", c.stage = "shared" /\ \E r \in DOMAIN o.roles :
        FirstRefusal(Ingress(port, Trial(o, r)) \o RuleChecks(Trial(o, r))) # "ok">> >>
Naming(reasons) == IF reasons = {} THEN << >> ELSE << <<CHOOSE reason \in reasons : TRUE, TRUE>> >>
PolicyChecks(port, o, c) ==
  IF c.stage # "shared" THEN << >>
  ELSE Naming({Why(port, Trial(o, r), MachineCall(r, o.unit, StandIns(o)), << >>) : r \in DOMAIN o.roles} \ {"ok"})

\* the rules a role's firewall is rendered with
RoleRules(o, role) == Rendered([o EXCEPT !.rules = o.roles[role].rules])

NoDocument == [resources |-> {}, key |-> {}, values |-> {}]
Refused(reason) == [why |-> reason, stage |-> "none", rules |-> {}, roleRules |-> << >>, firewall |-> {},
                    tag |-> "deployment", keys |-> {}, options |-> << >>, domain |-> {}, document |-> NoDocument]
Granted(port, o, c) ==
  [why |-> "ok", stage |-> Stage(port, o, c), rules |-> Rendered(o),
   roleRules |-> IF c.stage = "shared" THEN [r \in DOMAIN o.roles |-> RoleRules(o, r)] ELSE << >>,
   firewall |-> BoundFirewall(o, c), tag |-> BoundTag(o, c), keys |-> Ids(o, c),
   options |-> OptionsApplied(o, c), domain |-> IF c.stage = "node" THEN Domain(o, c.unit) ELSE {},
   document |-> NoDocument]
Answer(why, granted) == IF why = "ok" THEN granted ELSE Refused(why)
Request(port, o, c) == Answer(Why(port, o, c, PolicyChecks(port, o, c)), Granted(port, o, c))

-----------------------------------------------------------------------------
(* One node in one call.  Values of the document are a literal, the marker of the public   *)
(* key, a token that stands for a shared result, or a reference into the document.         *)
Reference(owner, attribute) == <<"reference", owner, attribute>>
Token(value) == <<"token", value>>
Marker == <<"marker">>

\* the checks of the caller's request, of which each port makes some, in its own order
Unit(n) == << Bad(n, "unit"), Bad(n, "filename"), Bad(n, "workdir"), Bad(n, "prefix") >>
Registered(n) == << Bad(n, "identity"),
  <<"registration", IF R(n).registers THEN n.registration # "match" ELSE n.registration # "none">> >>
External(n, options) == << <<"external", n.external \in options>> >>
\* the older name of DigitalOcean's key setting is an option of its own
Settings(n) == {"setting"} \cup (IF n.provider = "digitalocean" THEN {"alias"} ELSE {})

NodeGroups(n, asked) ==
  [literals |-> <<Bad(n, "caller_literal")>>, topology |-> <<Bad(n, "topology")>>, fields |-> <<Bad(n, "fields")>>,
   unit |-> Unit(n), existing |-> <<Bad(n, "existing")>>, recipe |-> <<Bad(n, "recipe")>>,
   combined |-> << <<"combined", ~n.unit.fits>> >>, registered |-> Registered(n), path |-> External(n, {"path"}),
   setting |-> External(n, {"setting"}), settings |-> External(n, Settings(n)),
   shared |-> <<Raising(asked.shared.why)>>, node |-> <<Raising(asked.node.why)>>,
   disks |-> <<Bad(n, "disks")>>, backend |-> <<Bad(n, "backend")>>]
BlueNodeOrder == <<"literals", "topology", "fields", "unit", "existing", "recipe", "settings", "path", "combined",
                   "registered", "shared", "node", "disks", "backend">>
GreenNodeOrder == <<"literals", "unit", "fields", "path", "recipe", "setting", "topology", "registered",
                    "combined", "shared", "node", "disks", "backend">>
RedNodeOrder == <<"path", "existing", "literals", "fields", "unit", "registered", "settings", "topology",
                  "recipe", "combined", "shared", "node", "disks", "backend">>
NodeOrder(port) == CASE port = "blue" -> BlueNodeOrder [] port = "green" -> GreenNodeOrder [] OTHER -> RedNodeOrder

\* What the templates of the two stages declare and refer to.  A registered provider's
\* machine names the key object of the shared stage; the others take the public key itself.
KeyNames(o) == IF o.provider = "aws" THEN {"id", "key_name"} ELSE {"id"}
SharedValues(o) == IF R(o).registers THEN {Reference("registration", a) : a \in KeyNames(o)} ELSE {}
NetworkValues(o) == {Reference("firewall", "id")} \cup
                    IF o.mode = "none" THEN {} ELSE {Reference("network", "id")}
SharedResources(o) == {"firewall"} \cup (IF o.mode = "none" THEN {} ELSE {"network"})
                      \cup (IF R(o).registers THEN {"registration"} ELSE {})

\* every result of the shared stage stands as a token while the node stage is rendered
Tokens(o) == {Token(v) : v \in SharedValues(o) \cup NetworkValues(o)}
MachineKey(o) == IF R(o).registers THEN {Token(v) : v \in SharedValues(o)} ELSE {Marker}

\* what replaces what once both stages are merged: a registration's id stands for its object
Replacements(o) ==
  LET registered == IF R(o).registers THEN {Reference("registration", a) : a \in {"id", "key_name"}} ELSE {}
  IN [v \in {Marker} \cup registered \cup Tokens(o) |->
        IF v = Marker THEN <<"literal", "public_key">>
        ELSE IF v \in registered THEN <<"literal", "registration_id">> ELSE v[2]]
Once(replacements, v) == IF v \in DOMAIN replacements THEN replacements[v] ELSE v
\* mutant: one replacement each
ResolvedOnce(replacements, v) == Once(replacements, v)
\* a replaced value is looked up again: a token may stand for a reference that is replaced too
Resolved(replacements, v) == Once(replacements, Once(replacements, Once(replacements, v)))

Document(o) ==
  LET values == MachineKey(o) \cup Tokens(o) \cup NetworkValues(o)
  IN [resources |-> {"machine"} \cup (SharedResources(o) \ {"registration"}),
      key |-> {Resolved(Replacements(o), v) : v \in MachineKey(o)},
      values |-> {Resolved(Replacements(o), v) : v \in values}]

\* what the shared stage of one node leaves to its node stage before anything exists
Promised(o) == [provider |-> o.provider, key |-> IF R(o).registers THEN {"token"} ELSE {}, network |-> o.mode # "none",
                firewall |-> {"token"}, firewalls |-> << >>, tags |-> << >>]

\* the two stages of one node, asked for and merged
Stages(port, n) == [shared |-> Request(port, n, SharedCall), node |-> Request(port, n, MachineCall("", n.unit, Promised(n)))]
Merged(why, n, asked) ==
  IF why = "ok" THEN [asked.node EXCEPT !.rules = asked.shared.rules, !.document = Document(n)]
  ELSE Refused(why)
Combination(port, n, asked) == Merged(InOrder(NodeOrder(port), NodeGroups(n, asked)), n, asked)
NodePlan(port, n) == Combination(port, n, Stages(port, n))

(* A provider's registration of a key: a document of its own with one resource.            *)
RegistrationGroups(n) ==
  [fields |-> <<Bad(n, "fields")>>, registers |-> << <<"registers", ~R(n).registers>> >>,
   identity |-> <<Bad(n, "identity")>>, combined |-> << <<"combined", ~n.unit.fits>> >>, unit |-> Unit(n),
   literals |-> <<Bad(n, "caller_literal")>>,
   region |-> << <<"region", n.provider = "aws" /\ "setting" \in n.faults>> >>, backend |-> <<Bad(n, "backend")>>]
RegistrationOrder(port) ==
  IF port = "red"
  THEN <<"fields", "registers", "identity", "combined", "literals", "unit", "region", "backend">>
  ELSE <<"fields", "registers", "identity", "unit", "combined", "literals", "region", "backend">>
RegistrationPlan(port, n) ==
  Answer(InOrder(RegistrationOrder(port), RegistrationGroups(n)),
         [Refused("ok") EXCEPT !.stage = "shared-keygen",
            !.document = [resources |-> {"registration"}, key |-> {<<"literal", "public_key">>},
                          values |-> {Reference("registration", IF n.provider = "aws" THEN "key_name" ELSE "id")}]])

-----------------------------------------------------------------------------
NoAnswer == [why |-> "none"]

Init == /\ input \in Inputs
        /\ phase = "asked"
        /\ shared = NoShared
        /\ answer = NoAnswer

PlanShared(port) ==
  /\ phase = "asked" /\ input.caller = "topology"
  /\ answer' = Request(port, input, SharedCall)
  /\ phase' = "planned"
  /\ UNCHANGED <<input, shared>>

\* the planned stage is applied and its outputs are read: a stage with a key of its own has
\* registered it, a stage with roles has a firewall for each and none for all
Outputs(o) ==
  LET roles == DOMAIN o.roles
  IN [provider |-> o.provider, key |-> IF RegistrationOwned(o) /\ R(o).registers THEN {"registered"} ELSE {},
      network |-> o.mode # "none",
      firewall |-> IF roles = {} THEN {"shared"} ELSE {},
      firewalls |-> [r \in roles |-> r],
      tags |-> IF R(o).tags THEN [r \in roles |-> r] ELSE << >>]
Apply ==
  /\ phase = "planned" /\ answer.why = "ok"
  /\ shared' = Outputs(input)
  /\ phase' = "applied"
  /\ UNCHANGED <<input, answer>>

\* the caller's topology changes before its machines are planned: another role, provider or network
Change(to) ==
  /\ phase = "applied" /\ to \in input.later
  /\ input' = [input EXCEPT !.roles = to.roles, !.settings = to.settings, !.provider = to.provider,
                         !.mode = to.mode]
  /\ phase' = "changed"
  /\ UNCHANGED <<shared, answer>>

PlanMachine(port, role, unit) ==
  /\ phase \in {"applied", "changed"}
  /\ answer' = Request(port, input, MachineCall(role, unit, shared))
  /\ phase' = IF phase = "applied" THEN "machine" ELSE "late"
  /\ UNCHANGED <<input, shared>>

PlanNode(port) ==
  /\ phase = "asked" /\ input.caller = "single"
  /\ answer' = NodePlan(port, input)
  /\ phase' = "node"
  /\ UNCHANGED <<input, shared>>

PlanRegistration(port) ==
  /\ phase = "asked" /\ input.caller = "registration"
  /\ answer' = RegistrationPlan(port, input)
  /\ phase' = "registration"
  /\ UNCHANGED <<input, shared>>

Next == \/ \E port \in Ports : PlanShared(port) \/ PlanNode(port) \/ PlanRegistration(port)
        \/ Apply
        \/ \E to \in input.later : Change(to)
        \/ \E port \in Ports, role \in DOMAIN input.settings \cup {""}, unit \in input.machines :
              PlanMachine(port, role, unit)

Spec == Init /\ [][Next]_vars

-----------------------------------------------------------------------------
Phases == {"asked", "planned", "applied", "changed", "machine", "late", "node", "registration"}

\* The request keeps its form; shared results are those of an applied stage, whose tags
\* belong to roles with a firewall.
TypeOK ==
  /\ phase \in Phases
  /\ Topology(input)
  /\ shared.provider \in Providers \cup {"none"}
  /\ shared = NoShared <=> phase \in {"asked", "planned", "node", "registration"}
  /\ DOMAIN shared.tags \subseteq DOMAIN shared.firewalls
  /\ answer = NoAnswer <=> phase = "asked"

\* the calls that are due, and what a port answers to one
Due == IF phase = "asked" THEN {SharedCall}
       ELSE IF phase \in {"applied", "changed"}
            THEN {MachineCall(role, unit, shared) :
                    role \in DOMAIN input.settings \cup {""}, unit \in input.machines} ELSE {}
Reply(port, call) ==
  IF input.caller = "topology" THEN Request(port, input, call)
  ELSE IF input.caller = "single" THEN NodePlan(port, input) ELSE RegistrationPlan(port, input)
Alike(answers) == \A one, other \in answers : one.why = "ok" => one = other

\* What one port reads and another refuses (see the README): nulls, and two checks Green's
\* single node leaves out.
Lenient == \/ input.faults \cap {"null-peers", "null-settings"} # {}
           \/ input.caller = "single" /\ ("existing" \in input.faults \/ input.external = "alias")

\* The three ports are one resolver: the same requests are accepted and get the same stage,
\* rules, keys, firewall, tag, options and document, whichever port planned the stage before.
PortsAgree == ~Lenient => \A call \in Due : Alike({Reply(port, call) : port \in Ports})

\* An accepted request selects a stage its provider has a template for: references, roles,
\* keys and dynamic addresses never combine to a stage nobody wrote.
StageExists ==
  phase \notin {"asked", "changed"} /\ answer.why = "ok" => answer.stage \in Templates(input.provider)

\* What an entry opens once its provider reads it (external): protocol numbers and ports are
\* read back, an absent pair of ports belongs to a protocol without ports.
Opened(entry) ==
  LET protocol == CASE entry.protocol = "1" -> "icmp" [] entry.protocol = "6" -> "tcp"
                    [] entry.protocol = "17" -> "udp" [] OTHER -> entry.protocol
  IN [protocol |-> protocol, from |-> entry.from,
      ports |-> IF protocol = "icmp" THEN <<0, 0>>
                ELSE <<entry.ports[1], entry.ports[Len(entry.ports)]>>]
\* what rules ask for: each with each of its sources, peers by the addresses of their roles
Asked(o, rules) ==
  LET traffic(rule, from) == [protocol |-> rule.protocol, ports |-> <<rule.lo, rule.hi>>, from |-> from]
      behind(source) == IF ~IsPrivate(source) THEN {source.name}
                        ELSE IF o.provider = "digitalocean" THEN {}
                        ELSE IF o.provider = "oci" THEN {<<"private">>}
                        ELSE {c.name : c \in NetworkCidr(o)}
  IN UNION {{traffic(rule, {<<"host", peer.ip>>}) : peer \in {p \in o.peers : PeerRule(rule) /\ p.role \in rule.peers}}
              \cup {traffic(rule, behind(source)) : source \in rule.sources} : rule \in rules}

\* An accepted request opens exactly the traffic its rules name: no rule is lost under a
\* resource name another rule has, and each role gets its own policy.
RulesExact ==
  phase \in {"planned", "node"} /\ answer.why = "ok" =>
    /\ {Opened(e) : e \in answer.rules} = Asked(input, input.rules)
    /\ \A role \in DOMAIN answer.roleRules :
         {Opened(e) : e \in answer.roleRules[role]} = Asked(input, input.roles[role].rules)

Placeable(o, unit) == unit.fits /\ (o.provider = "oci" /\ o.domains # << >> => unit.index # {})

\* Once the shared stage of a topology was accepted and applied, a machine of any of its roles
\* is accepted by every port exactly if its own node_id fits a name and, on OCI, chooses a
\* domain: a role that cannot be planned is refused before anything exists, not between two
\* machines.  What the trial cannot know is the node_id.
RolesPlanAgree ==
  phase = "applied" /\ ~Lenient =>
    \A port \in Ports, role \in DOMAIN input.roles, unit \in input.machines :
      Request(port, input, MachineCall(role, unit, shared)).why = "ok" <=> Placeable(input, unit)

Bound(machine, role) ==
  machine.why = "ok" =>
    /\ shared.provider = input.provider
    /\ DOMAIN input.roles # {} => /\ role \in DOMAIN shared.firewalls
                                  /\ machine.firewall = {shared.firewalls[role]}
                                  /\ R(input).tags => machine.tag = shared.tags[role]
    /\ DOMAIN input.roles = {} => /\ machine.firewall = shared.firewall
                                  /\ R(input).firewallBound => shared.firewall # {}
    /\ input.mode # "none" /\ input.provider # "oci" => shared.network
    /\ RegistrationOwned(input) /\ R(input).registers => machine.keys = shared.key

\* A machine is bound to what the shared stage left: its provider, its network, the firewall
\* and tag of its own role, and the registration if the stage owns it, also when the request
\* changed since: who edits the roles or the network away gets no machine without them.
NodeBoundToShared ==
  phase \in {"applied", "changed"} =>
    \A port \in Ports, role \in DOMAIN input.settings \cup {""}, unit \in input.machines :
      Bound(Request(port, input, MachineCall(role, unit, shared)), role)

\* A combined document stands on its own: no marker or token is left in it, it refers only to
\* resources it declares, and its machine's key is a literal.
ReferencesResolve ==
  phase \in {"node", "registration"} /\ answer.why = "ok" =>
    LET document == answer.document
    IN /\ \A v \in document.values : /\ v[1] \notin {"token", "marker"}
                                      /\ v[1] = "reference" => v[2] \in document.resources
       /\ \A v \in document.key : v[1] = "literal"
=============================================================================
