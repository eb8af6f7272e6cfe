-------------------------- MODULE ProviderRequest --------------------------
(***************************************************************************)
(* The request resolver of the three ports: what a request is refused for  *)
(* and in which order, the template stage it selects, the firewall rules   *)
(* it renders and the identities the rendered machine is bound to.         *)
(*                                                                         *)
(* A request o carries the options and the request itself, a call c the    *)
(* stage it is planned for, the role of the machine, its unit and the      *)
(* results of the shared stage.  A unit is what tells of a node_id: if it  *)
(* fits into a name (its request names the machine, or the profile and the *)
(* node_id together are no longer than a name), and the number it ends in. *)
(* Optional values are sets of at most one element.  A part of the request *)
(* whose detail tells nothing apart is one name in o.faults: it is there   *)
(* when that part is malformed.  Address ranges are intervals of a small   *)
(* address space; a CIDR also says how it was written.                     *)
(***************************************************************************)
EXTENDS Integers, FiniteSets, Recipes

CONSTANTS Recipe,     \* the recipes the resolver works from, by provider
          AzureRules  \* how many rules fit between Azure's priorities (3996 in the code)
ASSUME AzureRulesAssumption == AzureRules \in Nat \ {0}

Providers == DOMAIN Recipe
Ports == {"blue", "green", "red"}

\* what the shared stage has left behind: nothing yet
NoShared == [provider |-> "none", key |-> {}, network |-> FALSE, firewall |-> {},
             firewalls |-> << >>, tags |-> << >>]

-----------------------------------------------------------------------------
(* The three readers of a CIDR.  family is 4, 6 or 0 for neither; prefix is how the part   *)
(* after the slash is written; aligned says no host bit is set; plain that the address is  *)
(* in its canonical spelling.  six allows the sixth family.  The source "private" has      *)
(* family -1.                                                                              *)
BlueCidr(c, six) ==
  LET parsed == c.family # 0 /\ c.aligned /\ c.prefix # "junk" /\ (c.prefix = "mask" => c.family = 4)
      same == c.plain /\ c.prefix = "digits"
  IN IF ~parsed THEN "cidr" ELSE IF same /\ (c.family = 4 \/ six) THEN "ok" ELSE "family"

GreenCidr(c, six) ==
  LET prefix == c.prefix \in {"digits", "padded", "none"} \cup (IF c.family = 4 THEN {"mask"} ELSE {})
      canonical == c.plain /\ c.prefix = "digits"
  IN IF c.family = 4
     THEN IF ~prefix \/ ~c.aligned THEN "cidr" ELSE IF canonical THEN "ok" ELSE "family"
     ELSE IF c.family # 6 \/ ~prefix \/ ~c.aligned THEN "cidr"
     ELSE IF six /\ canonical THEN "ok" ELSE "family"

RedCidr(c, six) ==
  LET unreadable == \/ c.family = 0
                    \/ c.prefix = "junk"
                    \/ c.prefix = "mask" /\ c.family # 4
      text == c.plain /\ c.prefix = "digits"
  IN IF unreadable \/ ~c.aligned THEN "cidr"
     ELSE IF c.family = 6 THEN (IF six /\ text THEN "ok" ELSE "family")
     ELSE IF text THEN "ok" ELSE "family"

Cidr(port, c, six) ==
  CASE port = "blue" -> BlueCidr(c, six) [] port = "green" -> GreenCidr(c, six) [] OTHER -> RedCidr(c, six)

-----------------------------------------------------------------------------
(* What the checks are made of.  A check is a pair of its reason and whether it refuses.   *)
R(o) == Recipe[o.provider]
Bad(o, part) == <<part, part \in o.faults>>

RegistrationOwned(o) == o.keyMode = "managed" \/ R(o).registersExternal
Primary(o, c) == IF RegistrationOwned(o) THEN c.shared.key ELSE o.reference
Ids(o, c) == IF RegistrationOwned(o) /\ Primary(o, c) # {} THEN Primary(o, c) ELSE o.ids

\* the network's range: the request's, or the provider option's where there is one
NetworkCidr(o) == IF o.cidr # {} THEN o.cidr ELSE IF R(o).cidrOption THEN o.optionCidr ELSE {}
Subnet(o) == IF o.subnet # {} THEN o.subnet ELSE NetworkCidr(o)

IsPrivate(source) == source.family = -1
PeerRule(rule) == rule.sources = {}

\* OCI alone: CPUs and an availability domain for each node, by the number its node_id ends in
Placement(o, c) ==
  IF o.provider # "oci" THEN << >>
  ELSE << <<"cpus", c.stage = "node" /\ o.cpus # "one">>,
          <<"domains", o.domains # << >> /\ "domains" \in o.faults>>,
          <<"index", o.domains # << >> /\ c.stage = "node" /\ c.unit.index = {}>> >>
Domain(o, unit) == IF o.provider = "oci" /\ o.domains # << >> /\ unit.index # {}
                   THEN {o.domains[((CHOOSE i \in unit.index : TRUE) % Len(o.domains)) + 1]} ELSE {}

\* the role of the machine and the size and image it sets; Red reads a null as no settings
RoleChecks(port, o, c) ==
  IF c.role = "" THEN << >>
  ELSE << Bad(o, "role"), Bad(o, "settings"), <<"settings", "null-settings" \in o.faults /\ port # "red">>,
          <<"setting", ~ o.settings[c.role] \subseteq R(o).sizes>>,
          <<"settings", "blank-setting" \in o.faults>> >>

\* peers name a declared role, by a member of that role's numbering; Red reads null as none
PeerChecks(port, o) ==
  << <<"peers", "null-peers" \in o.faults /\ port # "red">>,
     <<"peers", \E peer \in o.peers : peer.role \notin DOMAIN o.roles>>, Bad(o, "peers"),
     <<"peer_id", \E peer \in o.peers : ~peer.named>> >>

\* a machine without a private network has no private rule, no roles and no private filter
NamesNetwork(o) == o.cidr \cup o.subnet \cup o.address # {} \/ o.filter
PrivateRule(rule) == PeerRule(rule) \/ \E source \in rule.sources : IsPrivate(source)
\* mutant: roles are not thought of
PublicOnlyRules(o) ==
  <<"public_only", o.mode = "none" /\ (NamesNetwork(o) \/ \E rule \in o.rules : PrivateRule(rule))>>
PublicOnly(o) ==
  <<"public_only", /\ o.mode = "none"
                   /\ NamesNetwork(o) \/ DOMAIN o.roles # {} \/ \E rule \in o.rules : PrivateRule(rule)>>

Form(o) ==
  << <<"endpoint", o.endpoint = "other">>,
     <<"endpoint_capability", o.endpoint = "application" /\ ~R(o).reservedIp>>,
     Bad(o, "stage"), Bad(o, "profile"), Bad(o, "request"),
     <<"roles", DOMAIN o.roles # {} /\ ("roles" \in o.faults \/ ~R(o).roles)>> >>
\* the shared stage is named after the profile, a machine after its node_id too
Networking(o, c) ==
  << <<"name", "name" \in o.faults \/ (c.stage = "node" /\ ~c.unit.fits)>>, Bad(o, "key"), Bad(o, "network"),
     <<"mode", o.mode \notin R(o).modes>>,
     <<"reference", o.id # {} /\ ~(R(o).reference /\ o.mode = "discovered" /\ o.id = {"uuid"})>>,
     Bad(o, "security"),
     PublicOnly(o),
     <<"filter", o.filter /\ ~R(o).privateFilter>>,
     <<"ingress", o.rules = {}>> >>

\* The rules of a request: well formed, of sources that can be rendered, and at least one   *)
\* of them lets SSH in from outside.  (When several rules are bad the code names the first.)*)
Ingress(port, o) ==
  LET public == {pair \in o.rules \X UNION {rule.sources : rule \in o.rules} :
                   pair[2] \in pair[1].sources /\ ~IsPrivate(pair[2])}
      read(pair) == Cidr(port, pair[2], R(o).ipv6)
      portsFit(rule) == IF rule.protocol = "icmp" THEN rule.lo = 0 /\ rule.hi = 0
                        ELSE 1 <= rule.lo /\ rule.lo <= rule.hi /\ rule.hi <= 65535
  IN << Bad(o, "ingress"),
        <<"ingress", \E one, other \in o.rules : one # other /\ one.id = other.id>>,
        <<"ingress", \E rule \in o.rules : ~portsFit(rule)>>,
        <<"peer_roles", \E rule \in o.rules : PeerRule(rule) /\
                           (~R(o).roles \/ rule.peers = {} \/ ~ rule.peers \subseteq DOMAIN o.roles)>>,
        <<"filter", o.provider = "hcloud" /\ \E rule \in o.rules : \E source \in rule.sources : IsPrivate(source)>>,
        <<"cidr", \E pair \in public : read(pair) = "cidr">>,
        <<"family", \E pair \in public : read(pair) = "family">>,
        <<"ssh", ~\E pair \in public : pair[1].protocol = "tcp" /\ pair[1].lo <= 22 /\ 22 <= pair[1].hi>> >>

\* a range of the request or the options must be written in its canonical form
Readable(port, range) == << <<"cidr", \E c \in range : Cidr(port, c, FALSE) = "cidr">>,
                            <<"family", \E c \in range : Cidr(port, c, FALSE) = "family">> >>
CreatedNeedsRange(o) ==
  << <<"created", o.mode = "created" /\ DOMAIN R(o).networkStages # {} /\ NetworkCidr(o) = {}>> >>
PeersInside(o) == << <<"peers_outside", \E c \in NetworkCidr(o), peer \in o.peers :
                                           peer.ip <= c.lo \/ c.hi <= peer.ip>> >>
SubnetInside(o) == << <<"subnet", \E c \in NetworkCidr(o), s \in Subnet(o) : s.lo < c.lo \/ c.hi < s.hi>> >>
PrivateAddress(o) ==
  << <<"static_capability", o.address # {} /\ ~R(o).staticIp>>,
     <<"address", \E a \in o.address : ~\E s \in Subnet(o) : s.lo <= a /\ a <= s.hi>> >>

\* mutant: a machine's role must be declared, not applied
SharingDeclared(o, c) ==
  << Bad(o, "protect"), Bad(o, "shared"),
     <<"shared_provider", c.stage = "node" /\ c.shared.provider # o.provider>>,
     <<"role_firewall", c.stage = "node" /\ DOMAIN o.roles # {} /\ c.role \notin DOMAIN o.roles>>,
     Bad(o, "ids"),
     <<"keys", c.stage = "node" /\ R(o).registers /\ Ids(o, c) = {}>> >>
\* what the node stage takes from the shared stage, and the keys of the machine
Sharing(o, c) ==
  << Bad(o, "protect"), Bad(o, "shared"),
     <<"shared_provider", c.stage = "node" /\ c.shared.provider # o.provider>>,
     <<"role_firewall", c.stage = "node" /\ DOMAIN o.roles # {} /\
                        (c.role \notin DOMAIN o.roles \/ c.role \notin DOMAIN c.shared.firewalls)>>,
     <<"role_tag", c.stage = "node" /\ DOMAIN o.roles # {} /\ R(o).tags /\ c.role \notin DOMAIN c.shared.tags>>,
     Bad(o, "ids"),
     <<"keys", c.stage = "node" /\ R(o).registers /\ Ids(o, c) = {}>> >>

-----------------------------------------------------------------------------
(* Rules.  A rule is expanded to one entry for each source, under a key the template uses  *)
(* for its resource; what an entry opens is read back from how the format writes it.       *)
Expanded(o) ==
  UNION {IF PeerRule(rule)
         THEN {[key |-> <<rule.id, "peer", peer.ip>>, rule |-> rule, range |-> {<<"host", peer.ip>>}, private |-> FALSE] :
                 peer \in {p \in o.peers : p.role \in rule.peers}}
         ELSE {[key |-> <<rule.id, source.name>>, rule |-> rule, private |-> IsPrivate(source),
                range |-> IF ~IsPrivate(source) THEN {source.name}
                          ELSE IF o.provider = "digitalocean" THEN {}
                          ELSE IF o.provider = "oci" THEN {<<"private">>}
                          ELSE {c.name : c \in NetworkCidr(o)}] : source \in rule.sources}
         : rule \in o.rules}

RuleChecks(o) ==
  << <<"private_range", o.provider \notin {"digitalocean", "oci"} /\ \E e \in Expanded(o) : e.private /\ e.range = {}>>,
     <<"many", o.provider = "azure" /\ Cardinality(Expanded(o)) > AzureRules>> >>

\* Azure's resource names: the colon between rule and source, the dots and the slash become dashes
\* mutant: the address alone names the resource, without its prefix
FlatAddress(key) == key[1] \o SubSeq(key[2], 1, Len(key[2]) - 1)
Flat(key) == key[1] \o key[2]
Key(provider, key) == IF provider = "azure" THEN Flat(key) ELSE key

\* how a format writes the protocol and the ports of an entry
Entry(provider, e) ==
  LET icmp == e.rule.protocol = "icmp"
  IN [protocol |-> IF provider = "oci" THEN (CASE icmp -> "1" [] e.rule.protocol = "tcp" -> "6" [] OTHER -> "17")
                   ELSE e.rule.protocol,
      ports |-> IF icmp THEN IF provider = "aws" THEN <<-1, -1>>
                             ELSE IF provider = "azure" THEN <<"*">> ELSE << >>
                ELSE IF provider \in {"aws", "yandex", "oci"} \/ e.rule.lo # e.rule.hi
                     THEN <<e.rule.lo, e.rule.hi>> ELSE <<e.rule.lo>>,
      from |-> e.range]

\* the rendered document: a list for hcloud, an object keyed by name elsewhere, whose second
\* value under a name replaces the first
Rendered(o) ==
  LET entries == Expanded(o)
      under(k) == Entry(o.provider, CHOOSE e \in entries : Key(o.provider, e.key) = k)
  IN IF o.provider = "hcloud" THEN {Entry(o.provider, e) : e \in entries}
     ELSE {under(k) : k \in {Key(o.provider, e.key) : e \in entries}}

-----------------------------------------------------------------------------
(* The template stage.                                                                     *)
Base(o, c) == IF c.stage = "shared" /\ RegistrationOwned(o) /\ R(o).registers THEN "shared-keygen" ELSE c.stage
Network(o, stage) ==
  IF o.mode \in DOMAIN R(o).networkStages THEN Through(R(o).networkStages[o.mode], stage) ELSE stage
Referenced(o, stage) == IF o.id # {} THEN Through(R(o).referenceStages, stage) ELSE stage
Discovers(o, c) == c.stage = "node" /\ R(o).discovers /\ ~o.image
\* a stage without a role variant has no entry: the code fails on it instead of planning
Roles(o, c, stage) == IF c.stage # "shared" \/ DOMAIN o.roles = {} THEN stage
                   ELSE IF stage \in DOMAIN R(o).roleStages THEN R(o).roleStages[stage] ELSE "missing"
Dynamic(o, stage) == IF o.static = "false" THEN Through(R(o).dynamicStages, stage) ELSE stage

BlueStage(o, c) ==
  LET network == Referenced(o, Network(o, Base(o, c)))
      image == IF Discovers(o, c) THEN "node-discovery" ELSE network
  IN Dynamic(o, Roles(o, c, image))
\* mutant: the roles of a shared stage are selected before its referenced network
GreenStageRolesFirst(o, c) ==
  LET selected == IF Discovers(o, c) THEN "node-discovery" ELSE Base(o, c)
  IN Dynamic(o, Referenced(o, Roles(o, c, Network(o, selected))))
GreenStage(o, c) ==
  LET selected == IF Discovers(o, c) THEN "node-discovery" ELSE Base(o, c)
      network == Network(o, selected)
  IN Dynamic(o, Roles(o, c, Referenced(o, network)))
RedStage(o, c) ==
  LET selected == Referenced(o, Network(o, Base(o, c)))
  IN Dynamic(o, Roles(o, c, IF Discovers(o, c) THEN "node-discovery" ELSE selected))
Stage(port, o, c) ==
  CASE port = "blue" -> BlueStage(o, c) [] port = "green" -> GreenStage(o, c) [] OTHER -> RedStage(o, c)

(* What the resolver relies on of each recipe: every table leads to templates there are,   *)
(* roles have a template for each shared stage but one without a network, and a discovered *)
(* image excludes a selected network.                                                      *)
Complete(recipe, templates) ==
  LET shared == {"shared"} \cup (IF recipe.registers THEN {"shared-keygen"} ELSE {})
      in(mode, stage) == IF mode \in DOMAIN recipe.networkStages
                         THEN Through(recipe.networkStages[mode], stage) ELSE stage
      by(mode, reference, stage) ==
        IF reference THEN Through(recipe.referenceStages, in(mode, stage)) ELSE in(mode, stage)
  IN /\ shared \subseteq templates
     /\ \A mode \in recipe.modes, reference \in BOOLEAN : (reference => recipe.reference /\ mode = "discovered") =>
          /\ by(mode, reference, "node") \in templates
          /\ \A stage \in shared :
               LET selected == by(mode, reference, stage)
               IN /\ selected \in templates
                  /\ mode # "none" /\ recipe.roles =>
                       selected \in DOMAIN recipe.roleStages /\ recipe.roleStages[selected] \in templates
     /\ \A stage \in templates : Through(recipe.dynamicStages, stage) \in templates
     /\ recipe.discovers =>
          /\ "node-discovery" \in templates \ DOMAIN recipe.referenceStages
          /\ \A mode \in DOMAIN recipe.networkStages : "node-discovery" \notin DOMAIN recipe.networkStages[mode]
\* Azure's flattened names need IPv4 sources and no peers
ASSUME RecipesAssumption ==
  /\ "none" \notin Providers
  /\ \A provider \in Providers : Complete(Recipe[provider], Templates(provider))
  /\ "azure" \in Providers => ~Recipe["azure"].roles /\ ~Recipe["azure"].ipv6
=============================================================================
