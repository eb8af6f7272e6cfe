--------------------------- MODULE MCRequestPlan ---------------------------
(* Requests for an instance: for each provider, key mode, network mode and  *)
(* set of roles a sound request, and families that vary it: one malformed   *)
(* part, one spelling of a range, networks and addresses at their edges,    *)
(* options, placements and topologies that changed after they were applied. *)
EXTENDS RequestPlan

Range(family, prefix, aligned, plain, name, lo, hi) ==
  [family |-> family, prefix |-> prefix, aligned |-> aligned, plain |-> plain, name |-> name, lo |-> lo, hi |-> hi]
Net(name, lo, hi) == Range(4, "digits", TRUE, TRUE, name, lo, hi)

Everywhere == Net(<<"0", "0", "0", "0", "0">>, 0, 63)
Wide == Net(<<"10", "0", "0", "0", "8">>, 8, 39)
Narrow == Net(<<"10", "0", "0", "0", "16">>, 8, 15)
Across == Net(<<"10", "0", "0", "0", "7">>, 0, 15)
Private == Range(-1, "none", TRUE, TRUE, <<"private">>, 0, 0)

Rule(id, protocol, lo, hi, sources, peers) ==
  [id |-> id, protocol |-> protocol, lo |-> lo, hi |-> hi, sources |-> sources, peers |-> peers]
Ssh == Rule(<<"ssh">>, "tcp", 22, 22, {Everywhere}, {})
Web == Rule(<<"web">>, "tcp", 80, 90, {Wide, Narrow}, {})
Ping == Rule(<<"ping">>, "icmp", 0, 0, {Everywhere}, {})
Inner == Rule(<<"inner">>, "udp", 1, 65535, {Private}, {})
ToPeers == Rule(<<"peers">>, "tcp", 9000, 9000, {}, {"db"})

Role(rules, filter) == [rules |-> rules, filter |-> filter]
NoRoles == << >>
OneRole == [db |-> Role({Ssh}, FALSE)]
TwoRoles == [db |-> Role({Ssh, ToPeers}, FALSE), web |-> Role({Ssh, Web}, TRUE)]
NoSettings == [r \in {"db", "web"} |-> {}]

\* node_ids that fit into a name and end in a number, or not
Numbered(index) == [fits |-> TRUE, index |-> index]
TooLong == [fits |-> FALSE, index |-> {}]

Sound(provider) ==
  [caller |-> "topology", provider |-> provider, keyMode |-> "managed", ids |-> {}, reference |-> {},
   endpoint |-> "none", roles |-> NoRoles, peers |-> {}, settings |-> NoSettings,
   mode |-> IF "created" \in Recipe[provider].modes THEN "created" ELSE "discovered",
   cidr |-> IF provider \in {"digitalocean", "oci"} THEN {} ELSE {Wide},
   optionCidr |-> {}, subnet |-> {}, address |-> {}, id |-> {}, filter |-> FALSE, rules |-> {Ssh},
   image |-> TRUE, static |-> "absent", cpus |-> "one", domains |-> << >>, unit |-> Numbered({0}),
   machines |-> {Numbered({1}), TooLong},
   backups |-> "absent", legacyBackups |-> "absent", sixth |-> "absent",
   registration |-> IF Recipe[provider].registers THEN "match" ELSE "none", external |-> "none",
   later |-> {}, faults |-> {}]

\* a network mode as a request names it
InMode(o, mode) == [o EXCEPT !.mode = mode,
                      !.cidr = IF mode = "created" THEN {Wide} ELSE IF mode = "none" THEN {} ELSE o.cidr]

AllModes == {"created", "discovered", "none"}
Keys == {<<"managed", {}>>, <<"external", {}>>, <<"external", {"e1"}>>}
RoleSets == {NoRoles, OneRole, TwoRoles}
RuleSets == {{Ssh}, {Ssh, Web}, {Ssh, Ping, Inner}, {Web}}

\* what a topology may be changed to
Edit(roles, provider, mode) == [roles |-> roles, settings |-> NoSettings, provider |-> provider, mode |-> mode]

\* every combination that selects a stage
Structures ==
  {[InMode(Sound(p), mode) EXCEPT !.keyMode = key[1], !.ids = key[2], !.roles = roles, !.rules = rules,
        !.id = id, !.image = image, !.static = static,
        !.peers = IF roles = NoRoles THEN {} ELSE {[role |-> "db", ip |-> 10, named |-> TRUE]},
        !.later = IF p \in {"aws", "digitalocean"} THEN
                    {Edit(OneRole, p, mode), Edit(TwoRoles, p, mode), Edit(NoRoles, p, mode),
                     Edit(NoRoles, p, IF mode = "none" THEN "discovered" ELSE "none"),
                     Edit(NoRoles, "vultr", mode)} ELSE {}] :
     p \in Providers, mode \in AllModes, key \in Keys, roles \in RoleSets, rules \in RuleSets,
     id \in {{}, {"uuid"}, {"other"}}, image \in BOOLEAN, static \in {"absent", "true", "false"}}
Selecting ==
  {o \in Structures :
     /\ ~o.image => Recipe[o.provider].discovers
     /\ o.static # "absent" => Recipe[o.provider].dynamicStages # NoTable
     /\ o.id # {} => Recipe[o.provider].reference /\ o.rules = {Ssh}
     /\ o.mode = "none" \/ o.mode \in Recipe[o.provider].modes}

\* one node's call and a registration's
Single(o) == [o EXCEPT !.caller = "single"]
Registering(o) == [o EXCEPT !.caller = "registration"]
Parts == {"recipe", "role", "settings", "null-settings", "blank-setting", "roles", "null-peers", "peers",
          "stage", "profile", "request", "name", "key", "network", "security", "ingress", "protect", "shared",
          "ids", "setting", "literal", "unit", "filename", "workdir", "prefix", "caller_literal", "identity",
          "topology", "fields", "existing", "disks", "backend"}
Malformed ==
  UNION {{[Sound(p) EXCEPT !.faults = {part}, !.caller = caller] :
                      p \in Providers, part \in Parts, caller \in {"topology", "single", "registration"}},
                   {[Sound(p) EXCEPT !.faults = {part}, !.roles = TwoRoles] :
                      p \in {"aws", "vultr", "digitalocean"}, part \in Parts}}

\* every way to write a source or a range
Spellings == {Range(family, prefix, aligned, plain, <<"10", "0", "0", "0", "9">>, 8, 39) :
                family \in {0, 4, 6}, prefix \in {"digits", "padded", "none", "mask", "junk"},
                aligned \in BOOLEAN, plain \in BOOLEAN}
Spelled ==
  {[Sound(p) EXCEPT !.rules = {Ssh, Rule(<<"web">>, "tcp", 80, 90, {c}, {})}] : p \in {"aws", "vultr"}, c \in Spellings}
  \cup {[Sound("aws") EXCEPT !.cidr = {c}] : c \in Spellings}
  \cup {[Sound("azure") EXCEPT !.subnet = {c}] : c \in Spellings}
  \cup {[Sound("aws") EXCEPT !.cidr = {}, !.optionCidr = {c}] : c \in Spellings}

\* networks, subnets, addresses and peers at their edges
Edges ==
  {[Sound(p) EXCEPT !.cidr = cidr, !.subnet = subnet, !.address = address, !.filter = filter] :
     p \in {"hcloud", "aws", "oci"}, cidr \in {{}, {Wide}, {Narrow}}, subnet \in {{}, {Narrow}, {Across}},
     address \in {{}, {8}, {15}, {16}}, filter \in BOOLEAN}
  \cup {[Sound("aws") EXCEPT !.roles = TwoRoles,
           !.peers = {[role |-> role, ip |-> ip, named |-> named]}] :
          role \in {"db", "web", "other"}, ip \in {7, 8, 9, 38, 39}, named \in BOOLEAN}
  \cup {[Sound("vultr") EXCEPT !.cidr = cidr, !.rules = {Ssh, Inner}, !.roles = roles] :
          cidr \in {{}, {Wide}}, roles \in {NoRoles, [db |-> Role({Ssh, Inner}, TRUE)], [db |-> Role({Ssh}, TRUE)]}}
  \cup {[Sound(p) EXCEPT !.endpoint = endpoint] : p \in {"aws", "digitalocean"}, endpoint \in {"none", "application", "other"}}

\* rules: ports at their bounds, identities twice, peers of a role there is none of, Azure's room
Policies ==
  {[Sound(p) EXCEPT !.rules = {Ssh, Rule(id, protocol, lo, hi, {Everywhere}, {})}] :
     p \in {"aws", "azure", "oci", "yandex"}, id \in {<<"ssh">>, <<"web">>}, protocol \in {"tcp", "icmp"},
     lo \in {0, 1, 65535}, hi \in {0, 1, 65535, 65536}}
  \cup {[Sound("azure") EXCEPT !.rules = rules] :
          rules \in {{Ssh, Web}, {Ssh, Web, Ping}, {Rule(<<"ssh">>, "tcp", 1, 30, {Wide, Narrow, Everywhere}, {})}}}
  \cup {[Sound("hcloud") EXCEPT !.rules = {Ssh, Web, Inner}], [Sound("hcloud") EXCEPT !.rules = {Ssh, Web, Ping}]}
  \cup {[Sound("aws") EXCEPT !.roles = [db |-> role]] :
          role \in {Role({Ssh, Rule(<<"peers">>, "udp", 53, 53, {}, peers)}, filter) :
                      peers \in {{}, {"db"}, {"other"}}, filter \in BOOLEAN} \cup
                   {Role({Web}, FALSE), Role({}, FALSE)}}
  \cup {[Sound(p) EXCEPT !.roles = TwoRoles, !.settings = [db |-> set, web |-> {}]] :
          p \in {"aws", "vultr", "digitalocean"}, set \in SUBSET {"size", "image"}}
  \cup {[Sound(p) EXCEPT !.settings = [db |-> {"image"}, web |-> {"size"}]] : p \in Providers}

\* backups, IPv6 and placements
Choices ==
  {[Sound(p) EXCEPT !.backups = backups, !.legacyBackups = legacy, !.sixth = sixth] :
     p \in {"vultr", "digitalocean", "aws"}, backups \in {"absent", "off", "on", "daily", "badhour", "junk"},
     legacy \in {"absent", "on", "junk"}, sixth \in {"absent", "true", "junk"}}
  \cup {[Sound("oci") EXCEPT !.cpus = cpus, !.domains = domains, !.unit = Numbered(index), !.faults = faults,
      !.machines = {Numbered({}), Numbered({2})}] :
          cpus \in {"one", "none", "junk"}, domains \in {<< >>, <<"A">>, <<"A", "B">>},
          index \in {{}, {0}, {1}, {2}}, faults \in {{}, {"domains"}}}
  \cup {[Sound(p) EXCEPT !.unit = TooLong, !.roles = roles, !.caller = caller] :
          p \in {"aws", "hcloud"}, roles \in {NoRoles, OneRole}, caller \in {"topology", "single", "registration"}}
  \cup {[Sound("yandex") EXCEPT !.static = static] : static \in {"absent", "true", "false", "junk"}}

Singles ==
  {Single(o) : o \in {o \in Selecting \cup Choices : o.keyMode = "managed" /\ o.roles = NoRoles}}
  \cup {[Single(Sound(p)) EXCEPT !.registration = registration, !.external = external] :
          p \in Providers, registration \in {"match", "none", "other"}, external \in {"none", "setting", "alias", "path"}}

Instance ==
  Selecting \cup Singles \cup Malformed \cup {Registering(Sound(p)) : p \in Providers}
  \cup Spelled \cup Edges \cup Policies \cup Choices
=============================================================================
