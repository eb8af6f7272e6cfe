------------------------------ MODULE Recipes ------------------------------
(***************************************************************************)
(* The packaged data the request resolver works from: one recipe for each  *)
(* provider (contracts/provider-recipes.json) and the template stages that *)
(* exist (templates.json).  A table maps a selected stage to the stage     *)
(* that replaces it; a stage that is not in a table stays.                 *)
(***************************************************************************)
EXTENDS Sequences, TLC

NoTable == << >>

Plain == [modes |-> {"created"}, registers |-> FALSE, registersExternal |-> FALSE,
          roles |-> FALSE, tags |-> FALSE, reservedIp |-> FALSE, privateFilter |-> TRUE,
          staticIp |-> FALSE, ipv6 |-> FALSE, discovers |-> FALSE, sizes |-> {"size", "image"},
          reference |-> FALSE, cidrOption |-> TRUE, firewallBound |-> TRUE,
          networkStages |-> NoTable, referenceStages |-> NoTable,
          roleStages |-> NoTable, dynamicStages |-> NoTable]

NoneStages == [node |-> "node-none", shared |-> "shared-none"] @@ "shared-keygen" :> "shared-none-keygen"
RolesOf == "shared" :> "shared-roles" @@ "shared-keygen" :> "shared-roles-keygen"

Packaged ==
  [aws |-> [Plain EXCEPT !.registers = TRUE, !.registersExternal = TRUE, !.roles = TRUE, !.roleStages = RolesOf],
   azure |-> [Plain EXCEPT !.sizes = {"size"}, !.firewallBound = FALSE],
   google |-> [Plain EXCEPT !.firewallBound = FALSE],
   digitalocean |-> [Plain EXCEPT !.modes = {"discovered", "created", "none"}, !.registers = TRUE,
      !.roles = TRUE, !.tags = TRUE, !.reservedIp = TRUE, !.ipv6 = TRUE, !.reference = TRUE, !.firewallBound = FALSE,
      !.networkStages = [none |-> NoneStages, created |->
         "shared" :> "shared-created" @@ "shared-keygen" :> "shared-created-keygen"],
      !.referenceStages = "shared" :> "shared-referenced" @@ "shared-keygen" :> "shared-referenced-keygen",
      !.roleStages = RolesOf @@ "shared-created" :> "shared-created-roles"
         @@ "shared-created-keygen" :> "shared-created-roles-keygen"
         @@ "shared-referenced" :> "shared-referenced-roles"
         @@ "shared-referenced-keygen" :> "shared-referenced-roles-keygen"],
   hcloud |-> [Plain EXCEPT !.modes = {"created", "none"}, !.registers = TRUE, !.privateFilter = FALSE,
      !.staticIp = TRUE, !.ipv6 = TRUE, !.networkStages = [none |-> NoneStages]],
   oci |-> [Plain EXCEPT !.modes = {"discovered"}, !.discovers = TRUE, !.cidrOption = FALSE],
   vultr |-> [Plain EXCEPT !.modes = {"created", "none"}, !.registers = TRUE, !.roles = TRUE,
      !.ipv6 = TRUE, !.networkStages = [none |-> NoneStages], !.roleStages = RolesOf],
   yandex |-> [Plain EXCEPT !.discovers = TRUE, !.sizes = {"image"},
      !.dynamicStages = "node" :> "node-dynamic" @@ "node-discovery" :> "node-discovery-dynamic"]]

\* the stages a package ships templates for
Templates(provider) ==
  {"node", "shared", "shared-keygen"} \cup
  CASE provider \in {"azure", "google"} -> {}
    [] provider = "aws" -> {"shared-roles", "shared-roles-keygen"}
    [] provider = "hcloud" -> {"node-none", "shared-none", "shared-none-keygen"}
    [] provider = "vultr" -> {"node-none", "shared-none", "shared-none-keygen",
                              "shared-roles", "shared-roles-keygen"}
    [] provider = "oci" -> {"node-discovery"}
    [] provider = "yandex" -> {"node-discovery", "node-dynamic", "node-discovery-dynamic"}
    [] provider = "digitalocean" ->
         {"node-none", "shared-none", "shared-none-keygen"} \cup
         {"shared" \o network \o role \o key : network \in {"", "-created", "-referenced"},
                                               role \in {"", "-roles"}, key \in {"", "-keygen"}}

Through(table, stage) == IF stage \in DOMAIN table THEN table[stage] ELSE stage
=============================================================================
