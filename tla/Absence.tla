------------------------------- MODULE Absence -------------------------------
(***************************************************************************)
(* Verifying that no consumer of an SSH identity is left before a lost     *)
(* identity is created anew: verify_absent() reads every recorded state,   *)
(* then the provider's inventory of machines and of key registrations,     *)
(* page by page, while the account goes on changing; locked() creates a    *)
(* remote authority only under that attestation.                           *)
(***************************************************************************)
EXTENDS Naturals, Sequences, FiniteSets

CONSTANTS
    Consumers,      \* machine names a caller may list as consumers
    Registrations,  \* provider key names a caller may list
    Other,          \* the name of every unrelated machine or key
    Tenant,         \* an unrelated machine that was launched with a listed key
    None,
    Providers,      \* the providers of this instance
    PageSize,       \* items on a page
    MaxPages,       \* pages read before giving up
    MaxMade,        \* bound: items ever in one inventory
    MaxChanges      \* bound: what happens in the account meanwhile

AllProviders ==
    {"digitalocean", "hcloud", "vultr", "google", "yandex", "aws", "azure", "oci"}

ASSUME NoneAssumption == None \notin Nat
ASSUME ProvidersAssumption == Providers \subseteq AllProviders
ASSUME BoundsAssumption == {PageSize, MaxPages, MaxMade} \subseteq Nat \ {0} /\ MaxChanges \in Nat

VARIABLES
    provider, backend,  \* of the deployment; backend is where states are kept
    overridden,         \* the environment selects another account than the one verified
    made,       \* list -> the names of all items ever made, oldest first
    live,       \* list -> the indexes of those that exist
    states,     \* entry -> place -> what its recorded state is
    request,    \* [consumers, registrations]
    pc, unread, reading,
    described,  \* the state content a GCS description named, or None
    pages, cursor, count, total,   \* of the list being read
    changes,    \* history: how much happened in the account
    moved,      \* history: list -> what happened to it while it was read
    late,       \* history: list -> names made after it had been read
    stood       \* history: recorded states that were there all along

environment == <<provider, backend, overridden>>
account == <<made, live, states>>
paging  == <<pages, cursor, count, total>>
history == <<changes, moved, late, stood>>
vars == <<environment, account, request, pc, unread, reading, described, paging, history>>

Lists == {"machines", "keys"}

(* Only AWS tells which key a machine was launched with: elsewhere a        *)
(* tenant is like any other machine.                                        *)
Tenants == IF provider = "aws" THEN {Tenant} ELSE {}

NamesIn(list) == IF list = "machines" THEN Consumers \cup {Other} \cup Tenants
                                      ELSE Registrations \cup {Other}

Entries == Consumers \cup Registrations

Places == {"local", "remote"}

(* "present" stands for every state that is not strictly empty.             *)
Contents == {"absent", "empty", "present"}

-----------------------------------------------------------------------------
(* What providers differ in.                                                *)

Registered == provider \in {"aws", "digitalocean", "hcloud", "vultr"}

Numbered == provider \in {"digitalocean", "hcloud"}    \* page 1, 2, ... of what exists now

AllAtOnce == provider \in {"aws", "azure", "oci"}

Counts == provider \in {"digitalocean", "vultr"}    \* every page declares the total

NamesAt(list, indexes) == {made[list][i] : i \in indexes}

Exists(list, name) == name \in NamesAt(list, live[list])

(* The account that is read holds nothing of a deployment that goes to      *)
(* another one.                                                             *)
Inventory(list) == IF overridden THEN {} ELSE live[list]

Before(list, i) == Cardinality({j \in Inventory(list) : j < i})

NumberedItems(list) ==
    {i \in Inventory(list) : /\ pages * PageSize <= Before(list, i)
                             /\ Before(list, i) < (pages + 1) * PageSize}

(* A token stands for the place where the last page ended.                  *)
TokenItems(list) ==
    {i \in Inventory(list) : i > cursor /\ Before(list, i) - Before(list, cursor + 1) < PageSize}

PageItems(list) ==
    IF AllAtOnce THEN Inventory(list)
    ELSE IF Numbered THEN NumberedItems(list) ELSE TokenItems(list)

LastItem(items) == IF items = {} THEN cursor ELSE CHOOSE i \in items : \A j \in items : j <= i

More(list, items) ==
    IF AllAtOnce THEN FALSE
    ELSE IF Numbered THEN Cardinality(Inventory(list)) > (pages + 1) * PageSize
    ELSE \E i \in Inventory(list) : i > LastItem(items)

(* Hetzner may leave the total out, and then goes by its pages alone.       *)
Totals(list) ==
    (IF Counts \/ provider = "hcloud" THEN {Cardinality(Inventory(list))} ELSE {})
    \cup (IF Counts THEN {} ELSE {None})

(* absence_other_provider and absence_provider: names that must not appear. *)
(* AWS also looks at the key every machine was launched with.               *)
Expected(list) ==
    IF list = "keys" THEN request.registrations
    ELSE request.consumers \cup Tenants

(* What each provider's answer must not be: short of the items it hides     *)
(* (unreachable zones, a residual token), or at odds with its own total.    *)
GoogleRejects(hidden) == provider = "google" /\ hidden # {}

AwsRejects(hidden) == provider = "aws" /\ hidden # {}

OciRejects(hidden) == provider = "oci" /\ hidden # {}

Uncounted(declared, items, more) ==    \* mutant: the total is not compared at the end
    pages > 0 /\ total # None /\ total # declared

CountedRejects(declared, items, more) ==
    \/ pages > 0 /\ total # None /\ total # declared
    \/ ~more /\ declared # None /\ count + Cardinality(items) # declared

Hideable == provider \in {"google", "aws", "oci", "digitalocean", "vultr"}

Sequences(list) == UNION {[1 .. n -> NamesIn(list)] : n \in 0 .. MaxMade - 1}

(* Names other than Other are held by at most one item.                     *)
Distinct(log) == \A i, j \in DOMAIN log : log[i] = log[j] => i = j \/ log[i] = Other

(* Nothing is recorded, or one state of one entry.                          *)
InitialStates ==
    LET none == [e \in Entries |-> [p \in Places |-> "absent"]]
    IN {[none EXCEPT ![e][p] = content] : e \in Entries, p \in Places, content \in Contents}

Init ==
    /\ provider \in Providers
    /\ backend \in {"local", "object", "gcs"}
    /\ overridden \in BOOLEAN
    /\ made \in {m \in [Lists -> UNION {Sequences(l) : l \in Lists}] :
                     /\ \A l \in Lists : m[l] \in Sequences(l) /\ Distinct(m[l])
                     /\ Registered \/ m["keys"] = <<>>}
    /\ live = [l \in Lists |-> DOMAIN made[l]]
    /\ states \in {s \in InitialStates : backend # "local" \/ \A e \in Entries : s[e]["remote"] = "absent"}
    /\ request = [consumers |-> {}, registrations |-> {}]
    /\ pc = "idle"
    /\ unread = {} /\ reading = None /\ described = None
    /\ pages = 0 /\ cursor = 0 /\ count = 0 /\ total = None
    /\ changes = 0
    /\ moved = [l \in Lists |-> {}]
    /\ late = [l \in Lists |-> {}]
    /\ stood = {}

Refuse == pc' = "refused"

Recorded(s) == {r \in Entries \X Places : s[r[1]][r[2]] = "present"}

-----------------------------------------------------------------------------
(* verify_absent().                                                         *)

(* Consumers are listed explicitly, and registrations where keys are        *)
(* registered; another account than the deployment's cannot be verified.    *)
Start ==
    /\ pc = "idle"
    /\ \E consumers \in SUBSET Consumers \ {{}}, registrations \in SUBSET Registrations :
          /\ request' = [consumers |-> consumers, registrations |-> registrations]
          /\ unread' = consumers \cup registrations
          /\ IF overridden \/ (registrations # {}) # Registered THEN Refuse ELSE pc' = "local"
    /\ stood' = Recorded(states)
    /\ UNCHANGED <<environment, account, reading, described, paging, changes, moved, late>>

(* absence_empty_state                                                      *)
Acceptable(content) == content \in {"absent", "empty"}

SkipLocal ==    \* mutant: with a remote backend the local file is not looked at
    /\ pc = "local" /\ unread # {}
    /\ \E e \in unread :
          /\ e \in Consumers \/ unread \cap Consumers = {}
          /\ reading' = e /\ unread' = unread \ {e}
          /\ IF backend # "local" THEN pc' = "remote"
             ELSE IF Acceptable(states[e]["local"]) THEN pc' = "local" ELSE Refuse
    /\ UNCHANGED <<environment, account, request, described, paging, history>>

(* absence_state: the local file first, whatever the backend.               *)
ReadLocal ==
    /\ pc = "local" /\ unread # {}
    /\ \E e \in unread :
          /\ e \in Consumers \/ unread \cap Consumers = {}
          /\ reading' = e /\ unread' = unread \ {e}
          /\ IF ~Acceptable(states[e]["local"]) THEN Refuse
             ELSE pc' = IF backend = "local" THEN "local" ELSE "remote"
    /\ UNCHANGED <<environment, account, request, described, paging, history>>

(* One get of an object store, or the description of a GCS object whose     *)
(* generation is then copied.                                               *)
ReadRemote ==
    /\ pc = "remote"
    /\ LET content == states[reading]["remote"]
       IN IF backend = "gcs" /\ content # "absent" THEN pc' = "copy" /\ described' = content
          ELSE /\ IF Acceptable(content) THEN pc' = "local" ELSE Refuse
               /\ UNCHANGED described
    /\ UNCHANGED <<environment, account, request, unread, reading, paging, history>>

(* A generation that was replaced is not there to be copied.                *)
CopyGeneration ==
    /\ pc = "copy"
    /\ IF described = states[reading]["remote"] /\ Acceptable(described) THEN pc' = "local" ELSE Refuse
    /\ described' = None
    /\ UNCHANGED <<environment, account, request, unread, reading, paging, history>>

AskProvider ==
    /\ pc = "local" /\ unread = {}
    /\ pc' = "machines" /\ reading' = None
    /\ UNCHANGED <<environment, account, request, unread, described, paging, history>>

(* The last page of a list has been read.                                   *)
ListDone(list) ==
    /\ pc' = IF list = "machines" /\ Registered THEN "keys" ELSE "verified"
    /\ pages' = 0 /\ cursor' = 0 /\ count' = 0 /\ total' = None

TurnPage(page, items, declared) ==
    /\ pages' = pages + 1
    /\ cursor' = LastItem(page)
    /\ count' = count + Cardinality(items)
    /\ total' = declared
    /\ UNCHANGED pc

(* absence_inventory and its kin: one page, which may leave an item out.    *)
ReadPage(list) ==
    /\ pc = list
    /\ \E declared \in Totals(list),
          hidden \in {{}} \cup IF Hideable THEN {{i} : i \in PageItems(list)} ELSE {} :
          LET page  == PageItems(list)
              items == page \ hidden
              more  == More(list, page)
          IN IF \/ NamesAt(list, items) \cap Expected(list) # {}
                \/ GoogleRejects(hidden) \/ AwsRejects(hidden) \/ OciRejects(hidden)
                \/ CountedRejects(declared, items, more)
                \/ more /\ (items = {} \/ pages + 1 = MaxPages)
             THEN Refuse /\ UNCHANGED paging
             ELSE IF more THEN TurnPage(page, items, declared) ELSE ListDone(list)
    /\ UNCHANGED <<environment, account, request, unread, reading, described, changes, moved, late, stood>>

(* A lookup fails, or answers what no provider should: a page read before,  *)
(* an unknown link, invalid JSON.                                           *)
LookupFails ==
    /\ pc \in {"local", "remote", "copy", "machines", "keys"}
    /\ Refuse
    /\ UNCHANGED <<environment, account, request, unread, reading, described, paging, history>>

(* locked(): the missing remote authority is created under the attestation. *)
CreateIdentity ==
    /\ pc = "verified"
    /\ pc' = "created"
    /\ UNCHANGED <<environment, account, request, unread, reading, described, paging, history>>

-----------------------------------------------------------------------------
(* The account goes on changing.                                            *)

Happens == /\ pc \notin {"idle", "refused", "created"}
        /\ changes < MaxChanges
        /\ changes' = changes + 1

WasRead(list) == pc = "verified" \/ (pc = "keys" /\ list = "machines")

Note(list, change) ==
    moved' = IF pc = list THEN [moved EXCEPT ![list] = @ \cup {change}] ELSE moved

Make(list, name) ==
    /\ Happens /\ Len(made[list]) < MaxMade
    /\ name # Other => ~Exists(list, name)
    /\ made' = [made EXCEPT ![list] = Append(@, name)]
    /\ live' = [live EXCEPT ![list] = @ \cup {Len(made[list]) + 1}]
    /\ Note(list, "made")
    /\ late' = IF WasRead(list) THEN [late EXCEPT ![list] = @ \cup {name}] ELSE late
    /\ UNCHANGED <<environment, states, request, pc, unread, reading, described, paging, stood>>

Remove(list, i) ==
    /\ Happens /\ i \in live[list]
    /\ live' = [live EXCEPT ![list] = @ \ {i}]
    /\ Note(list, "removed")
    /\ UNCHANGED <<environment, made, states, request, pc, unread, reading, described, paging,
                   late, stood>>

(* A deployment records its state, or a destroy leaves an empty one.        *)
SaveState(e, place, content) ==
    /\ Happens /\ content \in {"present", "empty"} /\ content # states[e][place]
    /\ backend = "local" => place = "local"
    /\ content = "empty" => states[e][place] = "present"
    /\ states' = [states EXCEPT ![e][place] = content]
    /\ stood' = IF content = "empty" THEN stood \ {<<e, place>>} ELSE stood
    /\ UNCHANGED <<environment, made, live, request, pc, unread, reading, described, paging,
                   moved, late>>

Next ==
    \/ Start \/ ReadLocal \/ ReadRemote \/ CopyGeneration \/ AskProvider \/ LookupFails
    \/ CreateIdentity
    \/ \E l \in Lists : \/ ReadPage(l)
                        \/ \E n \in NamesIn(l) : Make(l, n)
                        \/ \E i \in live[l] : Remove(l, i)
    \/ \E e \in Entries, p \in Places, c \in Contents : SaveState(e, p, c)

Spec == Init /\ [][Next]_vars

-----------------------------------------------------------------------------
(* Properties.                                                              *)

Answered == pc \in {"verified", "created"}

(* Every variable keeps to its type.                                        *)
TypeOK ==
    /\ provider \in Providers /\ backend \in {"local", "object", "gcs"} /\ overridden \in BOOLEAN
    /\ made = [l \in Lists |-> made[l]] /\ live = [l \in Lists |-> live[l]]
    /\ moved = [l \in Lists |-> moved[l]] /\ late = [l \in Lists |-> late[l]]
    /\ \A l \in Lists : /\ made[l] \in Seq(NamesIn(l)) /\ Len(made[l]) <= MaxMade
                        /\ live[l] \subseteq 1 .. Len(made[l])
                        /\ moved[l] \subseteq {"made", "removed"}
                        /\ late[l] \subseteq NamesIn(l)
    /\ states \in [Entries -> [Places -> Contents]]
    /\ request \in [consumers : SUBSET Consumers, registrations : SUBSET Registrations]
    /\ pc \in {"idle", "local", "remote", "copy", "machines", "keys", "refused",
               "verified", "created"}
    /\ unread \subseteq Entries /\ reading \in Entries \cup {None}
    /\ pages \in 0 .. MaxPages - 1 /\ cursor \in 0 .. MaxMade /\ count \in 0 .. MaxPages * PageSize
    /\ total \in 0 .. MaxMade \cup {None}
    /\ described \in Contents \cup {None}
    /\ changes \in 0 .. MaxChanges
    /\ stood \subseteq Entries \X Places

(* A state that records resources of a listed entry all along, in the       *)
(* backend or in a stale local file, never lets the identity be created.    *)
RecordedStateRefuses ==
    Answered => \A e \in request.consumers \cup request.registrations :
        /\ <<e, "local">> \notin stood
        /\ backend # "local" => <<e, "remote">> \notin stood

(* The pages were checked by their totals alone while an item was removed   *)
(* and another one made, or the total was left out: numbered pages shift    *)
(* under their reader, and an item left out of a page is not missed.        *)
Shifted(list) ==
    /\ Counts \/ provider = "hcloud"
    /\ "removed" \in moved[list]
    /\ "made" \in moved[list] \/ provider = "hcloud"

(* Under an attestation, a consumer or registration exists only if it was   *)
(* made after its list had been read to the end, or the list shifted while  *)
(* it was read: the window of the attestation is nothing wider.             *)
AttestationCovers ==
    Answered =>
        \A l \in Lists : \A n \in Expected(l) :
            Exists(l, n) => n \in late[l] \/ Shifted(l)

(* The contract: "incomplete provider inventory refuses verification".     *)
(* Whatever existed all along and is still there was seen, and refused.  It *)
(* does not hold: a list that shifted while it was read leaves an item out  *)
(* and still adds up.                                                       *)
InventoryComplete ==
    Answered => \A l \in Lists : \A n \in Expected(l) : Exists(l, n) => n \in late[l]

=============================================================================
