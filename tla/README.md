# Verification of colors-compute

TLA+ models of colors-compute, TLC runs over small instances of them, and TLAPS
proofs of their safety for every instance. colors-compute provisions machines and the SSH identities
that reach them. Its three colors (Blue in Python, Green in Clojure, Red in
TypeScript) implement the same contracts (`contracts/`) and ship the same two
process adapters: `agents/ssh-resource.py`, which owns all key material, and
`agents/endpoint-agent.py`, which moves a reserved address. Paths below are
relative to the repository; each definition's source lines are in `PROJECT.json`
under `map`.

## 1. Inventory

| Component | State | Operations | Talks to |
|---|---|---|---|
| SSH authority, remote (`agents/ssh-resource.py`, `Store`, `locked`, `publish`, `resource`) | one JSON record per resource in S3, R2, OCI or GCS: status ready, locked or deleted, lock token, encrypted key; the object's version; a public cache on each workstation | create, inspect, rotate, recover, delete, one load of an agent entry | object store through `aws`/`gcloud`, `ssh-keygen`, other sessions through the record |
| SSH authority, local (same code) | `resource.json`, `.lock`, the cache, a flock | the same | the file system |
| Scoped agent (`agent_session`, the loop of `main`; `blue/.../ssh.py` `start_agent`, `_process_closer`) | adapter process, its ssh-agent, the authority's lock, the caller's pipe, the one cleanup task | start, load, renew, close, cancel | authority, `ssh-add`, signals |
| SSH export (`export_resource`) | three files at a destination, a flock of its parent | install, refresh, inspect, remove | authority (read only), file system |
| Absence verification (`verify_absent`, `absence_*`) | none; reads state objects and provider inventories page by page | verify | object store, provider APIs; `locked` creates under its attestation |
| Compute node (`blue/.../node.py`, `compute_node.clj`, `node.ts`) | working directory, credentials file, OpenTofu state and its lock, machines | build, create, delete, inspect, resolve-connection | `tofu`, `aws`, provider |
| Registrations (`compute_registration`) | as compute node | as compute node | as compute node |
| Command runner, state decoding (`backend.py`, `compute_runtime.clj`, `backend.ts`) | one child process group, its deadline | run, time out, be cancelled | processes |
| Endpoint agent (`agents/endpoint-agent.py`) | none of its own; the address's holder and accepted actions are the provider's | assign, status | provider API |
| Request resolver and planners (`provider_request.py`, `node_plan`, `registration_plan` and their ports; `contracts/provider-recipes.json`) | none; the results of a shared stage pass through the caller | plan a shared stage, a machine of it, one node, a registration | node lifecycle |
| Rendering, controller, contract (`rendering.py`, `controller.py`, `contract.py`) | none (pure) | documents | node lifecycle |
| Diagnostics (`diagnostics.py` and its ports) | none (pure) | errors to reports | node lifecycle |
| `migration/automq_plan.py` | none (pure) | plan | - |

Green and Red are not components of their own: each is a second and third
implementation of the runner, the lifecycle, the resolver and the diagnostics,
and is modelled beside Blue there.

How they interact: a caller runs `ssh_verify_absent`, then `ssh_resource create`
with that attestation, registers the public key with a provider, creates nodes
that carry the identity, opens an agent scope around its SSH work, and may
export the encrypted identity. Every `ssh_*` call is a short-lived adapter
process, so the only shared state is the record in the store and local files.
Nodes share only the OpenTofu state of their state key. A topology is planned in
two rounds: its shared stage is planned and applied, and each machine is planned
with the outputs of that stage. A node operation resolves its request, builds its
directory and drives OpenTofu through the command runner; whatever goes wrong on
the way becomes a report with a code.

What is hard, and what makes each part correct:

* **Authority.** Sessions on different workstations race on one record; a
  conditional put may be applied after its sender has given up; processes die
  holding the lock, and a person recovers it by token while the holder may only
  be slow. Correct: one identity ever, changed only by who holds the lock,
  re-encrypted only by who could unlock it, gone for good once deleted, and no
  lock left behind by a success.
* **Local authority.** Two locks (flock and status) and evidence that outlives
  the authority. Correct: a session's record stays its own while it works, and a
  lost authority is never replaced by another identity.
* **Scoped agent.** Cancellation, three escalating waits, signals that become
  exceptions anywhere, and identities that others rotate between two renewals.
  Correct: nobody leaves `close()` before the cleanup, the agent is reaped, the
  lock is not stranded, renewals come in time.
* **Export.** A crash between or inside any of three writes, authority rotation and
  foreign directories. Correct: what is there is what the manifest lists, never
  older, never anyone else's.
* **Absence.** Nothing is locked while states and inventories are read, and an
  inventory is many requests. Correct: what the attestation excludes did not exist
  when its list was read, and a recorded state always refuses.
* **Node.** The decision is taken from a state read without its lock, and an
  apply breaks off anywhere. Correct: destruction needs consent, "ready",
  "destroyed" and `infrastructure_changes: none` are true.
* **Runner.** A command forks helpers, hangs, outlives its deadline or is
  cancelled. Correct: what was answered for is stopped, every run ends, and no way
  out leaves credentials behind.
* **Requests.** Twenty checks and five stage tables, three times written, over two
  rounds between which the caller may change its mind. Correct: the ports agree,
  what is accepted can be rendered, opens exactly the traffic asked for, and is
  bound to what the shared stage really made.
* **Endpoint.** The provider accepts an action and carries it out later.
  Correct: a confirmed assignment holds.

Every hazard is listed at its line in `PROJECT.json` under `hazards`, with the
properties that would catch it going wrong or, where none does, the reason.

## 2. Modules

### `SshRecord`, `SshAuthority`, `SshIdentity` (the core)

`SshRecord` is the record and the decisions the code takes from it alone:
`MayLock` is the chain of `require`s in `locked()`, `Reservation`, `Published`
and `Tombstone` the three forms in which it is written back. A bundle (encrypted
key, public key, fingerprint) is a record `[key, pass, salt]`: `key` names the
session that generated it, `pass` the passphrase that opens it, `salt` the
session that encrypted it last, so two encryptions with equal passphrases stay
different ciphertexts. Passphrases and sessions are model values.

`SshAuthority` is one resource and its sessions. A session is one adapter call;
`pc` follows `resource()`: read and reserve (`locked`), work under the lock,
publish, write the cache. The store is `[rec, gen]`; `call[s]` is the put of a
session, conditional on the version it read (the ETag, which the content `base[s]`
stands for, or the GCS generation `gen[s]`). `ApplyPut` applies it whenever that
version is still there, also after its sender has given up; `RefusePut` refuses
it. On GCS (`Generations`) the sender then reads the object back and must find
its record (`ReadBackAgrees`). `Faults` adds timeouts, failing commands and
process deaths. `recover` gets the token the
record holds, as its caller would have read it.

`SshIdentity` is what the authority promises: an identity is established at most
once, re-encrypted under the passphrase in force, destroyed for good, and no
caller is told of another key. `Losable` adds the loss of the stored identity,
after which nothing is established in its place. Both authorities refine it.

`SshAuthorityInv` is the inductive invariant, `SshAuthorityProofs` the proofs.
Every other component `X` that is proved about has its invariant and its proofs
in `XProofs` (section 4); the two agents, which share nothing, have theirs together
in `AgentProofs`, and what the endpoint agent defines is therefore called
`EndpointInit`, `EndpointNext` and so on.

### `LocalAuthority`

The same sessions over `resource.json`: `OpenLock` (`O_EXCL`, so `first` tells
whether this session made `.lock`), `Flock` (nonblocking), `Evidence`
(`first_local_lock` and the cache), the same work, and the cache written while
the flock is held. `delete` takes the flock twice, as the code does. `Crash`
frees the flock (the kernel does), `Vanish` removes the record and maybe the
cache.

### `AgentScope`

One scope over several identities: the adapter's statements (`spawn`, one load
per entry, list, announce, `wait`, `reap`), the ssh-agent, the signals that
interrupt the adapter, the closer's one task (it waits 10 seconds after `eof`, 5
after `term` and 5 after `kill`, then gives up with an error; it cleans up either
way: `CleanUp`, `Abandon`), and the tasks that call `close()` and are cancelled. `port` says in which
language: Blue's tasks raise the cancellation they held back, Green's threads get
their interruption flag back, Red's promises cannot be cancelled. Of a record only `holder`
(whose lock token it carries) is kept, the details being `SshAuthority`'s; other
sessions lock it (`Reserve`) and rotate it to a passphrase the scope has not got
or back (`Rotate`), and a load that meets them fails (`LockBusy`, `AddKeyFails`).

While the scope is open, time is counted in ticks: of the commands that load one
entry those that reserve the record take up to `MaxLock`, `ssh-add` up to
`MaxCommand` (and so does the listing that ends a pass) and those that publish up
to `MaxPublish`; an added key lives for `Lifetime`, and the next pass starts half
a lifetime after the last one ended. After `Close` time is not counted
any more (the clocks are put back to zero): a wait may time out whenever its process still runs. `Interrupt` follows
`KeyboardInterrupt` to where it is caught: inside the `try` to the `finally`,
outside it to the end of the process; `missed` remembers the latter.

### `SshExport`

One destination, its three files as `[owner, hashes, identity, temporary]` (the
manifest's hashes, the ciphertext, which a rotation number stands for, and whether
a temporary file lies beside them), the flock, and the writes of
`_export_resource`: journal both hashes, replace, settle on one. Each write is what
`atomic_write` does: `WriteTemporary` makes the file in the export directory, and
`Journal`, `Replace` and `Settle` rename it; `WriteFails` unlinks it, a `Crash`
does not. Authorities are locked and rotated by others meanwhile, and a foreign
directory may appear.

### `ComputeNode`

One state key and its runs. `Observe` is the unlocked read with the checks of
lines 398-451; `Plan` and `Apply` are OpenTofu's (external): a plan is made from
the state of its moment, a saved plan is applied only to the serial it was made
from, the lock is held from `Apply` to `ApplyPersist`, the provider changes
before the state does, and `ApplyBreaks` leaves any of the states in between
(and maybe the lock, which a killed tofu does not release). A machine is named
by the run that created it. `BuildDies` is the truncated `compute.tf.json`.
`overlapped` remembers whether two runs were ever in progress together; runs in
one directory never are, which the contract asks of the caller.

### `Absence`

`verify_absent` over one deployment: `ReadLocal` and `ReadRemote` (or describe and
copy, on GCS) for every listed consumer and registration, then the inventory of
machines and, where keys are registered, of keys, one action per page. What
providers differ in are operators: numbered pages of what exists now
(DigitalOcean, Hetzner), a cursor at the place where the last page ended (Vultr,
Google, Yandex), one answer (AWS, Azure, OCI); a declared total; items hidden by
unreachable zones or a residual token. Meanwhile machines and keys are made and
removed, and states come and go (`moved`, `late` and `stood` are what the
properties remember of it). `CreateIdentity` is the part of `locked` that
accepts the attestation.

### `PortRunner` and `PortNode`

`PortRunner` is one command in the three runners: `port` says whose. The command's
process may fork a helper that leaves the process group or keeps the output open.
Blue and Red kill the group and wait for the output to end; Green enumerates
descendants every 25 ms (`Poll`) and once more before it kills them.

`PortNode` is one run of `compute_node` in one port, from validation to its
answer, and every command of it goes through `PortRunner`. `ComputeNode` has what
several runs do to one state; `PortNode` has what one run makes of every state,
error and interruption: the order of credentials and build, Blue's single read,
Green's pull and probe, Red's probe and pull, the three decision tables
(`BlueDecision`, `GreenDecision`, `RedDecision`), the three readings of the final
state (`BlueFinal`, `GreenFinal`, `RedFinal`) and of a refresh (`Refreshed`), the
three error classifications, and the removal of the credentials with
its own failure. Other runs appear as `OtherRun`, which changes the state while it
is being observed.

### `Recipes`, `ProviderRequest`, `RequestPlan`

`Recipes` is data: what the resolver looks up for each of the eight providers, and
which template stages the package ships. `ProviderRequest` is the resolver. It
answers a call `c` (the stage, the role, the results of the shared stage) for a
request `o` (options and request, which stay as they are from call to call). A
check is a pair of its reason and whether it refuses, and a port is an order of
groups of checks (`Order` in `RequestPlan`, `NodeOrder` for a single node,
`RegistrationOrder` for a key), its reader of CIDRs and its selection of the
stage; `Rendered` and `Entry` are the firewall formats, keyed as the templates key
their resources. A request is a record; a part whose detail tells nothing apart
(a malformed name, a missing setting) is a member of `faults`. `Complete` says what
the resolver relies on of a recipe: its tables lead to stages there are templates
for. `IsRequest` says how a request is written: a public source is named as its
canonical text is split (five fields for an IPv4 range), a private one `private`.

`RequestPlan` is the protocol around it: `PlanShared`, `Apply`, `Change` (the
caller's topology gets other roles, another provider or another network mode),
`PlanMachine` (each machine with its role and a node_id of its own, which may be
too long for a name or end in no number); `PlanNode`, which asks for both stages
in one call with tokens in place of what does not exist yet, and resolves them
afterwards; `PlanRegistration`. Any port may serve any call.

### `EndpointAgent`

`operate()` step by step, and the provider, which carries accepted actions out
later or ends them as errored. Assignments follow one another (electing the
primary is the application's), status reads come at any time. `unsettled` holds
the agents that started while an abandoned action was still to be carried out,
`faulty` whether anything has failed.

### Instances

`MC*` modules extend a component with the symmetry of its model values, and
`MCRequestPlan` with the requests to resolve; the other modules are instantiated
by their cfg alone. `TypeOK` documents the variables of every module; it is run
for the authority and proved for every component that has proofs, all of which
rest on it.

## 3. Runs

Every run has CHECK_DEADLOCK FALSE, because sessions, runs, agents and scopes
run once and then stop; that is the end of the program, not a deadlock.

| Run | Instance | Checks |
|---|---|---|
| `authority` | GCS, 3 sessions, 2 passphrases, faults | `TypeOK`, `OneIdentity`, `DestroyedForGood`, `LockFencing`, `BundleLineage`, `IdentitySpec` |
| `authority_live` | ETag, 3 sessions, no faults, fair | `FailedRotationChangesNothing`, `LockFreed` |
| `local_authority` | 3 sessions, faults, files disappear | `HolderUndisturbed`, `CacheGoneAfterDelete`, `IdentitySpec` |
| `local_first_create` | 2 creates, no faults | `RefusedOnlyAfterDisappearance`: violated |
| `agent_scope` | 3 ports, 2 identities, 2 closing tasks, rotations, faults, fair | `LeavesAfterCleanup`, `AgentReaped`, `QuietEndUnlocks`, `RenewedInTime`, `CloseReturns` |
| `export` | 3 exporters, 2 resources, 2 rotations, crashes | `CiphertextJournaled`, `InstalledIsCurrent`, `OnlyOwnerChanges`, `CiphertextAdvances` |
| `export_interrupted` | 2 exporters, 1 resource | `AlwaysVerifiable`: violated |
| `absence` | 1 consumer, 1 key, 5 providers, pages of 2 items | `RecordedStateRefuses`, `AttestationCovers` |
| `node` | 3 runs, 2 units, 3 directories, faults | `SerialMachineKeepsUnit`, `NoneMeansUntouched`, `DestroyedIsGone`, `NoReadyOrphan`, `DestroyNeedsConsent` |
| `ports` | 1 run in each port, from every state, fair | `PortsAgree`, `AbsentWasMissing`, `AnsweredMeansStopped`, `CredentialsGone`, `EveryRunEnds` |
| `requests` | 8 providers, about 3400 requests | `PortsAgree`, `StageExists`, `RulesExact`, `RolesPlanAgree`, `NodeBoundToShared`, `ReferencesResolve` |
| `endpoint` | 3 agents, 3 nodes, faults, fair | `AssignedHolds`, `AgentSucceeds` |

### What the runs show

* Whatever three sessions do, with late puts and recoveries of sessions that
  still run, there is one identity. The version in the conditional put carries
  this: without it two identities appear (the mutant `AnyVersion`).
* A local authority promises the same even when `resource.json` and the cache
  disappear: `.lock` remains and refuses. The cache is gone after a delete here,
  because only here it is written under the lock.
* A rotation that reports failure changed nothing, and no lock is stranded, while
  no command fails but through a wrong passphrase: that is the question of
  `authority_live`. What a restoring write that fails itself leaves behind is not
  in it (a lock for `recover`).
* A refresh of an export never puts an older ciphertext over a newer one, and in
  whatever step it stops, the manifest lists the ciphertext that is there.
* A closed scope returns under any order of cancellations although nothing is
  assumed about the adapter: who leaves while it still runs has the error "SSH
  adapter did not terminate" for it, five seconds after SIGKILL. An adapter
  that ends by itself, also because of a rotation, leaves no record locked.
* In an open scope no key was added longer ago than half its lifetime, one pass over
  all entries, one command and one publication (`RenewedInTime`): what the code
  ensures, from the time limits of its commands alone. Whether that is within the
  lifetime depends on the numbers: for S3 with the code's own it is not
  (`scope_lifetime`).
* An attestation excludes every consumer that existed when its list was read, but
  for a list that shifts while it is read (`Shifted`). On numbered pages an item
  removed from a page already read draws the next one onto that page, and it goes
  unseen when another item was made meanwhile (the totals agree) or when Hetzner
  leaves its total out. Vultr's cursors do not shift, but the totals hide as much:
  an item that a page leaves out is not missed when one was removed behind it and
  one made ahead. Pages of two items are the smallest that show this, and it was
  the proof (section 4) that asked for them.
* A node's machine is destroyed only with consent, "ready" machines are not lost
  and "none" is true under every interleaving of three runs. That a machine is
  never changed for another unit holds only while runs follow one another
  (`SerialMachineKeepsUnit`; `node_overlap` shows the rest).
* From one state before, one state after an apply or one refresh, the three ports
  go the same way, give the same answer or refuse with the same code, except
  exactly where `BeforeApart`, `AfterApart` and `RefreshApart` say which port stands
  apart (listed below). The property is an equivalence: a difference it names that
  was none would violate it too.
* The three ports accept the same requests with the same result, up to `Lenient`.
  What is compared there are their three readers of CIDRs, three selections of a
  stage and three orders of checks, and which checks a port makes at all; the
  rendering of rules, the keys, tags, options and documents and the replacement of
  tokens are one operator for the three, translated from Blue and read against the
  others, so of these the runs say what they do, not that the ports agree.
* An accepted topology can be completed: once its shared stage was applied, a
  machine of any role is refused by no port but for what only its own node_id
  decides (a name that is too long, an index for OCI's domains). No machine is ever
  bound to another provider, network, role or registration than the applied one,
  also when the request was changed in between.
* Credentials are gone however a run ends, the death of the whole process
  excepted, which is not in `PortNode`.

### Disagreements found

* `local_first_create` (`ssh-resource.py:397`): of two concurrent first creates
  the one that wins the flock may not be the one that made `.lock`, and is then
  refused for a missing authority that never existed; so is every later create.
* `export_interrupted` (`ssh-resource.py:617`): the contract says that an interruption
  leaves a verifiable export (`contracts/ssh-resource.md:146`). A kill before the
  rename of `atomic_write` leaves its temporary file in the export directory, and
  `inspect_export` accepts three names only; install, inspect and remove refuse until
  the file is deleted by hand. `CiphertextJournaled` is what is left of the promise.

Seven more claims do not hold. They are limits of what the passing runs say rather
than questions of their own: each is the claim of a contract without the exception
that a property of a passing run makes. Each is stated in its module, with a
configuration beside it under which TLC finds the counterexample (for example
`tlc -config scope_lifetime.cfg AgentScope`):

| Configuration, module | Property | Contract | What the code does |
|---|---|---|---|
| `scope_lifetime`, `AgentScope` | `KeysStayLoaded` | loaded identities are renewed before their lifetime expires (`ssh-resource.md:76`) | A renewal starts after half the lifetime and with S3 takes up to five commands of 120 seconds for one identity (two to reserve the record, `ssh-add`, one to publish, the listing): 450 + 600 of 900 seconds (`ssh-resource.py:1078`). `RenewedInTime` is what holds. |
| `scope_rotation`, `AgentScope` | `RotationSparesScope` | rotation serializes key loading, and loaded identities continue working (`ssh-resource.md:97`) | A renewal that finds the record locked fails, and so does one that comes after a rotation to another passphrase, since the adapter's passphrases are those it was started with; either ends the scope with its agent (`ssh-resource.py:1085`). |
| `authority_cache`, `SshAuthority` | `CacheRemovedAfterDelete` | the public cache is refreshed under the resource lock and removed by a delete (`ssh-resource.md:100`) | Over a remote backend it is written after the lock was released (`ssh-resource.py:495`), and may come back after a delete. `CacheGoneAfterDelete` holds of a local one. |
| `absence_shifted`, `Absence` | `InventoryComplete` | an incomplete inventory refuses (`ssh-resource.md:205`) | Totals do not show that one item went and another came while the consumer shifted onto a page already read (`ssh-resource.py:831`). `AttestationCovers` excepts it (`Shifted`). |
| `node_overlap`, `ComputeNode` | `ForeignMachineUntouched` | changing the identity is refused (`node.md:40`) | Two overlapping creates for different identities both read an absent state, and the second updates the machine of the first (`node.py:437`). The contract asks callers to serialize runs in one directory only (`node.md:93`). `SerialMachineKeepsUnit` is what holds. |
| `ports_output`, `PortNode` | `EveryRunAnswers` | a command whose output exceeds the deadline is answered as a timeout (`node.md:137`) | Blue (`backend.py:43`) and Red (`backend.ts:29`) wait for the end of the output without a deadline once they have killed: a helper in a group of its own that holds it open blocks the run. `EveryRunEnds` excepts it (`Stuck`). |
| `ports_owned`, `PortNode` | `TimeoutTerminates` | on a timeout the owned processes are terminated (`node.md:137`) | Green kills those it enumerated; a helper forked after its last look lives on (`compute_runtime.clj:64`). `AnsweredMeansStopped` excepts it. |

Seen while modelling, and stated nowhere:

* GCS: `publish()` removes the lock token, so between the conditional copy and
  its read back another session may change the record, and the first reports an
  applied operation as failed (comment at `ssh-resource.py:380`).
* SIGTERM between starting ssh-agent and the `try` (or at the head of its
  `finally`) leaves the agent running until its keys expire (`missed`).

Where the ports differ on one state, refresh or error (`PortsAgree` of `PortNode`,
`CredentialsGone`):

* an empty state before: on delete Green plans, the others answer at once; on create
  with `compute-require-existing-state` Red refuses, Blue and Green plan
  (`contracts/node.md:98`); on resolve-connection Blue's code is `state_unreadable`,
  the others' `state_absent`;
* a machine without an address before: on inspect Blue answers ready, Green and Red
  an error;
* after a create: on an empty state Blue's code is `identity_mismatch`, the others'
  `state_unreadable`; without an address Blue is ready, the others refuse; on
  another unit's machine Blue and Green say `identity_mismatch`, Red
  `state_unreadable`;
* after a delete: on another unit's machine Green says `identity_mismatch`, Blue and
  Red `state_unreadable`;
* a refresh that finds no machine is `state_absent` in Red and `unsafe_plan` in the
  others; one that finds the same machine under other outputs is `unsafe_plan` in
  Blue and `identity_mismatch` in the others;
* an identity change in the directory is `filesystem_error` in Blue and
  `identity_mismatch` elsewhere; a symbolic link before a command is looked for by
  Blue and Red only;
* an unlink failure during a cancellation replaces it in Blue and Green.

Where they differ on one request (`Lenient`, or left out of the instance):

* Red alone reads null `peers` and null `compute-role-settings` as absent;
* Green's single node refuses neither DigitalOcean's older option
  `digitalocean-ssh-authorized-keys` nor a `compute-require-existing-state` that
  is no boolean;
* `network: null` is refused by Blue and defaulted by the others;
  `ssh_registration: null` for a provider without registrations is refused by Red
  alone; IPv4-mapped IPv6 sources are read differently; Green's merge of the two
  stages silently takes the later value where Blue and Red raise;
* a shared stage with an external key and no key ids is accepted for DigitalOcean,
  Hetzner and Vultr although each of its machines will be refused, and OCI's CPU
  count is looked at only for the machine; `contracts/provider-request.md:33` says
  that OCI supports no `private_filter`, its recipe allows it.

### Bounds, and why they are enough

* Three sessions: one to establish an identity, one to be interrupted or slow,
  one to recover, rotate or delete meanwhile. Two passphrases: the one in force
  and a wrong or new one. A session runs one operation, as an adapter call does,
  and versions are counted by the puts the sessions can make, so they need no
  bound of their own.
* One consumer and one key: what the properties exclude is one name. Pages of two
  items, at most two of them and four items ever made: a shift, a replacement, an
  item left out of a page that has others, and the page limit all happen. Two changes (`MaxChanges`): one removal and one
  creation. Five providers stand for the eight: numbered with and without a sure
  total, cursor with a total, token without one, one answer.
* Two identities in a scope: one that is loaded while the other waits. One tick for
  each kind of command and two of lifetime: `RenewedInTime` has no slack in it (a
  renewal that starts half a lifetime later violates it). `scope_lifetime` has the
  code's own numbers. Two closing tasks in each port: the one that starts the
  cleanup and one that joins it, either cancelled.
* One run and at most one helper in `ports`; what several runs do to one another is
  `node`'s. All eight kinds of state, all operations and both switches are in.
* `requests` varies sound requests in families: every combination that selects a
  stage; one malformed part at a time for every provider and caller; every
  spelling of a range; networks, subnets, addresses and peers at their edges; rules
  at theirs; options and placements; single nodes. Addresses are the numbers 0 to
  63, since only containment is asked. Each topology has two machines: one whose node_id
  fits and one whose does not, for OCI one with an index and one without. `AzureRules` is 3 instead of 3996. Two
  malformed parts at once would show only the order of refusals.
* Three node runs: one that creates, one that breaks off or takes over, one that
  observes the result. Two units are the smallest conflict; three directories let
  all runs overlap. Serials are bounded by the number of runs.
* Three agents: one that gives up, one that confirms, one that follows or reads.
* Three exporters and `MaxRotations = 2` (the one counter that is bounded): a
  reader of an old ciphertext, one of a newer one, and an owner conflict.
* A violated run has the smallest instance that shows what it shows: one session,
  exporter, run or scope more than needed adds nothing to a counterexample.

### Fairness

* `authority_live`: every session's progress is weakly fair (the adapter runs on
  and each of its commands ends within its timeout of 120 seconds) and so is the
  store (a put is applied or refused). No faults, because a dead session keeps
  its lock until a person recovers it, and no `recover`, because it is meant for
  dead sessions: `LockFreed` says that without those nothing strands a lock.
* `agent_scope`: signals are delivered, the closer's waits end, and the event
  loop runs its tasks. Nothing is assumed of the adapter.
* `ports` and `ports_output`: the steps of the run and of its runner (the event
  loop or thread goes on, timers fire). Nothing is assumed of the processes, which may hang.
* `endpoint`: each agent and the provider are weakly fair. `AgentSucceeds` speaks
  of runs in which nothing has failed.

## 4. Proofs

All eight proof modules together hold some 8800 proof obligations, each proved
by tlapm. What they state, for every value of the constants:

| Module | Theorem | States | Hypothesis |
|---|---|---|---|
| `SshAuthorityProofs` | `TypeCorrect` | `[]TypeOK` | |
| | `LockIsFenced` | `LockFencing` | |
| | `BundleHasLineage` | `BundleLineage` | |
| | `DestroyedStaysDestroyed` | `[]DestroyedForGood` | |
| | `OnlyOneIdentity` | `[]OneIdentity` | |
| | `ImplementsIdentity` | `IdentitySpec` | |
| | `FailedRotationsUndone` | `[]FailedRotationChangesNothing` | `~Faults`, `~Generations` |
| `LocalAuthorityProofs` | `HolderAlone` | `[]HolderUndisturbed` | |
| | `CacheStaysGone` | `[]CacheGoneAfterDelete` | |
| | `ImplementsIdentity` | `IdentitySpec` | |
| `AgentProofs` | `CallersWait` | `[]LeavesAfterCleanup` | |
| | `ExitReapsAgent` | `[]AgentReaped` | |
| | `EndUnlocks` | `[]QuietEndUnlocks` | |
| | `RenewalPeriod` | `[]RenewedInTime` | |
| | `AssignmentHolds` | `[]AssignedHolds` | |
| `SshExportProofs` | `CrashKeepsJournal` | `[]CiphertextJournaled` | |
| | `RefreshAdvances` | `CiphertextAdvances` | |
| | `InstallsCurrent` | `[]InstalledIsCurrent` | |
| | `OwnerKeeps` | `OnlyOwnerChanges` | |
| `AbsenceProofs` | `RecordedRefuses` | `[]RecordedStateRefuses` | |
| | `AttestationHolds` | `[]AttestationCovers` | |
| `ComputeNodeProofs` | `NoneIsTrue` | `[]NoneMeansUntouched` | |
| | `ReadyIsTracked` | `[]NoReadyOrphan` | |
| | `DestroyedIsTrue` | `[]DestroyedIsGone` | |
| | `SerialRunsKeepUnits` | `[]SerialMachineKeepsUnit` | |
| | `DestructionIsConsented` | `DestroyNeedsConsent` | |
| `PortNodeProofs` | `AbsenceIsSeen` | `[]AbsentWasMissing` | |
| | `KilledIsStopped` | `[]AnsweredMeansStopped` | |
| | `CredentialsRemoved` | `[]CredentialsGone` | |
| | `NoneIsTrue` | `[]NoneMeansUntouched`, of each port | |
| | `PortsConform` | `[]PortsAgree` | |
| `RequestPlanProofs` | `PortsAgreeHolds` | `[]PortsAgree` | |
| | `StageExistsHolds` | `[]StageExists` | |
| | `RulesExactHolds` | `[]RulesExact` | |
| | `RolesPlanAgreeHolds` | `[]RolesPlanAgree` | |
| | `NodeBoundToSharedHolds` | `[]NodeBoundToShared` | |
| | `ReferencesResolveHolds` | `[]ReferencesResolve` | |

Every component's `TypeOK` is proved too (`TypeCorrect`, `EndpointTypeCorrect`,
`PlanTypeCorrect`), and so is its inductive invariant (`Invariance`,
`EndpointInvariance`, `PlanInvariance`; `Inductive` for the authority). Each
statement reads `Spec => ...`, and `EndpointSpec => ...` for the endpoint agent.
Besides the column's hypotheses they use what the modules assume of their
constants: `None` (and `Foreign`, `Torn`) is none of the values it stands beside,
switches are Booleans, operations are among those there are, bounds are naturals.
TLC evaluates the assumptions in every run. Two assumptions of the resolver are
about its data, and say what its tables and callers have to satisfy:

* `RecipesAssumption`: every recipe is `Complete` for the templates of its provider,
  and a provider named azure has neither roles nor IPv6 sources. `requests` evaluates
  it on the recipes of the package, so it holds for what is shipped; of a recipe that
  breaks it the theorems say nothing. Its second half is why `RulesExact` holds on
  Azure at all: only IPv4 ranges and `private` are flattened there, and those can be
  told apart.
* `InputsAssumption`: each request is an `IsRequest`, that is, of the form the model
  gives to a request. What is malformed in it is among its `faults` or a range that
  no port reads; what is excluded is a source whose name its text does not determine.

One theorem has hypotheses that say more, `~Faults` and `~Generations`. With faults
the answer of an applied rotation may be lost; nobody promises otherwise. Without
faults the property still fails on GCS: another session may lock the record between
the conditional copy and its read back (section 3), so the rotation reports failure
though the passphrase has changed. The run `authority_live` is the ETag case too.

### The arguments

**Authority.** None of its properties is inductive, because a session that will
write tomorrow does so from what it read yesterday. `IInv` says what such a
memory is worth. `FenceInv`: a put in flight is one of five kinds (it reserves,
establishes, keeps, re-encrypts or destroys) relative to the record its sender
remembers, a remembered generation is never newer than the store's, and one that
equals it comes with the store's record; so a put that passes the version test
replaces exactly what its sender saw. `TombstoneInv`: once a tombstone was
applied or reported, it is in the store, so no put can pass that test any more
without having seen it, and who has seen it writes nothing. `IdentityInv`: every
key in the store, a memory, an applied put, a cache or an answer is one key, and
none is visible before the first bundle is stored. `PendingInv`: the sender of a
put in flight has not been told that it succeeded. The action properties follow
from `IInv` by the same cases, and the refinement maps each applied put to
`Establish`, `Rotate`, `Destroy` or a stutter, and each answer to a `Tell`.
`FailedRotationsUndone` adds `SaltInv`: where a session's salt is in the store and
its operation is a rotation, the session is past the point where it could fail.

**Local authority.** There is no put in flight, but files disappear. `RecordInHand`:
from taking the lock to its last write a session finds its own record or none.
`FirstToLock`: one session made `.lock`, and what was ever stored came after it;
with `OneIdentity` every key is named by that session, and `NothingYet` closes the
case that the proof found missing: a hollow reservation is the first thing ever
stored, so a key cannot appear beside a second one. The refinement then maps
`Vanish` to the abstract loss.

**Scope.** The three end properties are nearly inductive; `CleanedWhenGone` adds that
the task gives up only once SIGKILL is sent, and `LockInHand` says that until the
closer signals, the adapter holds at most the record of the entry it is at. For the
times, `Timely` bounds every identity's age by where the pass stands: one added in
this pass is younger than the pass, one of the pass before has waited for the rest
of it, the listing, the interval and this pass so far. At its largest that is
`Interval + Entries * PerEntry + MaxCommand`, and the release of a lock when a
renewal fails adds `MaxPublish`.

**Export.** `RefreshInStep` says of each point of a refresh which hash the journal
already has, whether or not a temporary file lies beside it, so that no kill leaves a
ciphertext the manifest does not list (`CiphertextJournaled` is part of the
invariant); `ReadSinceStart` that what was read is not older than the start;
`HolderWorks` keeps others out. For `CiphertextAdvances` it takes `Behind`: what is
installed was current at some time, and what a refresh is about to install was read
after the flock was taken and is at least as new.

**Absence.** `StatesRead` keeps, for every entry that was looked at, that nothing
stood. `Reading` relates a half-read list to the account: everything behind the
reader is clean where answers are exact, and where they are counted, the count is
at most the number of clean items behind it while nothing was removed, or nothing
was made and the total held. Its preservation is arithmetic on ranks and pages
(`RankFacts` and the lemmas after it), for any page size. This proof showed that
`AttestationCovers` had been stated too strongly for pages of more than one item,
which the run's pages of one could not tell; property and run were corrected
(`Shifted`).

**Nodes.** `PlanFits`: while the serial a plan was made from stands, so does what
the plan found, and an apply that takes a machine out of the state has destroyed
it. `MadeByRun` and `KeepsTrack` follow a machine from its apply to the answer
about it. `SerialDecision` is the conditional part: without overlaps a run changes
the state it decided on.

**Ports.** `PortNode` has no constants, so its run already covers every case; the
theorems give the reasons. `Killed` follows what a stopped command may leave
behind, `Removed` the ways out. That the ports agree is a comparison of tables:
`Before`, `After` and `Refreshes` settle for each reading of a state which port
stands apart, and `Explained` lists for which other reasons a stage can fail.

**Requests.** The state machine is thin: `PlanInv` says that an answer is that of a
port to the question of its phase, and that the results a caller holds are the
outputs of a stage that was granted and applied. The weight is in the lemmas about
one call. A list of checks answers "ok" exactly when none of them refuses
(`OkMeansPasses`; the first refusal exists because numbers are well founded), and
the three orders hold the same groups, so a request is granted exactly when every
group passes, in whatever order (`WhyOk`, `RequestOk`). That the ports agree then
needs only that each group and each stage is the same in the three (`GroupsAgree`,
`CidrsAgree`, `StagesAgree`); reasons of refusals are not compared, since those do
depend on the order. `StageHasTemplate` follows a stage through the five
tables. `RulesOpened` shows that no two entries of an accepted request share a
key (`KeysDistinct`): rules differ in their ids, an entry is determined by its rule
and the name of its source, and Azure's flattened keys differ in their length or in
their last field (`NamesApart`); then that every entry is read back as the traffic it
was made from. `RoleGranted` is the step from the shared stage to its machines: what
was tried with stand-ins is granted with the outputs of the stage, because every
check that passed with a stand-in passes with the result it stood for, but for the
name and the placement of the machine (`MachineNamed`, `MachinePlaced`), which its
own node_id decides. `MachineBound` reads the bindings off the checks of `Sharing`. `DocumentStands`
follows each token through the three replacements.

**Endpoint.** `Settled`: what can be under way at each point of the agent that
started last, if nothing was left when it started.

### Only model-checked

* Liveness: `LockFreed`, `CloseReturns`, `EveryRunEnds`, `AgentSucceeds`. It needs
  fairness and `ENABLED`, which the prover does not handle.
* What the violated runs and the seven configurations of section 3 show; their
  properties are false.

For the sake of the proofs the modules use `IF` and disjunctions where several
`CASE` arms could hold, and serials, counters and times are typed as naturals.

## 5. Abstractions and what is not modelled

* A read of the store is one step, and so is a `flock`. `ssh-keygen`, `ssh-add`
  and `tofu` are one step or the few steps named above; what they can leave
  behind is modelled, what they print is not.
* File ownership, modes, links and symbolic links are checks that succeed.
* `AgentScope` counts ticks while the scope is open, the other modules no time at
  all: a timeout may fire whenever what it waits for has not happened.
* `Absence` reads a page in one step, and the shapes of the providers' answers are
  one check that fails or not. A lookup may fail at any time.
* `PortNode`: a state is one of eight kinds, a plan is accepted or refused, and the
  final state is whatever a provider leaves. Wording and redaction of reports are
  left out.
* `ProviderRequest`: names, identifiers and settings are right or malformed; an
  address is a number; the documents are the values that refer to something.
* `ComputeNode` has one backend: comparing `backend.tf.json` has the shape of
  comparing the identity. The validation of the answer's outputs is `PortNode`'s.
* `PortNode` has no death of the whole process (`ComputeNode` has: `ApplyBreaks`,
  `BuildDies`), so what a killed run leaves of its credentials is not a question it
  answers.
* `RulesExact` compares what is opened, and that no two rules share a key. Azure's
  priorities are only counted (`AzureRules`), and a range is what `Cidr` accepts.
* The caller's 180 seconds are shorter than the adapter's own commands may take;
  a slow operation is then terminated with its lock held. The authority's model
  has this as a death of the session.
* A torn `compute.tf.json` (`node.py:213`) fails every later run of its directory
  in the model; the source promises nothing else, so no property speaks of it. An
  endpoint agent that meets an action another one has abandoned is excepted from
  `AssignedHolds` and `AgentSucceeds`: the contract leaves fencing to the caller.
* Not modelled: parsing, passphrase dialogue and cryptography of keys (`ssh-keygen`
  is one success or failure, `KeygenFails`); the layout
  of documents (`rendering.py`), `controller.py` and `contract.py`; the contents of
  the backend file; the argument checks of `ssh_plan` and the environments it
  passes on; the OpenTofu templates themselves; the AutoMQ plan (a pure table without a
  caller); build scripts; the packaged copies (byte copies of `agents/`).

## 6. Plan

Modelled, in this order: the authority, the local authority, nodes, endpoint,
export, the agent scope, absence verification, the runners and lifecycles of the
three ports, and the requests. Proved: every safety property the passing runs
check, and both refinements. What could come next:

1. An abstract unit (one machine, its owner, what callers were told) that
   `ComputeNode` refines, and an abstract installation that `SshExport` refines.
2. `RecoverableLock`: that a lock left behind by a dead session can always be
   recovered by its token, as a safety statement about reachable records.
3. The layout of documents (`rendering.py`, `controller.py`, `contract.py`) and the
   redaction of reports (`diagnostics.py`), both pure functions of their input.
