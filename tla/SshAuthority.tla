---------------------------- MODULE SshAuthority ----------------------------
(***************************************************************************)
(* The authority of one SSH resource kept in a remote object store, and    *)
(* the adapter sessions that work on it: resource() and agent_session()    *)
(* over locked(), Store.read, Store.write and publish() of                 *)
(* agents/ssh-resource.py.                                                 *)
(*                                                                         *)
(* A session reads the object, conditionally replaces it by a "locked"     *)
(* copy that carries its token, works, and conditionally publishes the     *)
(* result.  A put is a message: it may be applied or refused at any later  *)
(* time, also after the session timed out waiting for it or died.          *)
(***************************************************************************)
EXTENDS SshRecord, Naturals, FiniteSets

CONSTANTS
    Ops,          \* the operations the sessions of an instance may run
    Generations,  \* TRUE: versions are GCS generations and a write reads back
                  \* FALSE: the version is the content's ETag (S3, R2, OCI)
    Faults        \* TRUE: commands time out or fail and processes die

ASSUME OpsAssumption == Ops \subseteq Operations
ASSUME SwitchAssumption == Generations \in BOOLEAN /\ Faults \in BOOLEAN

VARIABLES
    store,    \* the object: [rec, gen]
    cache,    \* host -> key in its identity-<hash>.pub, or None
    pc,       \* session -> where it is
    req,      \* session -> its request
    base,     \* session -> the record it last knew to be in the store
    gen,      \* session -> the generation it knows that record by
    prev,     \* session -> the record it found when it took the lock
    call,     \* session -> its put: [rec, state]
    outcome   \* session -> what it told its caller: [kind, key]

vars == <<store, cache, pc, req, base, gen, prev, call, outcome>>

Waiting == {"reserve", "bundle", "restore", "publish", "release", "bury"}

Locations == Waiting \cup
    {"idle", "inspect", "precheck", "lock", "held", "cache", "done"}

Calls == [rec : Records, state : {"none", "sent", "applied", "refused"}]

NoCall == [rec |-> Absent, state |-> "none"]

Outcomes == [kind : {"none", "ok", "destroyed", "failed"},
             key  : Sessions \cup {None}]

NoOutcome == [kind |-> "none", key |-> None]
Failure   == [kind |-> "failed", key |-> None]
Destroyed == [kind |-> "destroyed", key |-> None]

Answer(key) == [kind |-> "ok", key |-> key]

NoRequest == [op |-> "inspect", pass |-> None, newPass |-> None,
              expected |-> None, token |-> None, attested |-> FALSE,
              host |-> None]

(* The identities callers have on file: what earlier sessions answered.     *)
Known == {outcome[s].key : s \in {t \in Sessions : outcome[t].kind = "ok"}}

-----------------------------------------------------------------------------

Init ==
    /\ store = [rec |-> Absent, gen |-> 0]
    /\ cache = [h \in Hosts |-> None]
    /\ pc = [s \in Sessions |-> "idle"]
    /\ req = [s \in Sessions |-> NoRequest]
    /\ base = [s \in Sessions |-> Absent]
    /\ gen = [s \in Sessions |-> 0]
    /\ prev = [s \in Sessions |-> Absent]
    /\ call = [s \in Sessions |-> NoCall]
    /\ outcome = [s \in Sessions |-> NoOutcome]

Goto(s, label) == pc' = [pc EXCEPT ![s] = label]

Finish(s, result) ==
    /\ Goto(s, "done")
    /\ outcome' = [outcome EXCEPT ![s] = result]

(* Store.write up to the response of the put command.                       *)
Send(s, rec, label) ==
    /\ call' = [call EXCEPT ![s] = [rec |-> rec, state |-> "sent"]]
    /\ Goto(s, label)

-----------------------------------------------------------------------------
(* The object store.                                                        *)

(* --if-generation-match / --if-match / --if-none-match.                    *)
AnyVersion(s) == TRUE    \* mutant: a put without its condition

VersionMatches(s) ==
    IF Generations THEN gen[s] = store.gen ELSE base[s] = store.rec

ApplyPut(s) ==
    /\ call[s].state = "sent"
    /\ VersionMatches(s)
    /\ store' = [rec |-> call[s].rec,
                 gen |-> IF Generations THEN store.gen + 1 ELSE store.gen]
    /\ call' = [call EXCEPT ![s].state = "applied"]
    /\ UNCHANGED <<cache, pc, req, base, gen, prev, outcome>>

RefusePut(s) ==
    /\ call[s].state = "sent"
    /\ ~VersionMatches(s)
    /\ call' = [call EXCEPT ![s].state = "refused"]
    /\ UNCHANGED <<store, cache, pc, req, base, gen, prev, outcome>>

(* The rest of Store.write: with generations the object is read back and    *)
(* must be the record just written.                                         *)
ReadBackAgrees(s) == Generations => store.rec = call[s].rec

Acknowledged(s) ==
    /\ call[s].state = "applied"
    /\ ReadBackAgrees(s)
    /\ base' = [base EXCEPT ![s] = call[s].rec]
    /\ gen' = [gen EXCEPT ![s] = store.gen]

(* Every failed write ends the operation.  In the try block of resource()   *)
(* only the bundle of a new key is written, and then there is no earlier    *)
(* ready record to restore.                                                 *)
WriteFails(s) ==
    /\ pc[s] \in Waiting
    /\ \/ call[s].state = "refused"
       \/ call[s].state = "applied" /\ ~ReadBackAgrees(s)
    /\ Finish(s, Failure)
    /\ UNCHANGED <<store, cache, req, base, gen, prev, call>>

(* The put or the read back times out, fails without an answer, or the      *)
(* answer is lost; the put itself may still be applied.                     *)
WriteUncertain(s) ==
    /\ Faults
    /\ pc[s] \in Waiting
    /\ Finish(s, Failure)
    /\ UNCHANGED <<store, cache, req, base, gen, prev, call>>

(* The process dies, or a step that restores nothing raises: a failed read, *)
(* an interrupt outside the try block, a failed cache write.                *)
Crash(s) ==
    /\ Faults
    /\ pc[s] \notin Waiting \cup {"idle", "done"}
    /\ Finish(s, Failure)
    /\ UNCHANGED <<store, cache, req, base, gen, prev, call>>

-----------------------------------------------------------------------------
(* Requests.                                                                *)

Start(s) ==
    /\ pc[s] = "idle"
    /\ \E op \in Ops : \E r \in CallerRequests(op, Known, store.rec.token) :
          req' = [req EXCEPT ![s] = r]
    /\ Goto(s, CASE req'[s].op = "inspect" -> "inspect"
                 [] req'[s].op = "delete"  -> "precheck"
                 [] OTHER                  -> "lock")
    /\ UNCHANGED <<store, cache, base, gen, prev, call, outcome>>

(* inspect takes no lock.                                                   *)
Inspect(s) ==
    /\ pc[s] = "inspect"
    /\ Finish(s, IF store.rec.status = "ready"
                    /\ ExpectedMatches(store.rec, req[s])
                 THEN Answer(KeyOf(store.rec))
                 ELSE Failure)
    /\ UNCHANGED <<store, cache, req, base, gen, prev, call>>

(* delete first looks for a tombstone: deleting twice succeeds.             *)
FindTombstone(s) ==
    /\ pc[s] = "precheck"
    /\ store.rec.status = "deleted"
    /\ cache' = [cache EXCEPT ![req[s].host] = None]
    /\ Finish(s, Destroyed)
    /\ UNCHANGED <<store, req, base, gen, prev, call>>

FindNoTombstone(s) ==
    /\ pc[s] = "precheck"
    /\ store.rec.status # "deleted"
    /\ Goto(s, "lock")
    /\ UNCHANGED <<store, cache, req, base, gen, prev, call, outcome>>

(* locked(): read, check, and write the reservation.                        *)
Lock(s) ==
    /\ pc[s] = "lock"
    /\ MayLock(store.rec, req[s])
    /\ base' = [base EXCEPT ![s] = store.rec]
    /\ gen' = [gen EXCEPT ![s] = store.gen]
    /\ prev' = [prev EXCEPT ![s] = store.rec]
    /\ Send(s, Reservation(store.rec, s), "reserve")
    /\ UNCHANGED <<store, cache, req, outcome>>

LockRefused(s) ==
    /\ pc[s] = "lock"
    /\ ~MayLock(store.rec, req[s])
    /\ Finish(s, Failure)
    /\ UNCHANGED <<store, cache, req, base, gen, prev, call>>

Reserved(s) ==
    /\ pc[s] = "reserve"
    /\ Acknowledged(s)
    /\ Goto(s, "held")
    /\ UNCHANGED <<store, cache, req, prev, call, outcome>>

-----------------------------------------------------------------------------
(* What a session does under the lock.  The record in hand is base[s].      *)

UnlocksUnchecked(s) == TRUE    \* mutant: verify_unlock is skipped

Unlocks(s) == req[s].pass = base[s].bundle.pass

(* Only create tolerates a reservation without a key.                       *)
RefuseHollow(s) ==
    /\ pc[s] = "held"
    /\ req[s].op \in {"rotate", "recover", "delete"}
    /\ ~HasBundle(base[s])
    /\ Finish(s, Failure)
    /\ UNCHANGED <<store, cache, req, base, gen, prev, call>>

(* mutant: the key is stored unencrypted *)
GenerateUnencrypted(s) ==
    /\ pc[s] = "held"
    /\ req[s].op = "create"
    /\ ~HasBundle(base[s])
    /\ Send(s, WithBundle(base[s], [key |-> s, pass |-> None, salt |-> s]), "bundle")
    /\ UNCHANGED <<store, cache, req, base, gen, prev, outcome>>

(* create without a key generates one and stores it, still locked.          *)
Generate(s) ==
    /\ pc[s] = "held"
    /\ req[s].op = "create"
    /\ ~HasBundle(base[s])
    /\ Send(s, WithBundle(base[s], [key |-> s, pass |-> req[s].pass, salt |-> s]),
            "bundle")
    /\ UNCHANGED <<store, cache, req, base, gen, prev, outcome>>

(* The bundle is stored; resource() goes straight on to publish.            *)
PublishGenerated(s) ==
    /\ pc[s] = "bundle"
    /\ Acknowledged(s)
    /\ Send(s, Published(call[s].rec), "publish")
    /\ UNCHANGED <<store, cache, req, prev, outcome>>

(* create with a key adopts it without unlocking it.                        *)
Adopt(s) ==
    /\ pc[s] = "held"
    /\ req[s].op = "create"
    /\ HasBundle(base[s])
    /\ Send(s, Published(base[s]), "publish")
    /\ UNCHANGED <<store, cache, req, base, gen, prev, outcome>>

Recover(s) ==
    /\ pc[s] = "held"
    /\ req[s].op = "recover"
    /\ HasBundle(base[s])
    /\ Unlocks(s)
    /\ Send(s, Published(base[s]), "publish")
    /\ UNCHANGED <<store, cache, req, base, gen, prev, outcome>>

(* rotate re-encrypts the same key.                                         *)
Rotate(s) ==
    /\ pc[s] = "held"
    /\ req[s].op = "rotate"
    /\ HasBundle(base[s])
    /\ Unlocks(s)
    /\ Send(s, Published(WithBundle(base[s],
                 [base[s].bundle EXCEPT !.pass = req[s].newPass, !.salt = s])),
            "publish")
    /\ UNCHANGED <<store, cache, req, base, gen, prev, outcome>>

(* ssh-keygen and its prompts: a wrong passphrase fails, and anything may.   *)
KeygenFails(s) == Faults \/ (req[s].op # "create" /\ ~Unlocks(s))

(* except BaseException: a record found ready is put back as it was, a new  *)
(* or recovered reservation is retained.                                    *)
AttemptFails(s) ==
    /\ pc[s] = "held"
    /\ req[s].op \in {"create", "rotate", "recover"}
    /\ req[s].op = "create" \/ HasBundle(base[s])
    /\ KeygenFails(s)

(* mutants: the lock is forgotten; the record in hand is put back, not the  *)
(* one found.                                                               *)
RestoreForgotten(s) ==
    /\ AttemptFails(s)
    /\ prev[s].status = "ready"
    /\ Finish(s, Failure)
    /\ UNCHANGED <<store, cache, req, base, gen, prev, call>>

RestoreInHand(s) ==
    /\ AttemptFails(s)
    /\ prev[s].status = "ready"
    /\ Send(s, [prev[s] EXCEPT !.bundle.pass = req[s].newPass,
                               !.bundle.salt = s], "restore")
    /\ UNCHANGED <<store, cache, req, base, gen, prev, outcome>>

Restore(s) ==
    /\ AttemptFails(s)
    /\ prev[s].status = "ready"
    /\ Send(s, prev[s], "restore")
    /\ UNCHANGED <<store, cache, req, base, gen, prev, outcome>>

RetainLock(s) ==
    /\ AttemptFails(s)
    /\ prev[s].status # "ready"
    /\ Finish(s, Failure)
    /\ UNCHANGED <<store, cache, req, base, gen, prev, call>>

Bury(s) ==
    /\ pc[s] = "held"
    /\ req[s].op = "delete"
    /\ HasBundle(base[s])
    /\ Send(s, Tombstone, "bury")
    /\ UNCHANGED <<store, cache, req, base, gen, prev, outcome>>

(* One entry of an agent session: ssh-add, the public cache, publish.       *)
Load(s) ==
    /\ pc[s] = "held"
    /\ req[s].op = "load"
    /\ HasBundle(base[s])
    /\ Unlocks(s)
    /\ cache' = [cache EXCEPT ![req[s].host] = KeyOf(base[s])]
    /\ Send(s, Published(base[s]), "publish")
    /\ UNCHANGED <<store, req, base, gen, prev, outcome>>

(* An ordinary error while loading releases the lock and fails; an          *)
(* interrupt (Crash) retains it.                                            *)
LoadFails(s) ==
    /\ pc[s] = "held"
    /\ req[s].op = "load"
    /\ HasBundle(base[s])
    /\ Faults \/ ~Unlocks(s)
    /\ Send(s, Published(base[s]), "release")
    /\ UNCHANGED <<store, cache, req, base, gen, prev, outcome>>

-----------------------------------------------------------------------------
(* The last write is acknowledged: the lock is free again.                  *)

(* resource() writes the public cache after publish() has returned.         *)
PublishedResource(s) ==
    /\ pc[s] = "publish"
    /\ req[s].op # "load"
    /\ Acknowledged(s)
    /\ Goto(s, "cache")
    /\ UNCHANGED <<store, cache, req, prev, call, outcome>>

WriteCache(s) ==
    /\ pc[s] = "cache"
    /\ cache' = [cache EXCEPT ![req[s].host] = KeyOf(base[s])]
    /\ Finish(s, Answer(KeyOf(base[s])))
    /\ UNCHANGED <<store, req, base, gen, prev, call>>

PublishedLoad(s) ==
    /\ pc[s] = "publish"
    /\ req[s].op = "load"
    /\ Acknowledged(s)
    /\ Finish(s, Answer(KeyOf(call[s].rec)))
    /\ UNCHANGED <<store, cache, req, prev, call>>

Released(s) ==
    /\ pc[s] \in {"restore", "release"}
    /\ Acknowledged(s)
    /\ Finish(s, Failure)
    /\ UNCHANGED <<store, cache, req, prev, call>>

Buried(s) ==
    /\ pc[s] = "bury"
    /\ Acknowledged(s)
    /\ cache' = [cache EXCEPT ![req[s].host] = None]
    /\ Finish(s, Destroyed)
    /\ UNCHANGED <<store, req, prev, call>>

-----------------------------------------------------------------------------

(* What the running adapter, or its command timeout, is bound to do next.   *)
Progress(s) ==
    \/ Inspect(s) \/ FindTombstone(s) \/ FindNoTombstone(s)
    \/ Lock(s) \/ LockRefused(s) \/ Reserved(s)
    \/ RefuseHollow(s) \/ Generate(s) \/ PublishGenerated(s) \/ Adopt(s)
    \/ Recover(s) \/ Rotate(s) \/ Restore(s) \/ RetainLock(s) \/ Bury(s)
    \/ Load(s) \/ LoadFails(s)
    \/ PublishedResource(s) \/ WriteCache(s) \/ PublishedLoad(s)
    \/ Released(s) \/ Buried(s)
    \/ WriteFails(s) \/ WriteUncertain(s)

Storage(s) == ApplyPut(s) \/ RefusePut(s)

Next ==
    \E s \in Sessions :
        \/ Start(s)
        \/ Progress(s)
        \/ Storage(s)
        \/ Crash(s)

(* A running adapter keeps running and each of its commands ends within the *)
(* timeout of _run.  The store answers (weakly fair) only where no command  *)
(* can time out: with Faults a put may be lost for good.                    *)
Fairness ==
    \A s \in Sessions :
        /\ WF_vars(Progress(s))
        /\ WF_vars(~Faults /\ Storage(s))

Spec == Init /\ [][Next]_vars

FairSpec == Spec /\ Fairness

-----------------------------------------------------------------------------
(* Properties.                                                              *)

(* Every variable keeps to its type; in particular every stored key is      *)
(* encrypted under a passphrase.                                            *)
TypeOK ==
    /\ store \in [rec : Records, gen : Nat]
    /\ cache \in [Hosts -> Sessions \cup {None}]
    /\ pc \in [Sessions -> Locations]
    /\ req \in [Sessions -> Requests]
    /\ base \in [Sessions -> Records]
    /\ gen \in [Sessions -> Nat]
    /\ prev \in [Sessions -> Records]
    /\ call \in [Sessions -> Calls]
    /\ outcome \in [Sessions -> Outcomes]

(* Every key anybody can see is the same key: the stored one, the cached    *)
(* ones and all those the adapter ever answered.  Two concurrent creates, a *)
(* create racing a recovery and a late put of a dead create never establish *)
(* a second identity.                                                       *)
KeysSeen ==
    ({KeyOf(store.rec)} \cup {cache[h] : h \in Hosts}
        \cup {outcome[s].key : s \in Sessions}) \ {None}

OneIdentity == \A k, l \in KeysSeen : k = l

Applies(s) == call[s].state = "sent" /\ call'[s].state = "applied"

(* "A contender fails busy; it never steals a lock": while the record is    *)
(* locked only a put of the token's owner changes it, or the reservation of *)
(* a recover that was given exactly that token.  A holder whose lock was    *)
(* recovered is fenced: nothing it sent, or sends, is applied.              *)
LockFencing ==
    [][IsLocked(store.rec) /\ store' # store =>
         \E s \in Sessions :
            /\ Applies(s)
            /\ \/ store.rec.token = s
               \/ req[s].op = "recover" /\ req[s].token = store.rec.token]_vars

(* The encrypted key is replaced only by a rotation that unlocked exactly   *)
(* the bundle it replaces, and removed only by a delete: no restore,        *)
(* recovery, publish or late put brings an older encryption back or drops   *)
(* the only copy of the key.                                                *)
BundleLineage ==
    [][HasBundle(store.rec) /\ store'.rec.bundle # store.rec.bundle =>
         \E s \in Sessions :
            /\ Applies(s)
            /\ IF HasBundle(store'.rec)
               THEN /\ req[s].op = "rotate"
                    /\ prev[s].bundle = store.rec.bundle
                    /\ req[s].pass = store.rec.bundle.pass
                    /\ store'.rec.bundle =
                         [store.rec.bundle EXCEPT !.pass = req[s].newPass, !.salt = s]
               ELSE req[s].op = "delete"]_vars

(* Once any caller was told "destroyed", the tombstone is there and stays:  *)
(* no create, recovery or delayed publish revives the name.                 *)
DestroyedForGood ==
    (\E s \in Sessions : outcome[s].kind = "destroyed")
        => store.rec = Tombstone

(* The contract: the public identity cache is "refreshed from authority     *)
(* under the resource lock, never adopted as authority, and removed after   *)
(* explicit SSH deletion".  Once the sessions of a host have ended, one of  *)
(* them by deleting the resource, its cache is gone.  It does not hold:     *)
(* resource() writes the cache when publish() has released the lock, and    *)
(* the delete of another session fits between the two.                      *)
CacheRemovedAfterDelete ==
    \A h \in Hosts :
        LET here == {s \in Sessions : req[s].host = h /\ pc[s] # "idle"}
        IN (\A s \in here : pc[s] = "done") /\ (\E s \in here : outcome[s].kind = "destroyed")
               => cache[h] = None

(* The authority implements SshIdentity: a lock, a crash and a refused put  *)
(* are invisible, every applied put and every answer is a step of it.       *)
Phase(rec) ==
    IF HasBundle(rec) THEN "established"
    ELSE IF rec.status = "deleted" THEN "destroyed" ELSE "none"

Identity == INSTANCE SshIdentity WITH
    Callers <- Sessions,
    Losable <- FALSE,
    phase   <- Phase(store.rec),
    bundle  <- store.rec.bundle,
    told    <- outcome

IdentitySpec == Identity!Spec

(* Without faults (and without recover, which would take the lock of a live *)
(* session) every lock is released again, also by operations that fail.     *)
LockFreed == IsLocked(store.rec) ~> ~IsLocked(store.rec)

(* Without faults a rotation that reports failure has not changed the       *)
(* passphrase in force.                                                     *)
FailedRotationChangesNothing ==
    \A s \in Sessions :
        req[s].op = "rotate" /\ outcome[s].kind = "failed" /\ HasBundle(store.rec)
            => store.rec.bundle.salt # s

=============================================================================
