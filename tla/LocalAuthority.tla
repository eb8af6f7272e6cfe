--------------------------- MODULE LocalAuthority ---------------------------
(***************************************************************************)
(* The authority of one SSH resource in a local directory: resource.json   *)
(* replaced atomically under a nonblocking flock of .lock, which the       *)
(* kernel releases when its holder dies.  The sessions are those of        *)
(* SshAuthority; what differs is Store.local_lock, the evidence locked()   *)
(* asks for before it creates an identity, and that the lock is held from  *)
(* the first read to the last write, the public cache included.            *)
(***************************************************************************)
EXTENDS SshRecord, FiniteSets

CONSTANTS
    Ops,         \* the operations the sessions of an instance may run
    Faults,      \* TRUE: steps fail and processes die
    Disappears   \* TRUE: resource.json and the cache may be lost, .lock stays

ASSUME OpsAssumption == Ops \subseteq Operations
ASSUME SwitchAssumption == Faults \in BOOLEAN /\ Disappears \in BOOLEAN

VARIABLES
    authority,   \* the record in resource.json
    everStored,  \* whether resource.json ever existed
    lockFile,    \* whether .lock exists
    holder,      \* the session that holds the flock, or None
    cache,       \* the key in identity-<hash>.pub, or None
    pc, req,
    first,       \* session -> first_local_lock: it created .lock itself
    base,        \* session -> the record it last read or wrote
    prev,        \* session -> the record it found when it took the lock
    outcome      \* session -> what it told its caller

vars == <<authority, everStored, lockFile, holder, cache, pc, req, first, base,
          prev, outcome>>

Locations == {"idle", "inspect", "preopen", "preflock", "precheck", "open", "flock",
              "check", "held", "generated", "loaded", "published", "delivered",
              "released", "buried", "done"}

(* Where a session has locked the record.                                   *)
Holding == {"held", "generated", "loaded"}

Outcomes == [kind : {"none", "ok", "destroyed", "failed", "missing"},
             key  : Sessions \cup {None}]

NoOutcome == [kind |-> "none", key |-> None]
Failure   == [kind |-> "failed", key |-> None]
Missing   == [kind |-> "missing", key |-> None]
Destroyed == [kind |-> "destroyed", key |-> None]

Answer(key) == [kind |-> "ok", key |-> key]

Known == {outcome[s].key : s \in {t \in Sessions : outcome[t].kind = "ok"}}

NoRequest == [op |-> "inspect", pass |-> None, newPass |-> None,
              expected |-> None, token |-> None, attested |-> FALSE,
              host |-> None]

-----------------------------------------------------------------------------

Init ==
    /\ authority = Absent
    /\ everStored = FALSE
    /\ lockFile = FALSE
    /\ holder = None
    /\ cache = None
    /\ pc = [s \in Sessions |-> "idle"]
    /\ req = [s \in Sessions |-> NoRequest]
    /\ first = [s \in Sessions |-> FALSE]
    /\ base = [s \in Sessions |-> Absent]
    /\ prev = [s \in Sessions |-> Absent]
    /\ outcome = [s \in Sessions |-> NoOutcome]

Goto(s, label) == pc' = [pc EXCEPT ![s] = label]

(* Closing the descriptor releases the flock.                               *)
Unflock(s) == holder' = IF holder = s THEN None ELSE holder

Finish(s, result) ==
    /\ Goto(s, "done")
    /\ outcome' = [outcome EXCEPT ![s] = result]
    /\ Unflock(s)

(* Store.write: the record read before must still be there, then it is      *)
(* atomically replaced.                                                     *)
Replace(s, rec) ==
    /\ authority = base[s]
    /\ authority' = rec
    /\ everStored' = TRUE
    /\ base' = [base EXCEPT ![s] = rec]

-----------------------------------------------------------------------------

Start(s) ==
    /\ pc[s] = "idle"
    /\ \E op \in Ops : \E r \in CallerRequests(op, Known, authority.token) :
          req' = [req EXCEPT ![s] = r]
    /\ Goto(s, CASE req'[s].op = "inspect" -> "inspect"
                 [] req'[s].op = "delete"  -> "preopen"
                 [] OTHER                  -> "open")
    /\ UNCHANGED <<authority, everStored, lockFile, holder, cache, first, base,
                   prev, outcome>>

Inspect(s) ==
    /\ pc[s] = "inspect"
    /\ Finish(s, IF authority.status = "ready" /\ ExpectedMatches(authority, req[s])
                 THEN Answer(KeyOf(authority)) ELSE Failure)
    /\ UNCHANGED <<authority, everStored, lockFile, cache, req, first, base, prev>>

(* os.open with O_CREAT | O_EXCL, else an existing .lock.                   *)
OpenLock(s) ==
    /\ pc[s] \in {"preopen", "open"}
    /\ first' = [first EXCEPT ![s] = ~lockFile]
    /\ lockFile' = TRUE
    /\ Goto(s, IF pc[s] = "open" THEN "flock" ELSE "preflock")
    /\ UNCHANGED <<authority, everStored, holder, cache, req, base, prev, outcome>>

FlockAnyway(s) ==    \* mutant: a contender does not fail busy
    /\ pc[s] \in {"preflock", "flock"}
    /\ holder' = s
    /\ Goto(s, IF pc[s] = "flock" THEN "check" ELSE "precheck")
    /\ UNCHANGED <<authority, everStored, lockFile, cache, req, first, base, prev, outcome>>

Flock(s) ==
    /\ pc[s] \in {"preflock", "flock"}
    /\ holder = None
    /\ holder' = s
    /\ Goto(s, IF pc[s] = "flock" THEN "check" ELSE "precheck")
    /\ UNCHANGED <<authority, everStored, lockFile, cache, req, first, base, prev, outcome>>

FlockBusy(s) ==
    /\ pc[s] \in {"preflock", "flock"}
    /\ holder # None
    /\ Finish(s, Failure)
    /\ UNCHANGED <<authority, everStored, lockFile, cache, req, first, base, prev>>

(* delete looks for a tombstone under a lock of its own first.              *)
FindTombstone(s) ==
    /\ pc[s] = "precheck"
    /\ authority.status = "deleted"
    /\ cache' = None
    /\ Finish(s, Destroyed)
    /\ UNCHANGED <<authority, everStored, lockFile, req, first, base, prev>>

FindNoTombstone(s) ==
    /\ pc[s] = "precheck"
    /\ authority.status # "deleted"
    /\ Unflock(s)
    /\ Goto(s, "open")
    /\ UNCHANGED <<authority, everStored, lockFile, cache, req, first, base, prev, outcome>>

-----------------------------------------------------------------------------
(* locked().                                                                *)

NoEvidence(s) == TRUE    \* mutant: nothing vetoes a new identity

(* A missing record must be missing for the first time: no earlier .lock    *)
(* and no known public identity.                                            *)
Evidence(s) == authority.status = "absent" => first[s] /\ cache = None

MayReserve(s) ==
    /\ Evidence(s)
    /\ authority.status = "absent" => req[s].op = "create"
    /\ ExpectedMatches(authority, req[s])
    /\ TokenAccepted(authority, req[s])
    /\ authority.status # "deleted"

Reserve(s) ==
    /\ pc[s] = "check"
    /\ MayReserve(s)
    /\ prev' = [prev EXCEPT ![s] = authority]
    /\ authority' = Reservation(authority, s)
    /\ everStored' = TRUE
    /\ base' = [base EXCEPT ![s] = Reservation(authority, s)]
    /\ Goto(s, "held")
    /\ UNCHANGED <<lockFile, holder, cache, req, first, outcome>>

ReserveRefused(s) ==
    /\ pc[s] = "check"
    /\ ~MayReserve(s)
    /\ Finish(s, IF Evidence(s) THEN Failure ELSE Missing)
    /\ UNCHANGED <<authority, everStored, lockFile, cache, req, first, base, prev>>

-----------------------------------------------------------------------------
(* resource() under the lock.                                               *)

Unlocks(s) == req[s].pass = base[s].bundle.pass

RefuseHollow(s) ==
    /\ pc[s] = "held"
    /\ req[s].op \in {"rotate", "recover", "delete"}
    /\ ~HasBundle(base[s])
    /\ Finish(s, Failure)
    /\ UNCHANGED <<authority, everStored, lockFile, cache, req, first, base, prev>>

Generate(s) ==
    /\ pc[s] = "held"
    /\ req[s].op = "create"
    /\ ~HasBundle(base[s])
    /\ Replace(s, WithBundle(base[s], [key |-> s, pass |-> req[s].pass, salt |-> s]))
    /\ Goto(s, "generated")
    /\ UNCHANGED <<lockFile, holder, cache, req, first, prev, outcome>>

WriteAndGoto(s, rec, label) ==
    /\ Replace(s, rec)
    /\ Goto(s, label)
    /\ UNCHANGED <<lockFile, holder, cache, req, first, prev, outcome>>

PublishGenerated(s) ==
    /\ pc[s] = "generated"
    /\ WriteAndGoto(s, Published(base[s]), "published")

(* create adopts a ready record; recover unlocks what it found.             *)
AdoptOrRecover(s) ==
    /\ pc[s] = "held"
    /\ HasBundle(base[s])
    /\ req[s].op = "create" \/ (req[s].op = "recover" /\ Unlocks(s))
    /\ WriteAndGoto(s, Published(base[s]), "published")

Rotate(s) ==
    /\ pc[s] = "held"
    /\ req[s].op = "rotate"
    /\ HasBundle(base[s])
    /\ Unlocks(s)
    /\ WriteAndGoto(s, Published(WithBundle(base[s],
           [base[s].bundle EXCEPT !.pass = req[s].newPass, !.salt = s])), "published")

(* ssh-keygen and its prompts: a wrong passphrase fails, and anything may.   *)
KeygenFails(s) == Faults \/ (req[s].op # "create" /\ ~Unlocks(s))

AttemptFails(s) ==
    /\ pc[s] = "held"
    /\ req[s].op \in {"create", "rotate", "recover"}
    /\ req[s].op = "create" \/ HasBundle(base[s])
    /\ KeygenFails(s)

Restore(s) ==
    /\ AttemptFails(s)
    /\ prev[s].status = "ready"
    /\ WriteAndGoto(s, prev[s], "released")

RetainLock(s) ==
    /\ AttemptFails(s)
    /\ prev[s].status # "ready"
    /\ Finish(s, Failure)
    /\ UNCHANGED <<authority, everStored, lockFile, cache, req, first, base, prev>>

Bury(s) ==
    /\ pc[s] = "held"
    /\ req[s].op = "delete"
    /\ HasBundle(base[s])
    /\ WriteAndGoto(s, Tombstone, "buried")

(* One entry of an agent session: the cache is written before the publish.  *)
Load(s) ==
    /\ pc[s] = "held"
    /\ req[s].op = "load"
    /\ HasBundle(base[s])
    /\ Unlocks(s)
    /\ cache' = KeyOf(base[s])
    /\ Goto(s, "loaded")
    /\ UNCHANGED <<authority, everStored, lockFile, holder, req, first, base, prev,
                   outcome>>

PublishLoaded(s) ==
    /\ pc[s] = "loaded"
    /\ WriteAndGoto(s, Published(base[s]), "delivered")

LoadFails(s) ==
    /\ pc[s] = "held"
    /\ req[s].op = "load"
    /\ HasBundle(base[s])
    /\ Faults \/ ~Unlocks(s)
    /\ WriteAndGoto(s, Published(base[s]), "released")

(* The steps between the last write and the answer, still under the flock.  *)
UnlinkForgotten(s) ==    \* mutant: the public cache survives the resource
    /\ pc[s] = "buried"
    /\ Finish(s, Destroyed)
    /\ UNCHANGED <<authority, everStored, lockFile, cache, req, first, base, prev>>

Unlinked(s) ==
    /\ pc[s] = "buried"
    /\ cache' = None
    /\ Finish(s, Destroyed)
    /\ UNCHANGED <<authority, everStored, lockFile, req, first, base, prev>>

Delivered(s) ==
    /\ pc[s] = "delivered"
    /\ Finish(s, Answer(KeyOf(base[s])))
    /\ UNCHANGED <<authority, everStored, lockFile, cache, req, first, base, prev>>

Released(s) ==
    /\ pc[s] = "released"
    /\ Finish(s, Failure)
    /\ UNCHANGED <<authority, everStored, lockFile, cache, req, first, base, prev>>

WriteCache(s) ==
    /\ pc[s] = "published"
    /\ cache' = KeyOf(base[s])
    /\ Finish(s, Answer(KeyOf(base[s])))
    /\ UNCHANGED <<authority, everStored, lockFile, req, first, base, prev>>

(* "SSH resource changed concurrently": also the restore is refused then.   *)
AuthorityChanged(s) ==
    /\ pc[s] \in Holding
    /\ authority # base[s]
    /\ Finish(s, Failure)
    /\ UNCHANGED <<authority, everStored, lockFile, cache, req, first, base, prev>>

-----------------------------------------------------------------------------
(* The world outside.                                                       *)

Crash(s) ==
    /\ Faults
    /\ pc[s] \notin {"idle", "done"}
    /\ Finish(s, Failure)
    /\ UNCHANGED <<authority, everStored, lockFile, cache, req, first, base, prev>>

(* The authority disappears; its cache may go with it.                      *)
Vanish ==
    /\ Disappears
    /\ authority # Absent
    /\ authority' = Absent
    /\ cache' \in {cache, None}
    /\ UNCHANGED <<everStored, lockFile, holder, pc, req, first, base, prev, outcome>>

Session(s) ==
    \/ Start(s) \/ Inspect(s) \/ OpenLock(s) \/ Flock(s) \/ FlockBusy(s)
    \/ FindTombstone(s) \/ FindNoTombstone(s) \/ Reserve(s) \/ ReserveRefused(s)
    \/ RefuseHollow(s) \/ Generate(s) \/ PublishGenerated(s) \/ AdoptOrRecover(s)
    \/ Rotate(s) \/ Restore(s) \/ RetainLock(s) \/ Bury(s) \/ Load(s) \/ PublishLoaded(s)
    \/ LoadFails(s) \/ Unlinked(s) \/ Delivered(s) \/ Released(s) \/ WriteCache(s) \/ AuthorityChanged(s) \/ Crash(s)

Next == Vanish \/ \E s \in Sessions : Session(s)

Spec == Init /\ [][Next]_vars

-----------------------------------------------------------------------------
(* Properties.                                                              *)

(* Every variable keeps to its type.                                        *)
TypeOK ==
    /\ authority \in Records /\ everStored \in BOOLEAN /\ lockFile \in BOOLEAN
    /\ holder \in Sessions \cup {None} /\ cache \in Sessions \cup {None}
    /\ pc \in [Sessions -> Locations] /\ req \in [Sessions -> Requests]
    /\ first \in [Sessions -> BOOLEAN]
    /\ base \in [Sessions -> Records] /\ prev \in [Sessions -> Records]
    /\ outcome \in [Sessions -> Outcomes]

(* The flock and the status together: while a session works on the record   *)
(* it locked, no other session changes it, and recover (which must pass the *)
(* flock) only ever takes the lock of a session that is gone.               *)
HolderUndisturbed ==
    \A s \in Sessions :
        pc[s] \in Holding => authority \in {base[s], Absent} /\ holder = s

(* Unlike in a remote store the cache is written and removed under the      *)
(* lock: once the resource is destroyed no cache comes back.                *)
CacheGoneAfterDelete ==
    authority = Tombstone /\ holder = None /\ (\E s \in Sessions : outcome[s] = Destroyed)
        => cache = None

Phase ==
    IF HasBundle(authority) THEN "established"
    ELSE IF authority.status = "deleted" THEN "destroyed"
    ELSE IF everStored /\ authority = Absent THEN "lost" ELSE "none"

(* The local authority implements the same abstract identity as the remote  *)
(* one, and when its files disappear, the .lock left beside them keeps      *)
(* every later create from making another identity.                         *)
Identity == INSTANCE SshIdentity WITH
    Callers <- Sessions,
    Losable <- TRUE,
    phase   <- Phase,
    bundle  <- authority.bundle,
    told    <- [s \in Sessions |->
                  IF outcome[s] = Missing THEN Failure ELSE outcome[s]]

IdentitySpec == Identity!Spec

(* The contract: "local lock-file evidence or a known public cache refuses  *)
(* recreation when authority disappears".  Nobody is refused for missing    *)
(* authority when there never was one.                                      *)
RefusedOnlyAfterDisappearance ==
    (\E s \in Sessions : outcome[s] = Missing) => everStored

=============================================================================
