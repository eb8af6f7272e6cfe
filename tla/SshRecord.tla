------------------------------ MODULE SshRecord ------------------------------
(***************************************************************************)
(* The one object of an SSH resource, resource.json, and the decisions     *)
(* agents/ssh-resource.py takes from it.  A session is one invocation of   *)
(* the adapter.  What a session draws at random is named by the session:   *)
(* its lock token (uuid4), the ED25519 key it generates, and the salt of   *)
(* the bcrypt encryption it writes.                                        *)
(***************************************************************************)

CONSTANTS Sessions,      \* adapter invocations
          Passphrases,   \* values a COLORS_PAR_* binding can hold
          Hosts,         \* workstations, each with its own public cache
          None           \* no session, no key, no passphrase, no bundle

(* encrypted_key, public_key and fingerprint always change together: the    *)
(* key, the passphrase it is encrypted under, and who encrypted it.         *)
Bundles == [key : Sessions, pass : Passphrases, salt : Sessions]

ASSUME NoneAssumption == None \notin Sessions \cup Passphrases \cup Hosts \cup Bundles

Statuses == {"absent", "ready", "locked", "deleted"}

Records == [status : Statuses,
            token  : Sessions \cup {None},
            bundle : Bundles \cup {None}]

Absent == [status |-> "absent", token |-> None, bundle |-> None]

Tombstone == [status |-> "deleted", token |-> None, bundle |-> None]

IsLocked(rec) == rec.status = "locked"

HasBundle(rec) == rec.bundle # None

KeyOf(rec) == IF HasBundle(rec) THEN rec.bundle.key ELSE None

(* validate_record: a record that is not locked and not a tombstone carries *)
(* an encrypted key.                                                        *)
ValidRecord(rec) ==
    /\ rec.status = "ready" => HasBundle(rec)
    /\ rec.status \in {"absent", "deleted"} => ~HasBundle(rec)
    /\ IsLocked(rec) <=> rec.token # None

MutatingOps == {"create", "rotate", "recover", "delete", "load"}

Operations == MutatingOps \cup {"inspect"}

(* The message on the adapter's stdin: resource() and one agent_session     *)
(* entry (operation "load").  expected is the identity the caller has on    *)
(* file; token is the lock token given to recover; attested is the          *)
(* verified_absent attestation.                                             *)
UnlockingOps == {"create", "rotate", "recover", "load"}

Requests ==
    {r \in [op       : Operations,
            pass     : Passphrases \cup {None},
            newPass  : Passphrases \cup {None},
            expected : Sessions \cup {None},
            token    : Sessions \cup {None},
            attested : BOOLEAN,
            host     : Hosts \cup {None}] :
        /\ r.pass # None <=> r.op \in UnlockingOps
        /\ r.newPass # None <=> r.op = "rotate"}

(* The requests a caller makes: known are the identities earlier operations *)
(* returned, token is what the authority shows when recover is asked for.   *)
(* load always carries the resource an earlier operation returned.          *)
CallerRequests(op, known, token) ==
    [op       : {op},
     pass     : IF op \in UnlockingOps THEN Passphrases ELSE {None},
     newPass  : IF op = "rotate" THEN Passphrases ELSE {None},
     expected : IF op = "load" THEN known ELSE known \cup {None},
     token    : IF op = "recover" THEN {None, token} ELSE {None},
     attested : IF op = "create" THEN BOOLEAN ELSE {FALSE},
     host     : Hosts]

ExpectedMatches(rec, request) ==
    request.expected # None =>
        /\ rec.status # "absent"
        /\ KeyOf(rec) = request.expected

AnyToken(rec, request) == TRUE    \* mutant: the token is not compared

(* locked(): a locked record yields only to its exact token, and a token    *)
(* is an error on any other record.  Only recover passes one on, and it may *)
(* come without (its "lock_token" is optional).                             *)
TokenAccepted(rec, request) ==
    IF IsLocked(rec)
    THEN request.op = "recover" /\ request.token = rec.token
    ELSE request.token = None

PresenceAccepted(rec, request) ==
    rec.status = "absent" => request.op = "create" /\ request.attested

(* mutant: a tombstone is not refused *)
MayLockDeleted(rec, request) ==
    /\ PresenceAccepted(rec, request)
    /\ ExpectedMatches(rec, request)
    /\ TokenAccepted(rec, request)

(* Every condition locked() checks before it writes its reservation.        *)
MayLock(rec, request) ==
    /\ PresenceAccepted(rec, request)
    /\ ExpectedMatches(rec, request)
    /\ TokenAccepted(rec, request)
    /\ rec.status # "deleted"

Reservation(rec, s) == [rec EXCEPT !.status = "locked", !.token = s]

Published(rec) == [rec EXCEPT !.status = "ready", !.token = None]

WithBundle(rec, bundle) == [rec EXCEPT !.bundle = bundle]

==============================================================================
