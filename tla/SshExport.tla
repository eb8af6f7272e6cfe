------------------------------ MODULE SshExport ------------------------------
(***************************************************************************)
(* Installing, refreshing, inspecting and removing an encrypted identity   *)
(* at a local destination: three files that are published together and     *)
(* whose ciphertext alone is replaced when the authority has rotated, each *)
(* by way of a temporary file in the same directory.                       *)
(* Exporters hold a nonblocking flock of the parent directory, the kernel  *)
(* frees it when they die, and the authority rotates under them.           *)
(***************************************************************************)
EXTENDS Naturals

CONSTANTS
    Exporters,     \* invocations of export_resource on one destination
    References,    \* the SSH resources they export
    None,
    Foreign,       \* a directory that no export made
    MaxRotations   \* bound: how often one authority rotates

ASSUME BoundAssumption == MaxRotations \in Nat

VARIABLES
    authority,     \* reference -> [status, rotation] of its record
    destination,   \* None, Foreign, or the files: [owner, hashes, identity, temporary]
    holder,        \* the exporter that holds the flock, or None
    pc, req,
    began,         \* history: the rotation that was current when it started
    read,          \* exporter -> the rotation it read from the authority
    outcome        \* exporter -> [status, rotation]

vars == <<authority, destination, holder, pc, req, began, read, outcome>>

(* A ciphertext is named by how often its resource was rotated before; the  *)
(* public key and its fingerprint follow from the reference.                *)
Rotations == 0 .. MaxRotations

(* temporary: whether a .publish-* file lies beside the three.              *)
Exports == [owner : References, hashes : SUBSET Rotations, identity : Rotations,
            temporary : BOOLEAN]

ASSUME NoneAssumption ==
    /\ None # Foreign
    /\ {None, Foreign} \cap (Exporters \cup References \cup Exports) = {}

Operations == {"install", "inspect", "remove"}

Locations == {"idle", "flock", "check", "read", "reread", "journal", "replace", "settle",
              "publish", "verify", "retire", "done"}

Owned == destination \notin {None, Foreign}

(* inspect_export(): the three files and no other, owned by the reference,  *)
(* and every one as recorded.                                               *)
Verifies(reference) ==
    /\ Owned
    /\ destination.owner = reference
    /\ ~destination.temporary
    /\ destination.identity \in destination.hashes

Init ==
    /\ authority = [r \in References |-> [status |-> "ready", rotation |-> 0]]
    /\ destination \in {None, Foreign}
    /\ holder = None
    /\ pc = [e \in Exporters |-> "idle"]
    /\ req = [e \in Exporters |-> [op |-> "inspect", reference |-> None]]
    /\ began = [e \in Exporters |-> 0]
    /\ read = [e \in Exporters |-> 0]
    /\ outcome = [e \in Exporters |-> [status |-> "none", rotation |-> 0]]

Goto(e, label) == pc' = [pc EXCEPT ![e] = label]

Finish(e, status, rotation) ==
    /\ Goto(e, "done")
    /\ outcome' = [outcome EXCEPT ![e] = [status |-> status, rotation |-> rotation]]
    /\ holder' = IF holder = e THEN None ELSE holder

Start(e) ==
    /\ pc[e] = "idle"
    /\ \E op \in Operations, r \in References :
          /\ req' = [req EXCEPT ![e] = [op |-> op, reference |-> r]]
          /\ began' = [began EXCEPT ![e] = authority[r].rotation]
    /\ Goto(e, "flock")
    /\ UNCHANGED <<authority, destination, holder, read, outcome>>

Flock(e) ==
    /\ pc[e] = "flock"
    /\ IF holder = None
       THEN holder' = e /\ Goto(e, "check") /\ UNCHANGED outcome
       ELSE Finish(e, "error", 0)
    /\ UNCHANGED <<authority, destination, req, began, read>>

NotRefreshed(e) ==    \* mutant: an installed export counts as current
    /\ pc[e] = "check"
    /\ IF ~(destination = None \/ Verifies(req[e].reference)) THEN Finish(e, "error", 0)
       ELSE IF destination # None THEN Finish(e, "installed", destination.identity)
       ELSE IF req[e].op # "install" THEN Finish(e, "absent", 0)
       ELSE Goto(e, "read") /\ UNCHANGED <<holder, outcome>>
    /\ UNCHANGED <<authority, destination, req, began, read>>

(* What is there is verified before anything else happens.                  *)
Check(e) ==
    /\ pc[e] = "check"
    /\ IF ~(destination = None \/ Verifies(req[e].reference)) THEN Finish(e, "error", 0)
       ELSE IF req[e].op = "install"
       THEN /\ Goto(e, IF destination = None THEN "read" ELSE "reread")
            /\ UNCHANGED <<holder, outcome>>
       ELSE IF destination = None THEN Finish(e, "absent", 0)
       ELSE IF req[e].op = "inspect" THEN Finish(e, "installed", destination.identity)
       ELSE Goto(e, "retire") /\ UNCHANGED <<holder, outcome>>
    /\ UNCHANGED <<authority, destination, req, began, read>>

ReadAtStart(e) ==    \* mutant: the record was read before the flock was taken
    /\ pc[e] \in {"read", "reread"}
    /\ read' = [read EXCEPT ![e] = began[e]]
    /\ Goto(e, IF pc[e] = "read" THEN "publish" ELSE "journal")
    /\ UNCHANGED <<authority, destination, holder, req, began, outcome>>

(* The record is read without its lock and must be ready.                   *)
Read(e) ==
    /\ pc[e] \in {"read", "reread"}
    /\ LET rec == authority[req[e].reference]
       IN IF rec.status = "ready"
          THEN /\ read' = [read EXCEPT ![e] = rec.rotation]
               /\ Goto(e, IF pc[e] = "read" THEN "publish" ELSE "journal")
               /\ UNCHANGED <<holder, outcome>>
          ELSE Finish(e, "error", 0) /\ UNCHANGED read
    /\ UNCHANGED <<authority, destination, req, began>>

-----------------------------------------------------------------------------
(* atomic_write(), three times: the bytes go to a temporary file, which is  *)
(* then renamed over the one it replaces.                                   *)

Refreshing == {"journal", "replace", "settle"}

WriteTemporary(e) ==
    /\ pc[e] \in Refreshing
    /\ ~destination.temporary
    /\ destination' = [destination EXCEPT !.temporary = TRUE]
    /\ UNCHANGED <<authority, holder, pc, req, began, read, outcome>>

(* An error or an interrupt unlinks the temporary on its way out.           *)
WriteFails(e) ==
    /\ pc[e] \in Refreshing
    /\ destination.temporary
    /\ destination' = [destination EXCEPT !.temporary = FALSE]
    /\ Finish(e, "error", 0)
    /\ UNCHANGED <<authority, req, began, read>>

Written(e, label) == pc[e] = label /\ destination.temporary

(* Both hashes are valid before the ciphertext is replaced, the new one     *)
(* alone afterwards.                                                        *)
WriteManifest(e, label, hashes, next) ==
    /\ Written(e, label)
    /\ destination' = [destination EXCEPT !.hashes = hashes, !.temporary = FALSE]
    /\ Goto(e, next)
    /\ UNCHANGED <<authority, holder, req, began, read, outcome>>

JournalNew(e) ==    \* mutant: only the new hash is recorded
    WriteManifest(e, "journal", {read[e]}, "replace")

Journal(e) == WriteManifest(e, "journal", {destination.identity, read[e]}, "replace")

Replace(e) ==
    /\ Written(e, "replace")
    /\ destination' = [destination EXCEPT !.identity = read[e], !.temporary = FALSE]
    /\ Goto(e, "settle")
    /\ UNCHANGED <<authority, holder, req, began, read, outcome>>

Settle(e) == WriteManifest(e, "settle", {read[e]}, "verify")

-----------------------------------------------------------------------------
(* The first publication stages the files outside the destination.          *)

Staged(e) ==
    [owner |-> req[e].reference, hashes |-> {read[e]}, identity |-> read[e], temporary |-> FALSE]

PublishOver(e) ==    \* mutant: the rename replaces what is there
    /\ pc[e] = "publish"
    /\ destination' = Staged(e)
    /\ Goto(e, "verify")
    /\ UNCHANGED <<authority, holder, req, began, read, outcome>>

(* The staged directory is renamed to the destination, refusing any.        *)
Publish(e) ==
    /\ pc[e] = "publish"
    /\ destination = None
    /\ destination' = Staged(e)
    /\ Goto(e, "verify")
    /\ UNCHANGED <<authority, holder, req, began, read, outcome>>

PublishRefused(e) ==
    /\ pc[e] = "publish"
    /\ destination # None
    /\ Finish(e, "error", 0)
    /\ UNCHANGED <<authority, destination, req, began, read>>

Verify(e) ==
    /\ pc[e] = "verify"
    /\ IF Verifies(req[e].reference) THEN Finish(e, "installed", destination.identity)
                                     ELSE Finish(e, "error", 0)
    /\ UNCHANGED <<authority, destination, req, began, read>>

(* remove renames the directory away and only then unlinks its files.       *)
Retire(e) ==
    /\ pc[e] = "retire"
    /\ destination' = None
    /\ Finish(e, "removed", 0)
    /\ UNCHANGED <<authority, req, began, read>>

(* A kill runs no finally: a temporary it meets stays.                      *)
Crash(e) ==
    /\ pc[e] \notin {"idle", "done"}
    /\ Finish(e, "error", 0)
    /\ UNCHANGED <<authority, destination, req, began, read>>

-----------------------------------------------------------------------------
(* Around the exporters.                                                    *)

LockAuthority(r) ==
    /\ authority[r].status = "ready"
    /\ authority' = [authority EXCEPT ![r].status = "locked"]
    /\ UNCHANGED <<destination, holder, pc, req, began, read, outcome>>

ReleaseAuthority(r) ==
    /\ authority[r].status = "locked"
    /\ \E n \in Rotations \cap {authority[r].rotation, authority[r].rotation + 1} :
          authority' = [authority EXCEPT ![r] = [status |-> "ready", rotation |-> n]]
    /\ UNCHANGED <<destination, holder, pc, req, began, read, outcome>>

(* Someone else makes a directory where an export is about to go.           *)
Appear ==
    /\ destination = None
    /\ destination' = Foreign
    /\ UNCHANGED <<authority, holder, pc, req, began, read, outcome>>

Exporter(e) ==
    \/ Start(e) \/ Flock(e) \/ Check(e) \/ Read(e) \/ WriteTemporary(e) \/ WriteFails(e)
    \/ Journal(e) \/ Replace(e) \/ Settle(e) \/ Publish(e) \/ PublishRefused(e) \/ Verify(e) \/ Retire(e) \/ Crash(e)

Next ==
    \/ Appear
    \/ \E r \in References : LockAuthority(r) \/ ReleaseAuthority(r)
    \/ \E e \in Exporters : Exporter(e)

Spec == Init /\ [][Next]_vars

-----------------------------------------------------------------------------
(* Properties.                                                              *)

(* Every variable keeps to its type.                                        *)
TypeOK ==
    /\ authority \in [References -> [status : {"ready", "locked"}, rotation : Rotations]]
    /\ destination \in Exports \cup {None, Foreign}
    /\ holder \in Exporters \cup {None}
    /\ pc \in [Exporters -> Locations]
    /\ req \in [Exporters -> [op : Operations, reference : References \cup {None}]]
    /\ began \in [Exporters -> Rotations] /\ read \in [Exporters -> Rotations]
    /\ outcome \in [Exporters -> [status : {"none", "installed", "absent", "removed", "error"},
                                  rotation : Rotations]]

(* The contract: the journal makes sure "interruption leaves a verifiable   *)
(* export": whatever nobody is working on, its owner can inspect, refresh   *)
(* and remove.                                                              *)
AlwaysVerifiable == Owned /\ holder = None => Verifies(destination.owner)

(* In whatever step a refresh stops, the manifest lists the ciphertext that *)
(* is there: a temporary that a kill left behind is all that can keep the   *)
(* owner out.                                                               *)
CiphertextJournaled == Owned => destination.identity \in destination.hashes

(* An installed ciphertext is replaced by a newer one only: an exporter     *)
(* that was slow never puts back one that a passphrase given up since opens.*)
CiphertextAdvances ==
    [][Owned /\ Owned' => destination'.identity >= destination.identity]_vars

(* A caller told "installed" has a ciphertext that was current when it      *)
(* asked or later, never one from before (install, not inspect).            *)
InstalledIsCurrent ==
    \A e \in Exporters :
        req[e].op = "install" /\ outcome[e].status = "installed"
            => outcome[e].rotation >= began[e]

(* What another resource, or nobody, installed is never replaced or         *)
(* removed.                                                                 *)
OnlyOwnerChanges ==
    [][\A r \in References \cup {Foreign} :
          LET mine(d) == IF d = Foreign THEN r = Foreign ELSE d # None /\ d.owner = r
          IN mine(destination) /\ ~mine(destination') =>
                 \E e \in Exporters : /\ pc[e] = "retire" /\ pc'[e] = "done"
                                      /\ req[e].reference = r]_vars

=============================================================================
