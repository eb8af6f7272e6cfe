----------------------------- MODULE SshIdentity -----------------------------
(***************************************************************************)
(* What the authority of an SSH resource promises to its callers, without  *)
(* the lock, the store, versions or crashes: at most one identity is ever  *)
(* established, rotation re-encrypts it and needs the passphrase in force, *)
(* destruction is final, and no caller is told of another key.  Where the  *)
(* store itself may be lost, nothing is ever established in its place.     *)
(***************************************************************************)
CONSTANTS
    Callers, Passphrases, None,
    Losable     \* TRUE: the stored identity may disappear from outside

VARIABLES phase,     \* "none", "established", "destroyed" or "lost"
          bundle,    \* the encrypted key in force: [key, pass, salt], or None
          told       \* caller -> what it was told: [kind, key]

vars == <<phase, bundle, told>>

Bundles == [key : Callers, pass : Passphrases, salt : Callers]

Init ==
    /\ phase = "none"
    /\ bundle = None
    /\ told = [c \in Callers |-> [kind |-> "none", key |-> None]]

Establish ==
    /\ phase = "none"
    /\ phase' = "established"
    /\ bundle' \in Bundles
    /\ UNCHANGED told

(* c replaces the encryption, and not after it was told that it succeeded.  *)
Rotate(c) ==
    /\ phase = "established"
    /\ told[c].kind \in {"none", "failed"}
    /\ bundle' \in {b \in Bundles : b.key = bundle.key /\ b.salt = c}
    /\ UNCHANGED <<phase, told>>

Destroy ==
    /\ phase = "established"
    /\ phase' = "destroyed"
    /\ bundle' = None
    /\ UNCHANGED told

Lose ==
    /\ Losable
    /\ phase' = "lost"
    /\ bundle' = None
    /\ UNCHANGED told

Tell(c, kind, key) ==
    /\ told[c].kind = "none"
    /\ told' = [told EXCEPT ![c] = [kind |-> kind, key |-> key]]
    /\ UNCHANGED <<phase, bundle>>

(* The answer names the key in force, or the one that was, and nobody was   *)
(* ever told another.                                                       *)
TellIdentity(c) ==
    /\ phase # "none"
    /\ \E key \in Callers :
          /\ bundle # None => key = bundle.key
          /\ \A d \in Callers : told[d].key \in {key, None}
          /\ Tell(c, "ok", key)

TellDestroyed(c) ==
    /\ phase \in {"destroyed", "lost"}
    /\ Tell(c, "destroyed", None)

TellFailed(c) == Tell(c, "failed", None)

Next ==
    \/ Establish
    \/ Destroy
    \/ Lose
    \/ \E c \in Callers :
          Rotate(c) \/ TellIdentity(c) \/ TellDestroyed(c) \/ TellFailed(c)

Spec == Init /\ [][Next]_vars

==============================================================================
