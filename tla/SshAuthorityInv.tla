--------------------------- MODULE SshAuthorityInv ---------------------------
(***************************************************************************)
(* The inductive invariant of SshAuthority.  The first two parts concern   *)
(* one session at a time; the rest relate what sessions remember to what   *)
(* the store holds.                                                        *)
(***************************************************************************)
EXTENDS SshAuthority

(* A put that still may be applied.                                         *)
Sent(s) == call[s].state = "sent"

Owns(rec, s) == IsLocked(rec) /\ rec.token = s

(* What a put of s that may still be applied would do to the record base[s] *)
(* it is conditional on.                                                    *)
Reserves(s) ==
    /\ MayLock(base[s], req[s])
    /\ call[s].rec = Reservation(base[s], s)

Establishes(s) ==
    /\ Owns(base[s], s)
    /\ ~HasBundle(base[s])
    /\ req[s].op = "create"
    /\ call[s].rec = WithBundle(base[s], [key |-> s, pass |-> req[s].pass, salt |-> s])

Keeps(s) ==
    /\ Owns(base[s], s)
    /\ HasBundle(base[s])
    /\ call[s].rec = Published(base[s])

Reencrypts(s) ==
    /\ Owns(base[s], s)
    /\ HasBundle(base[s])
    /\ req[s].op = "rotate"
    /\ prev[s].bundle = base[s].bundle
    /\ req[s].pass = base[s].bundle.pass
    /\ call[s].rec = Published(WithBundle(base[s],
                       [base[s].bundle EXCEPT !.pass = req[s].newPass, !.salt = s]))

Destroys(s) ==
    /\ Owns(base[s], s)
    /\ HasBundle(base[s])
    /\ req[s].op = "delete"
    /\ call[s].rec = Tombstone

PutOK(s) == Sent(s) =>
    Reserves(s) \/ Establishes(s) \/ Keeps(s) \/ Reencrypts(s) \/ Destroys(s)

(* Where a session is, against its put and what it remembers.               *)
LocalInv(s) ==
    /\ outcome[s] = NoOutcome <=> pc[s] # "done"
    /\ pc[s] \in {"idle", "inspect", "precheck", "lock"} => call[s] = NoCall
    /\ pc[s] \in {"held", "cache"} => call[s].state = "applied"
    /\ pc[s] = "reserve" => call[s].rec = Reservation(prev[s], s)
    /\ pc[s] = "held" => base[s] = Reservation(prev[s], s)
    /\ pc[s] = "bundle" => HasBundle(call[s].rec) /\ Owns(call[s].rec, s)
    /\ pc[s] \in {"publish", "release", "restore"} =>
          HasBundle(call[s].rec) /\ ~IsLocked(call[s].rec)
    /\ pc[s] = "cache" => HasBundle(base[s])
    /\ pc[s] = "bury" => call[s].rec = Tombstone

(* The records a session remembers satisfy validate_record.                 *)
MemoryOK(s) ==
    ValidRecord(base[s]) /\ ValidRecord(prev[s]) /\ ValidRecord(call[s].rec)

(* What is known of one session, whatever the store holds.                  *)
Local(s) == LocalInv(s) /\ PutOK(s) /\ MemoryOK(s)

(* A put that would be accepted is about the record the session remembers.  *)
VersionInv ==
    \A s \in Sessions :
        /\ gen[s] <= store.gen
        /\ Generations /\ gen[s] = store.gen => base[s] = store.rec

(* The part of the invariant that fences puts.                              *)
FenceInv ==
    /\ TypeOK
    /\ \A s \in Sessions : Local(s)
    /\ ValidRecord(store.rec)
    /\ VersionInv

(* A tombstone that was written is still there.                             *)
TombstoneInv ==
    \A s \in Sessions :
        \/ call[s].state = "applied" /\ call[s].rec = Tombstone
        \/ outcome[s].kind = "destroyed"
        => store.rec = Tombstone

(* Every key anybody can see or remembers, the same one; none before the    *)
(* first bundle is stored.                                                  *)
Remembers(s, k) ==
    \/ outcome[s].key = k
    \/ KeyOf(base[s]) = k
    \/ KeyOf(prev[s]) = k
    \/ call[s].state = "applied" /\ KeyOf(call[s].rec) = k

Visible(k) ==
    \/ KeyOf(store.rec) = k
    \/ \E h \in Hosts : cache[h] = k
    \/ \E s \in Sessions : Remembers(s, k)

Hollow(rec) == ~HasBundle(rec) /\ rec.status # "deleted"

IdentityInv ==
    /\ \A k, l \in Sessions : Visible(k) /\ Visible(l) => k = l
    /\ Hollow(store.rec) => \A k \in Sessions : ~Visible(k)

(* A put that still may be applied belongs to a session that was not told   *)
(* it succeeded.                                                            *)
PendingInv == \A s \in Sessions : Sent(s) => outcome[s].kind \in {"none", "failed"}

(* The whole inductive invariant, as proved in SshAuthorityProofs.          *)
IInv == FenceInv /\ TombstoneInv /\ IdentityInv /\ PendingInv

==============================================================================
