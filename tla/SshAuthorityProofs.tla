------------------------ MODULE SshAuthorityProofs ------------------------
(***************************************************************************)
(* Proofs about SshAuthority, for every set of sessions, passphrases and   *)
(* hosts, for ETag and generation stores alike, with and without faults.   *)
(***************************************************************************)
EXTENDS SshAuthorityInv, TLAPS

(* The steps of one session or of the store on its behalf.                  *)
Step(s) ==
    \/ Start(s)
    \/ Inspect(s)
    \/ FindTombstone(s)
    \/ FindNoTombstone(s)
    \/ Lock(s)
    \/ LockRefused(s)
    \/ Reserved(s)
    \/ RefuseHollow(s)
    \/ Generate(s)
    \/ PublishGenerated(s)
    \/ Adopt(s)
    \/ Recover(s)
    \/ Rotate(s)
    \/ Restore(s)
    \/ RetainLock(s)
    \/ Bury(s)
    \/ Load(s)
    \/ LoadFails(s)
    \/ PublishedResource(s)
    \/ WriteCache(s)
    \/ PublishedLoad(s)
    \/ Released(s)
    \/ Buried(s)
    \/ WriteFails(s)
    \/ WriteUncertain(s)
    \/ ApplyPut(s)
    \/ RefusePut(s)
    \/ Crash(s)

LEMMA NextIsStep == Next <=> \E s \in Sessions : Step(s)
  BY DEF Next, Step, Progress, Storage

-----------------------------------------------------------------------------
LEMMA InitTypeOK == Init => TypeOK
  BY DEF Init, TypeOK, Records, Statuses, Absent, Locations, Waiting, Requests,
         Operations, MutatingOps, UnlockingOps, NoRequest, Calls, NoCall, Outcomes, NoOutcome

(* The values that steps write have their types.                            *)
LEMMA RecordsTyped ==
  /\ Tombstone \in Records
  /\ Absent \in Records
  /\ \A rec \in Records :
        /\ Published(rec) \in Records
        /\ KeyOf(rec) \in Sessions \cup {None}
        /\ \A s \in Sessions : Reservation(rec, s) \in Records
        /\ \A bundle \in Bundles : WithBundle(rec, bundle) \in Records
  BY DEF Records, Reservation, Published, WithBundle, Statuses, Tombstone, Absent,
         KeyOf, HasBundle, Bundles

LEMMA OutcomesTyped ==
  /\ NoOutcome \in Outcomes /\ Failure \in Outcomes /\ Destroyed \in Outcomes
  /\ \A k \in Sessions \cup {None} : Answer(k) \in Outcomes
  BY DEF Outcomes, NoOutcome, Failure, Destroyed, Answer

LEMMA RequestsTyped ==
  ASSUME TypeOK, NEW op \in Ops, 
         NEW r \in CallerRequests(op, Known, store.rec.token)
  PROVE  r \in Requests
<1>1. Known \subseteq Sessions \cup {None}
  BY DEF Known, TypeOK, Outcomes
<1>2. store.rec.token \in Sessions \cup {None}
  BY DEF TypeOK, Records
<1>3. op \in Operations
  BY OpsAssumption
<1> QED
  BY <1>1, <1>2, <1>3, NoneAssumption DEF CallerRequests, Requests, UnlockingOps

(* The variables a kind of step writes keep their types.                    *)
LEMMA FinishTyped ==
  ASSUME TypeOK, NEW s \in Sessions, NEW o \in Outcomes, Finish(s, o)
  PROVE  pc' \in [Sessions -> Locations] /\ outcome' \in [Sessions -> Outcomes]
  BY DEF TypeOK, Finish, Goto, Locations

LEMMA GotoTyped ==
  ASSUME TypeOK, NEW s \in Sessions, NEW label \in Locations, Goto(s, label)
  PROVE  pc' \in [Sessions -> Locations]
  BY DEF TypeOK, Goto

LEMMA SendTyped ==
  ASSUME TypeOK, NEW s \in Sessions, NEW rec \in Records, NEW label \in Locations,
         Send(s, rec, label)
  PROVE  pc' \in [Sessions -> Locations] /\ call' \in [Sessions -> Calls]
  BY DEF TypeOK, Send, Goto, Calls

LEMMA AcknowledgedTyped ==
  ASSUME TypeOK, NEW s \in Sessions, Acknowledged(s)
  PROVE  base' \in [Sessions -> Records] /\ gen' \in [Sessions -> Nat]
  BY DEF TypeOK, Acknowledged, Calls

LEMMA AnsweredTyped ==
  ASSUME TypeOK, NEW s \in Sessions, NEW answer \in {"applied", "refused"},
         call' = [call EXCEPT ![s].state = answer]
  PROVE  call' \in [Sessions -> Calls]
  BY DEF TypeOK, Calls

LEMMA Labels ==
  Waiting \cup {"idle", "inspect", "precheck", "lock", "held", "cache", "done"}
      \subseteq Locations
  BY DEF Locations

LEMMA Memory ==
  ASSUME TypeOK, NEW s \in Sessions
  PROVE  /\ store.rec \in Records /\ store.gen \in Nat
         /\ base[s] \in Records /\ prev[s] \in Records /\ call[s].rec \in Records
         /\ req[s] \in Requests
         /\ req[s].host \in Hosts \cup {None}
         /\ req[s].op = "create" => req[s].pass \in Passphrases
         /\ req[s].op = "rotate" => req[s].newPass \in Passphrases
         /\ base[s].bundle \in Bundles \cup {None}
  BY DEF TypeOK, Calls, Requests, Records, UnlockingOps

LEMMA TypeStep ==
  ASSUME TypeOK, NEW s \in Sessions, Step(s)
  PROVE  TypeOK'
<1> USE RecordsTyped, OutcomesTyped, Labels, Memory
<1>1. CASE Start(s)
  <2>1. req' \in [Sessions -> Requests]
    BY <1>1, RequestsTyped DEF Start, TypeOK
  <2>2. pc' \in [Sessions -> Locations]
    BY <1>1 DEF Start, Goto, TypeOK, Locations
  <2> QED
    BY <1>1, <2>1, <2>2 DEF Start, TypeOK
<1>2. CASE Inspect(s)
  BY <1>2, FinishTyped DEF Inspect, TypeOK
<1>3. CASE FindTombstone(s)
  BY <1>3, FinishTyped DEF FindTombstone, TypeOK
<1>4. CASE FindNoTombstone(s)
  BY <1>4, GotoTyped DEF FindNoTombstone, TypeOK
<1>5. CASE Lock(s)
  BY <1>5, SendTyped DEF Lock, TypeOK, Waiting
<1>6. CASE LockRefused(s)
  BY <1>6, FinishTyped DEF LockRefused, TypeOK
<1>7. CASE Reserved(s)
  BY <1>7, GotoTyped, AcknowledgedTyped DEF Reserved, TypeOK
<1>8. CASE RefuseHollow(s)
  BY <1>8, FinishTyped DEF RefuseHollow, TypeOK
<1>9. CASE Generate(s)
  <2>1. [key |-> s, pass |-> req[s].pass, salt |-> s] \in Bundles
    BY <1>9 DEF Generate, Bundles
  <2> QED
    BY <1>9, <2>1, SendTyped DEF Generate, TypeOK, Waiting
<1>10. CASE PublishGenerated(s)
  BY <1>10, SendTyped, AcknowledgedTyped DEF PublishGenerated, TypeOK, Waiting
<1>11. CASE Adopt(s)
  BY <1>11, SendTyped DEF Adopt, TypeOK, Waiting
<1>12. CASE Recover(s)
  BY <1>12, SendTyped DEF Recover, TypeOK, Waiting
<1>13. CASE Rotate(s)
  <2>1. [base[s].bundle EXCEPT !.pass = req[s].newPass, !.salt = s] \in Bundles
    BY <1>13 DEF Rotate, Bundles, HasBundle
  <2> QED
    BY <1>13, <2>1, SendTyped DEF Rotate, TypeOK, Waiting
<1>14. CASE Restore(s)
  BY <1>14, SendTyped DEF Restore, TypeOK, Waiting
<1>15. CASE RetainLock(s)
  BY <1>15, FinishTyped DEF RetainLock, TypeOK
<1>16. CASE Bury(s)
  BY <1>16, SendTyped DEF Bury, TypeOK, Waiting
<1>17. CASE Load(s)
  BY <1>17, SendTyped DEF Load, TypeOK, Waiting
<1>18. CASE LoadFails(s)
  BY <1>18, SendTyped DEF LoadFails, TypeOK, Waiting
<1>19. CASE PublishedResource(s)
  BY <1>19, GotoTyped, AcknowledgedTyped DEF PublishedResource, TypeOK
<1>20. CASE WriteCache(s)
  BY <1>20, FinishTyped DEF WriteCache, TypeOK
<1>21. CASE PublishedLoad(s)
  BY <1>21, FinishTyped, AcknowledgedTyped DEF PublishedLoad, TypeOK
<1>22. CASE Released(s)
  BY <1>22, FinishTyped, AcknowledgedTyped DEF Released, TypeOK
<1>23. CASE Buried(s)
  BY <1>23, FinishTyped, AcknowledgedTyped DEF Buried, TypeOK
<1>24. CASE WriteFails(s)
  BY <1>24, FinishTyped DEF WriteFails, TypeOK
<1>25. CASE WriteUncertain(s)
  BY <1>25, FinishTyped DEF WriteUncertain, TypeOK
<1>26. CASE ApplyPut(s)
  <2>1. call' \in [Sessions -> Calls]
    BY <1>26, AnsweredTyped DEF ApplyPut
  <2>2. store' \in [rec : Records, gen : Nat]
    BY <1>26 DEF ApplyPut
  <2> QED
    BY <1>26, <2>1, <2>2 DEF ApplyPut, TypeOK
<1>27. CASE RefusePut(s)
  BY <1>27, AnsweredTyped DEF RefusePut, TypeOK
<1>28. CASE Crash(s)
  BY <1>28, FinishTyped DEF Crash, TypeOK
<1> QED
  BY <1>1, <1>2, <1>3, <1>4, <1>5, <1>6, <1>7, <1>8, <1>9, <1>10, <1>11, <1>12, <1>13, <1>14, <1>15,
     <1>16, <1>17, <1>18, <1>19, <1>20, <1>21, <1>22, <1>23, <1>24, <1>25, <1>26, <1>27, <1>28
     DEF Step


LEMMA TypeStutter ==
  ASSUME TypeOK, UNCHANGED vars
  PROVE  TypeOK'
  BY DEF TypeOK, vars

(* Every variable keeps to its type in every behaviour.                     *)
THEOREM TypeCorrect == Spec => []TypeOK
<1>1. Init => TypeOK
  BY InitTypeOK
<1>2. TypeOK /\ [Next]_vars => TypeOK'
  BY NextIsStep, TypeStep, TypeStutter
<1> QED
  BY <1>1, <1>2, PTL DEF Spec

-----------------------------------------------------------------------------
(* What a step of s leaves alone: the variables of every other session.     *)
Untouched(t) ==
    /\ pc'[t] = pc[t] /\ req'[t] = req[t] /\ base'[t] = base[t] /\ gen'[t] = gen[t]
    /\ prev'[t] = prev[t] /\ call'[t] = call[t] /\ outcome'[t] = outcome[t]

LEMMA OthersUntouched ==
  ASSUME TypeOK, NEW s \in Sessions, NEW t \in Sessions, s # t, Step(s)
  PROVE  Untouched(t)
<1> USE DEF Untouched, TypeOK, Finish, Goto, Send, Acknowledged
<1>1. CASE Start(s)
  BY <1>1 DEF Start
<1>2. CASE Inspect(s)
  BY <1>2 DEF Inspect
<1>3. CASE FindTombstone(s)
  BY <1>3 DEF FindTombstone
<1>4. CASE FindNoTombstone(s)
  BY <1>4 DEF FindNoTombstone
<1>5. CASE Lock(s)
  BY <1>5 DEF Lock
<1>6. CASE LockRefused(s)
  BY <1>6 DEF LockRefused
<1>7. CASE Reserved(s)
  BY <1>7 DEF Reserved
<1>8. CASE RefuseHollow(s)
  BY <1>8 DEF RefuseHollow
<1>9. CASE Generate(s)
  BY <1>9 DEF Generate
<1>10. CASE PublishGenerated(s)
  BY <1>10 DEF PublishGenerated
<1>11. CASE Adopt(s)
  BY <1>11 DEF Adopt
<1>12. CASE Recover(s)
  BY <1>12 DEF Recover
<1>13. CASE Rotate(s)
  BY <1>13 DEF Rotate
<1>14. CASE Restore(s)
  BY <1>14 DEF Restore
<1>15. CASE RetainLock(s)
  BY <1>15 DEF RetainLock
<1>16. CASE Bury(s)
  BY <1>16 DEF Bury
<1>17. CASE Load(s)
  BY <1>17 DEF Load
<1>18. CASE LoadFails(s)
  BY <1>18 DEF LoadFails
<1>19. CASE PublishedResource(s)
  BY <1>19 DEF PublishedResource
<1>20. CASE WriteCache(s)
  BY <1>20 DEF WriteCache
<1>21. CASE PublishedLoad(s)
  BY <1>21 DEF PublishedLoad
<1>22. CASE Released(s)
  BY <1>22 DEF Released
<1>23. CASE Buried(s)
  BY <1>23 DEF Buried
<1>24. CASE WriteFails(s)
  BY <1>24 DEF WriteFails
<1>25. CASE WriteUncertain(s)
  BY <1>25 DEF WriteUncertain
<1>26. CASE ApplyPut(s)
  BY <1>26 DEF ApplyPut
<1>27. CASE RefusePut(s)
  BY <1>27 DEF RefusePut
<1>28. CASE Crash(s)
  BY <1>28 DEF Crash
<1> QED
  BY <1>1, <1>2, <1>3, <1>4, <1>5, <1>6, <1>7, <1>8, <1>9, <1>10, <1>11, <1>12, <1>13, <1>14, <1>15,
     <1>16, <1>17, <1>18, <1>19, <1>20, <1>21, <1>22, <1>23, <1>24, <1>25, <1>26, <1>27, <1>28
     DEF Step

(* What the kinds of steps do to the session that takes them.               *)
LEMMA FinishValue ==
  ASSUME TypeOK, NEW s \in Sessions, NEW o, Finish(s, o)
  PROVE  pc'[s] = "done" /\ outcome'[s] = o
  BY DEF TypeOK, Finish, Goto

LEMMA GotoValue ==
  ASSUME TypeOK, NEW s \in Sessions, NEW label, Goto(s, label)
  PROVE  pc'[s] = label
  BY DEF TypeOK, Goto

LEMMA SendValue ==
  ASSUME TypeOK, NEW s \in Sessions, NEW rec, NEW label, Send(s, rec, label)
  PROVE  pc'[s] = label /\ call'[s].rec = rec /\ call'[s].state = "sent"
  BY DEF TypeOK, Send, Goto

LEMMA AcknowledgedValue ==
  ASSUME TypeOK, NEW s \in Sessions, Acknowledged(s)
  PROVE  /\ call[s].state = "applied"
         /\ base'[s] = call[s].rec /\ gen'[s] = store.gen
  BY DEF TypeOK, Acknowledged

-----------------------------------------------------------------------------
(* How the record constructors relate.                                      *)
LEMMA ReservationShape ==
  ASSUME NEW rec \in Records, NEW s \in Sessions
  PROVE  /\ Reservation(rec, s).bundle = rec.bundle
         /\ HasBundle(Reservation(rec, s)) <=> HasBundle(rec)
         /\ KeyOf(Reservation(rec, s)) = KeyOf(rec)
         /\ Owns(Reservation(rec, s), s)
         /\ Reservation(rec, s).status = "locked"
         /\ rec.status \in {"ready", "locked"} /\ ValidRecord(rec)
               => ValidRecord(Reservation(rec, s))
         /\ rec.status = "absent" /\ ValidRecord(rec) => ValidRecord(Reservation(rec, s))
         /\ rec.status = "ready" /\ ValidRecord(rec)
               => Published(Reservation(rec, s)) = rec
  BY NoneAssumption
     DEF Records, Reservation, HasBundle, KeyOf, Owns, IsLocked, ValidRecord, Published,
         Statuses

LEMMA PublishedShape ==
  ASSUME NEW rec \in Records
  PROVE  /\ Published(rec).bundle = rec.bundle
         /\ HasBundle(Published(rec)) <=> HasBundle(rec)
         /\ KeyOf(Published(rec)) = KeyOf(rec)
         /\ ~IsLocked(Published(rec))
         /\ HasBundle(rec) => ValidRecord(Published(rec))
         /\ Published(rec).status = "ready"
  BY DEF Records, Published, HasBundle, KeyOf, IsLocked, ValidRecord, Statuses

LEMMA WithBundleShape ==
  ASSUME NEW rec \in Records, NEW bundle \in Bundles
  PROVE  /\ WithBundle(rec, bundle).bundle = bundle
         /\ HasBundle(WithBundle(rec, bundle))
         /\ KeyOf(WithBundle(rec, bundle)) = bundle.key
         /\ \A s : Owns(WithBundle(rec, bundle), s) <=> Owns(rec, s)
         /\ IsLocked(rec) /\ ValidRecord(rec) => ValidRecord(WithBundle(rec, bundle))
  BY NoneAssumption
     DEF Records, WithBundle, HasBundle, KeyOf, Owns, IsLocked, ValidRecord, Statuses

LEMMA TombstoneShape ==
  /\ ~HasBundle(Tombstone) /\ KeyOf(Tombstone) = None /\ ~IsLocked(Tombstone)
  /\ Tombstone.status = "deleted" /\ ValidRecord(Tombstone)
  BY DEF Tombstone, HasBundle, KeyOf, IsLocked, ValidRecord

LEMMA AbsentShape ==
  /\ ~HasBundle(Absent) /\ KeyOf(Absent) = None /\ ~IsLocked(Absent)
  /\ Absent.status = "absent" /\ ValidRecord(Absent)
  BY DEF Absent, HasBundle, KeyOf, IsLocked, ValidRecord

(* What may be locked is not deleted, and whoever may lock a locked record  *)
(* is a recover with its token.                                             *)
LEMMA MayLockShape ==
  ASSUME NEW rec \in Records, NEW r, MayLock(rec, r)
  PROVE  /\ rec.status # "deleted"
         /\ IsLocked(rec) => r.op = "recover" /\ r.token = rec.token
         /\ rec.status = "absent" => r.op = "create"
  BY DEF MayLock, TokenAccepted, PresenceAccepted

-----------------------------------------------------------------------------
(* Local(s) is inductive.                                                   *)
LEMMA NoneSentAtFirst ==
  NoCall.rec = Absent /\ NoCall.state = "none" /\ NoOutcome.kind = "none"
  BY DEF NoCall, NoOutcome

LEMMA InitLocal == Init => \A s \in Sessions : Local(s)
  BY AbsentShape, NoneSentAtFirst
     DEF Init, Local, LocalInv, PutOK, Sent, MemoryOK

LEMMA LocalDone ==
  ASSUME NEW s \in Sessions, Local(s),
         pc'[s] = "done", outcome'[s] # NoOutcome,
         call'[s] = call[s], prev'[s] = prev[s], req'[s] = req[s],
         \/ base'[s] = base[s]
         \/ call[s].state = "applied" /\ base'[s] = call[s].rec
  PROVE  Local(s)'
<1>1. LocalInv(s)'
  BY DEF LocalInv, Waiting
<1>2. PutOK(s)'
  BY DEF Local, PutOK, Sent, Reserves, Establishes, Keeps, Reencrypts, Destroys
<1>3. MemoryOK(s)'
  BY DEF Local, MemoryOK
<1> QED
  BY <1>1, <1>2, <1>3 DEF Local

LEMMA HeldOwns ==
  ASSUME TypeOK, NEW s \in Sessions, Local(s), pc[s] = "held"
  PROVE  /\ Owns(base[s], s) /\ base[s].bundle = prev[s].bundle
         /\ HasBundle(base[s]) <=> HasBundle(prev[s])
         /\ prev[s].status = "ready" => Published(base[s]) = prev[s]
         /\ ValidRecord(base[s]) /\ ValidRecord(prev[s])
  BY Memory, ReservationShape DEF Local, LocalInv, MemoryOK

(* A session that holds the lock sends one of four kinds of record.         *)
LEMMA LocalSend ==
  ASSUME TypeOK, NEW s \in Sessions, Local(s), pc[s] = "held",
         NEW rec, NEW label \in {"bundle", "publish", "release", "restore", "bury"},
         Send(s, rec, label),
         base' = base, prev' = prev, req' = req, outcome' = outcome,
         \/ /\ label = "bundle" /\ ~HasBundle(base[s]) /\ req[s].op = "create"
            /\ rec = WithBundle(base[s], [key |-> s, pass |-> req[s].pass, salt |-> s])
         \/ /\ label \notin {"bundle", "bury"} /\ HasBundle(base[s])
            /\ rec = Published(base[s])
         \/ /\ label = "publish" /\ HasBundle(base[s]) /\ req[s].op = "rotate"
            /\ req[s].pass = base[s].bundle.pass
            /\ rec = Published(WithBundle(base[s],
                       [base[s].bundle EXCEPT !.pass = req[s].newPass, !.salt = s]))
         \/ /\ label = "bury" /\ HasBundle(base[s]) /\ req[s].op = "delete"
            /\ rec = Tombstone
  PROVE  Local(s)'
<1>1. pc'[s] = label /\ call'[s].rec = rec /\ call'[s].state = "sent"
  BY SendValue
<1>2. /\ Owns(base[s], s) /\ base[s].bundle = prev[s].bundle
      /\ ValidRecord(base[s]) /\ ValidRecord(prev[s]) /\ IsLocked(base[s])
  BY HeldOwns DEF Owns
<1>3. PutOK(s)'
  BY <1>1, <1>2 DEF PutOK, Establishes, Keeps, Reencrypts, Destroys
<1>4. [key |-> s, pass |-> req[s].pass, salt |-> s] \in Bundles \/ req[s].op # "create"
  BY Memory DEF Bundles
<1>5. \/ ~HasBundle(base[s]) \/ req[s].op # "rotate"
      \/ [base[s].bundle EXCEPT !.pass = req[s].newPass, !.salt = s] \in Bundles
  BY Memory DEF Bundles, HasBundle
<1>6. /\ ValidRecord(rec)
      /\ label = "bundle" => HasBundle(rec) /\ Owns(rec, s)
      /\ label \in {"publish", "release", "restore"} => HasBundle(rec) /\ ~IsLocked(rec)
      /\ label = "bury" => rec = Tombstone
  <2>1. CASE label = "bundle"
    BY <2>1, <1>2, <1>4, Memory, WithBundleShape
  <2>2. CASE label = "bury"
    BY <2>2, TombstoneShape
  <2>3. CASE label \notin {"bundle", "bury"} /\ rec = Published(base[s])
    BY <2>3, Memory, PublishedShape
  <2>4. CASE /\ label = "publish" /\ HasBundle(base[s]) /\ req[s].op = "rotate"
             /\ rec = Published(WithBundle(base[s],
                      [base[s].bundle EXCEPT !.pass = req[s].newPass, !.salt = s]))
    <3>1. WithBundle(base[s], [base[s].bundle EXCEPT !.pass = req[s].newPass, !.salt = s])
             \in Records
      BY <2>4, <1>5, Memory, RecordsTyped
    <3> QED
      BY <2>4, <3>1, <1>5, Memory, PublishedShape, WithBundleShape
  <2> QED
    BY <2>1, <2>2, <2>3, <2>4
<1>7. LocalInv(s)'
  BY <1>1, <1>6 DEF Local, LocalInv
<1>8. MemoryOK(s)'
  BY <1>1, <1>2, <1>6 DEF MemoryOK
<1> QED
  BY <1>3, <1>7, <1>8 DEF Local

LEMMA NotNoOutcome ==
  /\ Failure # NoOutcome /\ Destroyed # NoOutcome
  /\ \A k : Answer(k) # NoOutcome
  BY DEF Failure, Destroyed, NoOutcome, Answer

LEMMA LocalStep ==
  ASSUME TypeOK, ValidRecord(store.rec), NEW s \in Sessions, Local(s), Step(s)
  PROVE  Local(s)'
<1> USE Memory, NotNoOutcome
<1>1. CASE Start(s)
  <2>1. pc[s] \in {"idle", "precheck"} /\ pc'[s] \in {"inspect", "precheck", "lock"}
    BY <1>1, GotoValue DEF Start
  <2>2. call'[s] = call[s] /\ prev'[s] = prev[s] /\ base'[s] = base[s] /\ outcome'[s] = outcome[s]
    BY <1>1 DEF Start
  <2> QED
    BY <2>1, <2>2 DEF Local, LocalInv, PutOK, Sent, MemoryOK, NoCall, Waiting
<1>2. CASE Inspect(s)
  BY <1>2, FinishValue, LocalDone DEF Inspect
<1>3. CASE FindTombstone(s)
  BY <1>3, FinishValue, LocalDone DEF FindTombstone
<1>4. CASE FindNoTombstone(s)
  <2>1. pc[s] \in {"idle", "precheck"} /\ pc'[s] \in {"inspect", "precheck", "lock"}
    BY <1>4, GotoValue DEF FindNoTombstone
  <2>2. call'[s] = call[s] /\ prev'[s] = prev[s] /\ base'[s] = base[s] /\ outcome'[s] = outcome[s]
    BY <1>4 DEF FindNoTombstone
  <2> QED
    BY <2>1, <2>2 DEF Local, LocalInv, PutOK, Sent, MemoryOK, NoCall, Waiting
<1>5. CASE Lock(s)
  <2>1. /\ pc'[s] = "reserve" /\ call'[s].rec = Reservation(store.rec, s)
        /\ call'[s].state = "sent"
    BY <1>5, SendValue DEF Lock
  <2>2. /\ base'[s] = store.rec /\ prev'[s] = store.rec /\ req' = req
        /\ outcome' = outcome /\ MayLock(store.rec, req[s])
        /\ pc[s] = "lock"
    BY <1>5 DEF Lock, TypeOK
  <2>3. PutOK(s)'
    BY <2>1, <2>2 DEF PutOK, Reserves
  <2>4. LocalInv(s)'
    BY <2>1, <2>2 DEF Local, LocalInv
  <2>5. ValidRecord(Reservation(store.rec, s))
    BY <2>2, MayLockShape, ReservationShape DEF Records, Statuses
  <2>6. MemoryOK(s)'
    BY <2>1, <2>2, <2>5 DEF MemoryOK
  <2> QED
    BY <2>3, <2>4, <2>6 DEF Local
<1>6. CASE LockRefused(s)
  BY <1>6, FinishValue, LocalDone DEF LockRefused
<1>7. CASE Reserved(s)
  <2>1. /\ pc'[s] = "held" /\ call[s].state = "applied" /\ base'[s] = call[s].rec
        /\ call'[s] = call[s] /\ prev'[s] = prev[s] /\ outcome'[s] = outcome[s]
    BY <1>7, GotoValue, AcknowledgedValue DEF Reserved
  <2>2. pc[s] = "reserve"
    BY <1>7 DEF Reserved
  <2> QED
    BY <2>1, <2>2 DEF Local, LocalInv, PutOK, Sent, MemoryOK, Waiting
<1>8. CASE RefuseHollow(s)
  BY <1>8, FinishValue, LocalDone DEF RefuseHollow
<1>9. CASE Generate(s)
  BY <1>9, LocalSend DEF Generate
<1>10. CASE PublishGenerated(s)
  <2>1. /\ pc'[s] = "publish" /\ call'[s].rec = Published(call[s].rec)
        /\ call'[s].state = "sent" /\ base'[s] = call[s].rec
    BY <1>10, SendValue, AcknowledgedValue DEF PublishGenerated
  <2>2. prev' = prev /\ outcome' = outcome /\ pc[s] = "bundle"
    BY <1>10 DEF PublishGenerated
  <2>3. HasBundle(call[s].rec) /\ Owns(call[s].rec, s) /\ ValidRecord(call[s].rec)
    BY <2>2 DEF Local, LocalInv, MemoryOK
  <2>4. PutOK(s)'
    BY <2>1, <2>3 DEF PutOK, Keeps
  <2>5. LocalInv(s)'
    BY <2>1, <2>2, <2>3, PublishedShape DEF Local, LocalInv
  <2>6. MemoryOK(s)'
    BY <2>1, <2>2, <2>3, PublishedShape DEF Local, MemoryOK
  <2> QED
    BY <2>4, <2>5, <2>6 DEF Local
<1>11. CASE Adopt(s)
  BY <1>11, LocalSend DEF Adopt
<1>12. CASE Recover(s)
  BY <1>12, LocalSend DEF Recover
<1>13. CASE Rotate(s)
  BY <1>13, LocalSend DEF Rotate, Unlocks
<1>14. CASE Restore(s)
  <2>1. pc[s] = "held" /\ prev[s].status = "ready"
    BY <1>14 DEF Restore, AttemptFails
  <2>2. prev[s] = Published(base[s]) /\ HasBundle(base[s])
    BY <2>1, HeldOwns DEF ValidRecord
  <2> QED
    BY <1>14, <2>1, <2>2, LocalSend DEF Restore
<1>15. CASE RetainLock(s)
  BY <1>15, FinishValue, LocalDone DEF RetainLock
<1>16. CASE Bury(s)
  BY <1>16, LocalSend DEF Bury
<1>17. CASE Load(s)
  BY <1>17, LocalSend DEF Load
<1>18. CASE LoadFails(s)
  BY <1>18, LocalSend DEF LoadFails
<1>19. CASE PublishedResource(s)
  <2>1. /\ pc'[s] = "cache" /\ call[s].state = "applied" /\ base'[s] = call[s].rec
        /\ call'[s] = call[s] /\ prev'[s] = prev[s] /\ outcome'[s] = outcome[s]
    BY <1>19, GotoValue, AcknowledgedValue DEF PublishedResource
  <2>2. pc[s] = "publish"
    BY <1>19 DEF PublishedResource
  <2> QED
    BY <2>1, <2>2 DEF Local, LocalInv, PutOK, Sent, MemoryOK, Waiting
<1>20. CASE WriteCache(s)
  BY <1>20, FinishValue, LocalDone DEF WriteCache
<1>21. CASE PublishedLoad(s)
  BY <1>21, FinishValue, AcknowledgedValue, LocalDone DEF PublishedLoad
<1>22. CASE Released(s)
  BY <1>22, FinishValue, AcknowledgedValue, LocalDone DEF Released
<1>23. CASE Buried(s)
  BY <1>23, FinishValue, AcknowledgedValue, LocalDone DEF Buried
<1>24. CASE WriteFails(s)
  BY <1>24, FinishValue, LocalDone DEF WriteFails
<1>25. CASE WriteUncertain(s)
  BY <1>25, FinishValue, LocalDone DEF WriteUncertain
<1>26. CASE ApplyPut(s)
  <2>1. /\ pc'[s] = pc[s] /\ base'[s] = base[s] /\ prev'[s] = prev[s]
        /\ outcome'[s] = outcome[s] /\ call[s].state = "sent"
        /\ call'[s].rec = call[s].rec /\ call'[s].state \in {"applied", "refused"}
    BY <1>26 DEF ApplyPut, TypeOK, Calls
  <2> QED
    BY <2>1 DEF Local, LocalInv, PutOK, Sent, MemoryOK, Waiting, NoCall
<1>27. CASE RefusePut(s)
  <2>1. /\ pc'[s] = pc[s] /\ base'[s] = base[s] /\ prev'[s] = prev[s]
        /\ outcome'[s] = outcome[s] /\ call[s].state = "sent"
        /\ call'[s].rec = call[s].rec /\ call'[s].state \in {"applied", "refused"}
    BY <1>27 DEF RefusePut, TypeOK, Calls
  <2> QED
    BY <2>1 DEF Local, LocalInv, PutOK, Sent, MemoryOK, Waiting, NoCall
<1>28. CASE Crash(s)
  BY <1>28, FinishValue, LocalDone DEF Crash
<1> QED
  BY <1>1, <1>2, <1>3, <1>4, <1>5, <1>6, <1>7, <1>8, <1>9, <1>10, <1>11, <1>12, <1>13, <1>14, <1>15,
     <1>16, <1>17, <1>18, <1>19, <1>20, <1>21, <1>22, <1>23, <1>24, <1>25, <1>26, <1>27, <1>28
     DEF Step

-----------------------------------------------------------------------------
(* The store only changes by an accepted put, and such a put is about the   *)
(* record its session remembers.                                            *)
LEMMA StoreStep ==
  ASSUME NEW s \in Sessions, Step(s)
  PROVE  ApplyPut(s) \/ store' = store
  BY DEF Step, Start, Inspect, FindTombstone, FindNoTombstone, Lock, LockRefused, Reserved,
     RefuseHollow, Generate, PublishGenerated, Adopt, Recover, Rotate, Restore, RetainLock, Bury,
     Load, LoadFails, PublishedResource, WriteCache, PublishedLoad, Released, Buried, WriteFails,
     WriteUncertain, RefusePut, Crash

(* The steps after which a session remembers another record.                *)
LEMMA BaseStep ==
  ASSUME TypeOK, NEW s \in Sessions, Step(s)
  PROVE  \/ base'[s] = base[s] /\ gen'[s] = gen[s]
         \/ base'[s] = store.rec /\ gen'[s] = store.gen /\ store' = store
         \/ Acknowledged(s) /\ store' = store
<1>1. CASE Lock(s)
  BY <1>1 DEF Lock, TypeOK
<1>2. CASE Reserved(s) \/ PublishGenerated(s) \/ PublishedResource(s)
             \/ PublishedLoad(s) \/ Released(s) \/ Buried(s)
  BY <1>2 DEF Reserved, PublishGenerated, PublishedResource, PublishedLoad, Released, Buried
<1> QED
  BY <1>1, <1>2 DEF Step, Start, Inspect, FindTombstone, FindNoTombstone, LockRefused, RefuseHollow,
     Generate, Adopt, Recover, Rotate, Restore, RetainLock, Bury, Load, LoadFails, WriteCache,
     WriteFails, WriteUncertain, ApplyPut, RefusePut, Crash

LEMMA PutMatches ==
  ASSUME FenceInv, NEW s \in Sessions, ApplyPut(s)
  PROVE  /\ base[s] = store.rec /\ Sent(s) /\ Applies(s)
         /\ store'.rec = call[s].rec
         /\ Generations => store'.gen = store.gen + 1
         /\ ~Generations => store'.gen = store.gen
  BY DEF FenceInv, ApplyPut, VersionMatches, VersionInv, Sent, Applies, TypeOK, Calls

LEMMA VersionStep ==
  ASSUME FenceInv, NEW s \in Sessions, Step(s)
  PROVE  VersionInv'
<1> SUFFICES ASSUME NEW t \in Sessions
             PROVE  /\ gen'[t] <= store'.gen
                    /\ Generations /\ gen'[t] = store'.gen => base'[t] = store'.rec
  BY DEF VersionInv
<1>0. /\ TypeOK /\ gen[t] \in Nat /\ store.gen \in Nat /\ gen[t] <= store.gen
      /\ Generations /\ gen[t] = store.gen => base[t] = store.rec
  BY DEF FenceInv, TypeOK, VersionInv
<1>1. CASE ApplyPut(s)
  <2>1. gen'[t] = gen[t] /\ base'[t] = base[t]
    BY <1>1 DEF ApplyPut
  <2> QED
    BY <1>0, <1>1, <2>1, PutMatches, SwitchAssumption
<1>2. CASE store' = store /\ t # s
  BY <1>0, <1>2, OthersUntouched DEF Untouched
<1>3. CASE store' = store /\ t = s
  <2>1. CASE Acknowledged(s)
    <3>1. /\ base'[s] = call[s].rec /\ gen'[s] = store.gen
          /\ Generations => store.rec = call[s].rec
      BY <1>0, <2>1, AcknowledgedValue DEF Acknowledged, ReadBackAgrees
    <3> QED
      BY <1>0, <1>3, <3>1
  <2> QED
    BY <1>0, <1>3, <2>1, BaseStep
<1> QED
  BY <1>1, <1>2, <1>3, StoreStep

LEMMA LocalUntouched ==
  ASSUME NEW t \in Sessions, Local(t), Untouched(t)
  PROVE  Local(t)'
  BY DEF Untouched, Local, LocalInv, PutOK, MemoryOK, Sent, Reserves, Establishes, Keeps,
         Reencrypts, Destroys

LEMMA FenceInit == Init => FenceInv
<1> SUFFICES ASSUME Init PROVE FenceInv
  OBVIOUS
<1>1. TypeOK /\ (\A s \in Sessions : Local(s))
  BY InitTypeOK, InitLocal
<1>2. VersionInv /\ ValidRecord(store.rec)
  BY AbsentShape DEF Init, VersionInv
<1> QED
  BY <1>1, <1>2 DEF FenceInv

LEMMA FenceStep ==
  ASSUME FenceInv, NEW s \in Sessions, Step(s)
  PROVE  FenceInv'
<1>1. TypeOK /\ ValidRecord(store.rec) /\ (\A t \in Sessions : Local(t))
  BY DEF FenceInv
<1>2. TypeOK'
  BY <1>1, TypeStep
<1>3. ASSUME NEW t \in Sessions PROVE Local(t)'
  BY <1>1, <1>3, LocalStep, LocalUntouched, OthersUntouched
<1>4. ValidRecord(store.rec)'
  BY <1>1, StoreStep, PutMatches DEF Local, MemoryOK
<1> QED
  BY <1>2, <1>3, <1>4, VersionStep DEF FenceInv

LEMMA FenceStutter ==
  ASSUME FenceInv, UNCHANGED vars
  PROVE  FenceInv'
<1>1. TypeOK' /\ VersionInv' /\ ValidRecord(store.rec)'
  BY TypeStutter DEF FenceInv, VersionInv, vars
<1>2. \A t \in Sessions : Local(t)'
  BY LocalUntouched DEF FenceInv, Untouched, vars
<1> QED
  BY <1>1, <1>2 DEF FenceInv

LEMMA FenceAlways == Spec => []FenceInv
<1>1. FenceInv /\ [Next]_vars => FenceInv'
  BY NextIsStep, FenceStep, FenceStutter
<1> QED
  BY <1>1, FenceInit, PTL DEF Spec

-----------------------------------------------------------------------------
(* While the record is locked only its owner, or a recovery that was given  *)
(* its token, changes it.                                                   *)
THEOREM LockIsFenced == Spec => LockFencing
<1> DEFINE Fenced == IsLocked(store.rec) /\ store' # store =>
                       \E s \in Sessions :
                          /\ Applies(s)
                          /\ \/ store.rec.token = s
                             \/ req[s].op = "recover" /\ req[s].token = store.rec.token
<1>1. ASSUME FenceInv, NEW s \in Sessions, Step(s) PROVE Fenced
  <2> SUFFICES ASSUME IsLocked(store.rec), ApplyPut(s)
               PROVE  \/ store.rec.token = s
                      \/ req[s].op = "recover" /\ req[s].token = store.rec.token
    BY <1>1, StoreStep, PutMatches
  <2>1. base[s] = store.rec /\ Sent(s) /\ PutOK(s) /\ base[s] \in Records
    BY <1>1, PutMatches, Memory DEF FenceInv, Local
  <2>2. CASE Reserves(s)
    BY <2>1, <2>2, MayLockShape DEF Reserves
  <2>3. CASE ~Reserves(s)
    BY <2>1, <2>3 DEF PutOK, Establishes, Keeps, Reencrypts, Destroys, Owns
  <2> QED
    BY <2>2, <2>3
<1>2. FenceInv /\ [Next]_vars => [Fenced]_vars
  BY <1>1, NextIsStep
<1> QED
  BY <1>2, FenceAlways, PTL DEF Spec, LockFencing

-----------------------------------------------------------------------------
(* The encrypted key is replaced only by a rotation that unlocked exactly   *)
(* the bundle it replaces, and dropped only by a delete.                    *)
THEOREM BundleHasLineage == Spec => BundleLineage
<1> DEFINE Lineage(s) ==
      /\ Applies(s)
      /\ IF HasBundle(store'.rec)
         THEN /\ req[s].op = "rotate"
              /\ prev[s].bundle = store.rec.bundle
              /\ req[s].pass = store.rec.bundle.pass
              /\ store'.rec.bundle =
                   [store.rec.bundle EXCEPT !.pass = req[s].newPass, !.salt = s]
         ELSE req[s].op = "delete"
<1> DEFINE Kept == HasBundle(store.rec) /\ store'.rec.bundle # store.rec.bundle
                     => \E s \in Sessions : Lineage(s)
<1>1. ASSUME FenceInv, NEW s \in Sessions, Step(s) PROVE Kept
  <2> SUFFICES ASSUME HasBundle(store.rec), store'.rec.bundle # store.rec.bundle, ApplyPut(s)
               PROVE  Lineage(s)
    BY <1>1, StoreStep
  <2>1. /\ base[s] = store.rec /\ Sent(s) /\ PutOK(s) /\ Applies(s)
        /\ store'.rec = call[s].rec /\ base[s] \in Records
    BY <1>1, PutMatches, Memory DEF FenceInv, Local
  <2>2. CASE Reserves(s)
    BY <2>1, <2>2, ReservationShape DEF Reserves
  <2>3. CASE Establishes(s)
    BY <2>1, <2>3 DEF Establishes
  <2>4. CASE Keeps(s)
    BY <2>1, <2>4, PublishedShape DEF Keeps
  <2>5. CASE Reencrypts(s)
    <3>1. [base[s].bundle EXCEPT !.pass = req[s].newPass, !.salt = s] \in Bundles
      BY <1>1, <2>5, Memory DEF Reencrypts, Bundles, HasBundle, FenceInv
    <3> DEFINE new == [base[s].bundle EXCEPT !.pass = req[s].newPass, !.salt = s]
    <3>2. WithBundle(base[s], new) \in Records
      BY <2>1, <3>1, RecordsTyped
    <3>3. /\ WithBundle(base[s], new).bundle = new
          /\ HasBundle(WithBundle(base[s], new))
      BY <2>1, <3>1, WithBundleShape
    <3>4. call[s].rec = Published(WithBundle(base[s], new))
      BY <2>5 DEF Reencrypts
    <3>5. call[s].rec.bundle = new /\ HasBundle(call[s].rec)
      BY <3>2, <3>3, <3>4, PublishedShape
    <3>6. /\ req[s].op = "rotate" /\ prev[s].bundle = base[s].bundle
          /\ req[s].pass = base[s].bundle.pass
      BY <2>5 DEF Reencrypts
    <3> QED
      BY <2>1, <3>5, <3>6
  <2>6. CASE Destroys(s)
    BY <2>1, <2>6, TombstoneShape DEF Destroys
  <2> QED
    BY <2>1, <2>2, <2>3, <2>4, <2>5, <2>6 DEF PutOK
<1>2. FenceInv /\ [Next]_vars => [Kept]_vars
  BY <1>1, NextIsStep
<1> QED
  BY <1>2, FenceAlways, PTL DEF Spec, BundleLineage

-----------------------------------------------------------------------------
(* Tombstones are final.                                                    *)
LEMMA TombstoneStays ==
  ASSUME FenceInv, NEW s \in Sessions, Step(s), store.rec = Tombstone
  PROVE  store'.rec = Tombstone
<1> SUFFICES ASSUME ApplyPut(s) PROVE FALSE
  BY StoreStep
<1>1. base[s] = Tombstone /\ Sent(s) /\ PutOK(s) /\ base[s] \in Records
  BY PutMatches, Memory DEF FenceInv, Local
<1>2. CASE Reserves(s)
  BY <1>1, <1>2, MayLockShape, TombstoneShape DEF Reserves
<1>3. CASE ~Reserves(s)
  BY <1>1, <1>3, TombstoneShape
     DEF PutOK, Establishes, Keeps, Reencrypts, Destroys, Owns
<1> QED
  BY <1>2, <1>3

LEMMA OnlyTombstoneDeleted ==
  ASSUME NEW rec \in Records, ValidRecord(rec), rec.status = "deleted"
  PROVE  rec = Tombstone
  BY DEF Records, ValidRecord, HasBundle, IsLocked, Tombstone

(* The steps that answer "destroyed".                                       *)
LEMMA DestroyedStep ==
  ASSUME TypeOK, NEW s \in Sessions, Step(s), outcome'[s].kind = "destroyed"
  PROVE  outcome[s].kind = "destroyed" \/ FindTombstone(s) \/ Buried(s)
<1> USE DEF Failure, Answer, TypeOK, Finish, Goto
<1>1. CASE Inspect(s)
  BY <1>1 DEF Inspect
<1>2. CASE LockRefused(s)
  BY <1>2 DEF LockRefused
<1>3. CASE RefuseHollow(s)
  BY <1>3 DEF RefuseHollow
<1>4. CASE RetainLock(s)
  BY <1>4 DEF RetainLock
<1>5. CASE WriteCache(s)
  BY <1>5 DEF WriteCache
<1>6. CASE PublishedLoad(s)
  BY <1>6 DEF PublishedLoad
<1>7. CASE Released(s)
  BY <1>7 DEF Released
<1>8. CASE WriteFails(s)
  BY <1>8 DEF WriteFails
<1>9. CASE WriteUncertain(s)
  BY <1>9 DEF WriteUncertain
<1>10. CASE Crash(s)
  BY <1>10 DEF Crash
<1> QED
  BY <1>1, <1>2, <1>3, <1>4, <1>5, <1>6, <1>7, <1>8, <1>9, <1>10
     DEF Step, Start, FindNoTombstone, Lock, Reserved, Generate, PublishGenerated, Adopt, Recover,
         Rotate, Restore, Bury, Load, LoadFails, PublishedResource, ApplyPut, RefusePut

LEMMA AppliedStep ==
  ASSUME TypeOK, NEW s \in Sessions, Step(s), call'[s].state = "applied"
  PROVE  ApplyPut(s) \/ call'[s] = call[s]
<1> USE DEF TypeOK, Send, Goto
<1>1. CASE Lock(s)
  BY <1>1, SendValue DEF Lock
<1>2. CASE Generate(s)
  BY <1>2, SendValue DEF Generate
<1>3. CASE PublishGenerated(s)
  BY <1>3, SendValue DEF PublishGenerated
<1>4. CASE Adopt(s)
  BY <1>4, SendValue DEF Adopt
<1>5. CASE Recover(s)
  BY <1>5, SendValue DEF Recover
<1>6. CASE Rotate(s)
  BY <1>6, SendValue DEF Rotate
<1>7. CASE Restore(s)
  BY <1>7, SendValue DEF Restore
<1>8. CASE Bury(s)
  BY <1>8, SendValue DEF Bury
<1>9. CASE Load(s)
  BY <1>9, SendValue DEF Load
<1>10. CASE LoadFails(s)
  BY <1>10, SendValue DEF LoadFails
<1>11. CASE RefusePut(s)
  BY <1>11 DEF RefusePut, Calls
<1> QED
  BY <1>1, <1>2, <1>3, <1>4, <1>5, <1>6, <1>7, <1>8, <1>9, <1>10, <1>11
     DEF Step, Start, Inspect, FindTombstone, FindNoTombstone, LockRefused, Reserved, RefuseHollow,
         RetainLock, PublishedResource, WriteCache, PublishedLoad, Released, Buried, WriteFails,
         WriteUncertain, Crash

LEMMA TombstoneStep ==
  ASSUME FenceInv, TombstoneInv, NEW s \in Sessions, Step(s)
  PROVE  TombstoneInv'
<1> SUFFICES ASSUME NEW t \in Sessions,
                    \/ call'[t].state = "applied" /\ call'[t].rec = Tombstone
                    \/ outcome'[t].kind = "destroyed"
             PROVE  store'.rec = Tombstone
  BY DEF TombstoneInv
<1>1. TypeOK /\ ValidRecord(store.rec) /\ store.rec \in Records /\ Local(s)
  BY Memory DEF FenceInv
<1>2. CASE t # s
  BY <1>1, <1>2, OthersUntouched, TombstoneStays DEF Untouched, TombstoneInv
<1>3. CASE t = s /\ call'[t].state = "applied" /\ call'[t].rec = Tombstone
  <2>1. CASE ApplyPut(s)
    BY <1>1, <1>3, <2>1, PutMatches DEF ApplyPut, TypeOK, Calls
  <2> QED
    BY <1>1, <1>3, <2>1, AppliedStep, TombstoneStays DEF TombstoneInv
<1>4. CASE t = s /\ outcome'[t].kind = "destroyed"
  <2>1. CASE FindTombstone(s)
    BY <1>1, <2>1, OnlyTombstoneDeleted DEF FindTombstone
  <2>2. CASE Buried(s)
    <3>1. call[s].state = "applied" /\ call[s].rec = Tombstone /\ store' = store
      BY <1>1, <2>2 DEF Buried, Acknowledged, Local, LocalInv
    <3> QED
      BY <3>1 DEF TombstoneInv
  <2>3. CASE outcome[s].kind = "destroyed"
    BY <2>3, TombstoneStays DEF TombstoneInv
  <2> QED
    BY <1>1, <1>4, <2>1, <2>2, <2>3, DestroyedStep
<1> QED
  BY <1>2, <1>3, <1>4

LEMMA TombstoneAlways == Spec => []TombstoneInv
<1>1. Init => TombstoneInv
  BY NoneSentAtFirst DEF Init, TombstoneInv
<1>2. TombstoneInv /\ FenceInv /\ [Next]_vars => TombstoneInv'
  BY NextIsStep, TombstoneStep DEF TombstoneInv, vars
<1> QED
  BY <1>1, <1>2, FenceAlways, PTL DEF Spec

(* Once a caller was told "destroyed", the tombstone stays.                 *)
THEOREM DestroyedStaysDestroyed == Spec => []DestroyedForGood
<1>1. TombstoneInv => DestroyedForGood
  BY DEF TombstoneInv, DestroyedForGood
<1> QED
  BY <1>1, TombstoneAlways, PTL

-----------------------------------------------------------------------------
(* Which keys a step can make visible: only those that were.                *)
LEMMA CacheStep ==
  ASSUME TypeOK, NEW s \in Sessions, Step(s), NEW h \in Hosts
  PROVE  cache'[h] \in {cache[h], None, KeyOf(base[s])}
<1>1. CASE FindTombstone(s) \/ WriteCache(s) \/ Load(s) \/ Buried(s)
  BY <1>1 DEF TypeOK, FindTombstone, WriteCache, Load, Buried
<1> QED
  BY <1>1 DEF Step, Start, Inspect, FindNoTombstone, Lock, LockRefused, Reserved, RefuseHollow,
     Generate, PublishGenerated, Adopt, Recover, Rotate, Restore, RetainLock, Bury, LoadFails,
     PublishedResource, PublishedLoad, Released, WriteFails, WriteUncertain, ApplyPut, RefusePut,
     Crash

LEMMA AnswerStep ==
  ASSUME TypeOK, NEW s \in Sessions, Step(s)
  PROVE  \/ outcome'[s].key \in {outcome[s].key, None, KeyOf(store.rec), KeyOf(base[s])}
         \/ call[s].state = "applied" /\ outcome'[s].key = KeyOf(call[s].rec)
<1> USE FinishValue DEF Failure, Answer, Destroyed
<1>1. CASE Inspect(s)
  BY <1>1 DEF Inspect
<1>2. CASE LockRefused(s)
  BY <1>2 DEF LockRefused
<1>3. CASE RefuseHollow(s)
  BY <1>3 DEF RefuseHollow
<1>4. CASE RetainLock(s)
  BY <1>4 DEF RetainLock
<1>5. CASE WriteCache(s)
  BY <1>5 DEF WriteCache
<1>6. CASE PublishedLoad(s)
  BY <1>6 DEF PublishedLoad, Acknowledged
<1>7. CASE Released(s)
  BY <1>7 DEF Released
<1>8. CASE WriteFails(s)
  BY <1>8 DEF WriteFails
<1>9. CASE WriteUncertain(s)
  BY <1>9 DEF WriteUncertain
<1>10. CASE Crash(s)
  BY <1>10 DEF Crash
<1>11. CASE FindTombstone(s)
  BY <1>11 DEF FindTombstone
<1>12. CASE Buried(s)
  BY <1>12 DEF Buried
<1> QED
  BY <1>1, <1>2, <1>3, <1>4, <1>5, <1>6, <1>7, <1>8, <1>9, <1>10, <1>11, <1>12
     DEF Step, Start, FindNoTombstone, Lock, Reserved, Generate, PublishGenerated, Adopt, Recover,
         Rotate, Restore, Bury, Load, LoadFails, PublishedResource, ApplyPut, RefusePut

LEMMA PrevStep ==
  ASSUME TypeOK, NEW s \in Sessions, Step(s)
  PROVE  prev'[s] \in {prev[s], store.rec}
<1>1. CASE Lock(s)
  BY <1>1 DEF Lock, TypeOK
<1> QED
  BY <1>1 DEF Step, Start, Inspect, FindTombstone, FindNoTombstone, LockRefused, Reserved,
     RefuseHollow, Generate, PublishGenerated, Adopt, Recover, Rotate, Restore, RetainLock, Bury,
     Load, LoadFails, PublishedResource, WriteCache, PublishedLoad, Released, Buried, WriteFails,
     WriteUncertain, ApplyPut, RefusePut, Crash

LEMMA NothingNewVisible ==
  ASSUME TypeOK, NEW s \in Sessions, Step(s), ~ApplyPut(s),
         NEW k \in Sessions, Visible(k)'
  PROVE  Visible(k)
<1>0. k # None /\ store' = store
  BY NoneAssumption, StoreStep
<1>1. CASE \E h \in Hosts : cache'[h] = k
  BY <1>0, <1>1, CacheStep DEF Visible, Remembers
<1>2. CASE \E t \in Sessions : t # s /\ Remembers(t, k)'
  BY <1>2, OthersUntouched DEF Untouched, Visible, Remembers
<1>3. CASE outcome'[s].key = k
  BY <1>0, <1>3, AnswerStep DEF Visible, Remembers
<1>4. CASE KeyOf(base'[s]) = k
  BY <1>4, BaseStep, AcknowledgedValue DEF Visible, Remembers
<1>5. CASE KeyOf(prev'[s]) = k
  BY <1>5, PrevStep DEF Visible, Remembers
<1>6. CASE call'[s].state = "applied" /\ KeyOf(call'[s].rec) = k
  BY <1>6, AppliedStep DEF Visible, Remembers
<1> QED
  BY <1>0, <1>1, <1>2, <1>3, <1>4, <1>5, <1>6 DEF Visible, Remembers

(* An applied put shows at most the key it stores.                          *)
LEMMA AppliedVisible ==
  ASSUME FenceInv, NEW s \in Sessions, ApplyPut(s), NEW k \in Sessions, Visible(k)'
  PROVE  Visible(k) \/ KeyOf(store'.rec) = k
<1>1. /\ store'.rec = call[s].rec /\ cache' = cache /\ base' = base /\ prev' = prev
      /\ outcome' = outcome /\ call'[s].rec = call[s].rec
      /\ \A t \in Sessions : t # s => call'[t] = call[t]
  BY DEF ApplyPut, FenceInv, TypeOK, Calls
<1> QED
  BY <1>1 DEF Visible, Remembers

LEMMA IdentityStep ==
  ASSUME FenceInv, IdentityInv, NEW s \in Sessions, Step(s)
  PROVE  IdentityInv'
<1>0. TypeOK
  BY DEF FenceInv
<1>1. CASE ~ApplyPut(s)
  BY <1>0, <1>1, NothingNewVisible, StoreStep DEF IdentityInv, Hollow
<1>2. CASE ApplyPut(s)
  <2>1. /\ base[s] = store.rec /\ Sent(s) /\ PutOK(s)
        /\ store'.rec = call[s].rec /\ base[s] \in Records
    BY <1>0, <1>2, PutMatches, Memory DEF FenceInv, Local
  <2>2. CASE Establishes(s)
    <3>1. Hollow(store.rec)
      BY <2>1, <2>2 DEF Establishes, Hollow, Owns, IsLocked
    <3>2. [key |-> s, pass |-> req[s].pass, salt |-> s] \in Bundles
      BY <1>0, <2>2, Memory DEF Establishes, Bundles
    <3>3. KeyOf(call[s].rec) = s /\ HasBundle(call[s].rec)
      BY <2>1, <2>2, <3>2, WithBundleShape DEF Establishes
    <3> QED
      BY <1>2, <2>1, <3>1, <3>3, AppliedVisible DEF IdentityInv, Hollow
  <2>3. CASE Destroys(s)
    <3>1. KeyOf(store'.rec) = None /\ store'.rec.status = "deleted"
      BY <2>1, <2>3, TombstoneShape DEF Destroys
    <3> QED
      BY <1>2, <3>1, AppliedVisible, NoneAssumption DEF IdentityInv, Hollow
  <2>4. CASE Reserves(s) \/ Keeps(s) \/ Reencrypts(s)
    <3>1. /\ KeyOf(store'.rec) = KeyOf(store.rec)
          /\ Hollow(store'.rec) => Hollow(store.rec)
      <4>1. CASE Reserves(s)
        BY <2>1, <4>1, ReservationShape, MayLockShape DEF Reserves, Hollow
      <4>2. CASE Keeps(s)
        BY <2>1, <4>2, PublishedShape DEF Keeps, Hollow
      <4>3. CASE Reencrypts(s)
        <5> DEFINE new == [base[s].bundle EXCEPT !.pass = req[s].newPass, !.salt = s]
        <5>1. new \in Bundles /\ new.key = base[s].bundle.key
          BY <1>0, <4>3, Memory DEF Reencrypts, Bundles, HasBundle
        <5>2. /\ WithBundle(base[s], new) \in Records
              /\ KeyOf(WithBundle(base[s], new)) = new.key
              /\ HasBundle(WithBundle(base[s], new))
          BY <2>1, <5>1, RecordsTyped, WithBundleShape
        <5>3. call[s].rec = Published(WithBundle(base[s], new)) /\ HasBundle(base[s])
          BY <4>3 DEF Reencrypts
        <5>4. KeyOf(call[s].rec) = new.key /\ HasBundle(call[s].rec)
          BY <5>2, <5>3, PublishedShape
        <5> QED
          BY <2>1, <5>1, <5>3, <5>4 DEF KeyOf, Hollow
      <4> QED
        BY <2>4, <4>1, <4>2, <4>3
    <3>2. \A k \in Sessions : Visible(k)' => Visible(k)
      BY <1>2, <3>1, AppliedVisible DEF Visible
    <3> QED
      BY <3>1, <3>2 DEF IdentityInv
  <2> QED
    BY <2>1, <2>2, <2>3, <2>4 DEF PutOK
<1> QED
  BY <1>1, <1>2

LEMMA IdentityInit == Init => IdentityInv
<1> SUFFICES ASSUME Init, NEW k \in Sessions PROVE ~Visible(k)
  BY DEF IdentityInv
<1>1. k # None
  BY NoneAssumption
<1> QED
  BY <1>1, AbsentShape, NoneSentAtFirst DEF Init, Visible, Remembers, NoOutcome

LEMMA IdentityAlways == Spec => []IdentityInv
<1>1. IdentityInv /\ UNCHANGED vars => IdentityInv'
  BY DEF IdentityInv, Visible, Remembers, vars
<1>2. IdentityInv /\ FenceInv /\ [Next]_vars => IdentityInv'
  BY <1>1, NextIsStep, IdentityStep
<1> QED
  BY <1>2, IdentityInit, FenceAlways, PTL DEF Spec

(* All keys stored, cached or answered are one key.                         *)
THEOREM OnlyOneIdentity == Spec => []OneIdentity
<1>1. FenceInv /\ IdentityInv => OneIdentity
  <2> SUFFICES ASSUME FenceInv, IdentityInv, NEW k \in KeysSeen, NEW l \in KeysSeen
               PROVE  k = l
    BY DEF OneIdentity
  <2>1. TypeOK
    BY DEF FenceInv
  <2>2. KeyOf(store.rec) \in Sessions \cup {None}
    BY <2>1, RecordsTyped DEF TypeOK
  <2>3. KeysSeen \subseteq Sessions
    BY <2>1, <2>2 DEF KeysSeen, TypeOK, Outcomes
  <2>4. Visible(k) /\ Visible(l)
    BY DEF KeysSeen, Visible, Remembers
  <2> QED
    BY <2>3, <2>4 DEF IdentityInv
<1> QED
  BY <1>1, FenceAlways, IdentityAlways, PTL

-----------------------------------------------------------------------------
(* Refinement.  A step answers at most its own session, once.               *)
Answers(s, o) == /\ outcome[s] = NoOutcome
                 /\ outcome' = [outcome EXCEPT ![s] = o]

LEMMA FinishAnswers ==
  ASSUME FenceInv, NEW s \in Sessions, NEW o, Finish(s, o), pc[s] # "done"
  PROVE  Answers(s, o)
  BY DEF FenceInv, Local, LocalInv, Finish, Answers

LEMMA AnswerCases ==
  ASSUME FenceInv, TombstoneInv, NEW s \in Sessions, Step(s)
  PROVE  \/ outcome' = outcome
         \/ store' = store /\ Answers(s, Failure)
         \/ store' = store /\ Answers(s, Destroyed) /\ store.rec = Tombstone
         \/ /\ store' = store
            /\ \E k \in Sessions : Visible(k) /\ Answers(s, Answer(k))
<1>0. TypeOK /\ Local(s) /\ ValidRecord(store.rec) /\ store.rec \in Records
  BY Memory DEF FenceInv
<1>1. ASSUME LockRefused(s) \/ RefuseHollow(s) \/ RetainLock(s) \/ Released(s)
             \/ WriteFails(s) \/ WriteUncertain(s) \/ Crash(s)
      PROVE  store' = store /\ Answers(s, Failure)
  BY <1>1, FinishAnswers
     DEF LockRefused, RefuseHollow, RetainLock, Released, WriteFails, WriteUncertain, Crash,
         AttemptFails, Waiting
<1>2. CASE Inspect(s)
  <2>1. CASE store.rec.status = "ready" /\ ExpectedMatches(store.rec, req[s])
    <3>1. KeyOf(store.rec) \in Sessions
      BY <1>0, <2>1 DEF ValidRecord, KeyOf, HasBundle, Records, Bundles
    <3> QED
      BY <1>2, <2>1, <3>1, FinishAnswers DEF Inspect, Visible
  <2> QED
    BY <1>2, <2>1, FinishAnswers DEF Inspect
<1>3. CASE FindTombstone(s)
  BY <1>0, <1>3, FinishAnswers, OnlyTombstoneDeleted DEF FindTombstone
<1>4. CASE Buried(s)
  <2>1. call[s].state = "applied" /\ call[s].rec = Tombstone
    BY <1>0, <1>4 DEF Buried, Acknowledged, Local, LocalInv
  <2> QED
    BY <1>4, <2>1, FinishAnswers DEF Buried, TombstoneInv
<1>5. CASE WriteCache(s)
  <2>1. HasBundle(base[s]) /\ base[s] \in Records
    BY <1>0, <1>5, Memory DEF WriteCache, Local, LocalInv
  <2>2. KeyOf(base[s]) \in Sessions /\ Visible(KeyOf(base[s]))
    BY <2>1 DEF KeyOf, HasBundle, Records, Bundles, Visible, Remembers
  <2> QED
    BY <1>5, <2>2, FinishAnswers DEF WriteCache
<1>6. CASE PublishedLoad(s)
  <2>1. HasBundle(call[s].rec) /\ call[s].rec \in Records /\ call[s].state = "applied"
    BY <1>0, <1>6, Memory DEF PublishedLoad, Acknowledged, Local, LocalInv
  <2>2. KeyOf(call[s].rec) \in Sessions /\ Visible(KeyOf(call[s].rec))
    BY <2>1 DEF KeyOf, HasBundle, Records, Bundles, Visible, Remembers
  <2> QED
    BY <1>6, <2>2, FinishAnswers DEF PublishedLoad
<1>7. CASE ApplyPut(s)
  BY <1>7 DEF ApplyPut
<1> QED
  BY <1>1, <1>2, <1>3, <1>4, <1>5, <1>6, <1>7
     DEF Step, Start, FindNoTombstone, Lock, Reserved, Generate, PublishGenerated, Adopt, Recover,
         Rotate, Restore, Bury, Load, LoadFails, PublishedResource, RefusePut

LEMMA SentStep ==
  ASSUME FenceInv, NEW s \in Sessions, Step(s), Sent(s)'
  PROVE  \/ outcome'[s] = outcome[s] /\ Sent(s)
         \/ outcome'[s] = outcome[s] /\ outcome[s] = NoOutcome
         \/ outcome'[s] = Failure
<1>0. TypeOK /\ Local(s)
  BY DEF FenceInv
<1>1. CASE LockRefused(s) \/ RefuseHollow(s) \/ RetainLock(s) \/ Released(s)
             \/ WriteFails(s) \/ WriteUncertain(s) \/ Crash(s)
  BY <1>0, <1>1, FinishValue
     DEF LockRefused, RefuseHollow, RetainLock, Released, WriteFails, WriteUncertain, Crash
<1>2. CASE Inspect(s) \/ FindTombstone(s)
  BY <1>0, <1>2, NoneSentAtFirst DEF Inspect, FindTombstone, Local, LocalInv, Sent
<1>3. CASE WriteCache(s)
  BY <1>0, <1>3 DEF WriteCache, Local, LocalInv, Sent
<1>4. CASE PublishedLoad(s) \/ Buried(s)
  BY <1>0, <1>4 DEF PublishedLoad, Buried, Acknowledged, Sent
<1>5. CASE ApplyPut(s) \/ RefusePut(s)
  BY <1>0, <1>5 DEF ApplyPut, RefusePut, Sent
<1>6. CASE /\ outcome' = outcome
           /\ pc[s] # "done"
  BY <1>0, <1>6 DEF Local, LocalInv
<1> QED
  BY <1>1, <1>2, <1>3, <1>4, <1>5, <1>6
     DEF Step, Start, FindNoTombstone, Lock, Reserved, Generate, PublishGenerated, Adopt, Recover,
         Rotate, Restore, Bury, Load, LoadFails, PublishedResource, AttemptFails

LEMMA PendingStep ==
  ASSUME FenceInv, PendingInv, NEW s \in Sessions, Step(s)
  PROVE  PendingInv'
<1> SUFFICES ASSUME NEW t \in Sessions, Sent(t)'
             PROVE  outcome'[t].kind \in {"none", "failed"}
  BY DEF PendingInv
<1>1. CASE t # s
  BY <1>1, OthersUntouched DEF Untouched, PendingInv, Sent, FenceInv
<1>2. CASE t = s
  BY <1>2, SentStep, NoneSentAtFirst DEF PendingInv, Failure
<1> QED
  BY <1>1, <1>2

LEMMA PendingAlways == Spec => []PendingInv
<1>1. Init => PendingInv
  BY NoneSentAtFirst DEF Init, PendingInv, Sent
<1>2. PendingInv /\ FenceInv /\ [Next]_vars => PendingInv'
  BY NextIsStep, PendingStep DEF PendingInv, Sent, vars
<1> QED
  BY <1>1, <1>2, FenceAlways, PTL DEF Spec

(* The inductive invariant.                                                 *)
THEOREM Inductive == Spec => []IInv
  BY FenceAlways, TombstoneAlways, IdentityAlways, PendingAlways, PTL DEF IInv

-----------------------------------------------------------------------------
(* Without faults, on a store that compares content, a session waits for    *)
(* its put, and what it puts back is the bundle it found.                   *)
Quiet(s) ==
    /\ Sent(s) => pc[s] \in Waiting
    /\ pc[s] \in {"restore", "release"} /\ Sent(s) => call[s].rec.bundle = base[s].bundle

(* The encryption in force is the work of s.                                *)
Salted(s) == HasBundle(store.rec) /\ store.rec.bundle.salt = s

(* The rotation of s was stored and goes on to its answer.                  *)
Rotated(s) ==
    \/ pc[s] = "publish" /\ call[s].state = "applied"
    \/ pc[s] = "cache"
    \/ pc[s] = "done" /\ outcome[s].kind = "ok"

SaltInv ==
    \A s \in Sessions :
        /\ Quiet(s)
        /\ Salted(s) => pc[s] # "idle" /\ (req[s].op = "rotate" => Rotated(s))

LEMMA QuietStep ==
  ASSUME FenceInv, ~Faults, NEW s \in Sessions, Quiet(s), Step(s)
  PROVE  Quiet(s)'
<1>0. TypeOK /\ Local(s) /\ base[s] \in Records /\ prev[s] \in Records
  BY Memory DEF FenceInv
<1>1. CASE Start(s) \/ Inspect(s) \/ FindTombstone(s) \/ FindNoTombstone(s) \/ LockRefused(s)
  <2>1. call'[s] = NoCall
    BY <1>0, <1>1 DEF Start, Inspect, FindTombstone, FindNoTombstone, LockRefused, Local, LocalInv
  <2> QED
    BY <2>1 DEF Quiet, Sent, NoCall
<1>2. CASE Reserved(s) \/ RefuseHollow(s) \/ RetainLock(s) \/ PublishedResource(s) \/ WriteCache(s)
           \/ PublishedLoad(s) \/ Released(s) \/ Buried(s) \/ WriteFails(s)
  <2>1. call' = call /\ call[s].state # "sent"
    BY <1>0, <1>2
    DEF Reserved, RefuseHollow, RetainLock, AttemptFails, PublishedResource, WriteCache, PublishedLoad,
        Released, Buried, WriteFails, Acknowledged, Local, LocalInv
  <2> QED
    BY <2>1 DEF Quiet, Sent
<1>3. CASE Lock(s)
  BY <1>0, <1>3, SendValue DEF Lock, Quiet, Sent, Waiting
<1>4. CASE Generate(s) \/ PublishGenerated(s) \/ Adopt(s) \/ Recover(s) \/ Rotate(s) \/ Bury(s) \/ Load(s)
  <2>1. pc'[s] \in {"bundle", "publish", "bury"}
    BY <1>0, <1>4, SendValue DEF Generate, PublishGenerated, Adopt, Recover, Rotate, Bury, Load
  <2> QED
    BY <2>1 DEF Quiet, Waiting
<1>5. CASE Restore(s)
  <2>1. pc'[s] = "restore" /\ call'[s].rec = prev[s] /\ base' = base
    BY <1>0, <1>5, SendValue DEF Restore
  <2>2. base[s] = Reservation(prev[s], s)
    BY <1>0, <1>5 DEF Restore, AttemptFails, Local, LocalInv
  <2> QED
    BY <1>0, <2>1, <2>2, ReservationShape DEF Quiet, Waiting
<1>6. CASE LoadFails(s)
  <2>1. pc'[s] = "release" /\ call'[s].rec = Published(base[s]) /\ base' = base
    BY <1>0, <1>6, SendValue DEF LoadFails
  <2> QED
    BY <1>0, <2>1, PublishedShape DEF Quiet, Waiting
<1>7. CASE ApplyPut(s) \/ RefusePut(s)
  <2>1. call'[s].state # "sent"
    BY <1>0, <1>7 DEF ApplyPut, RefusePut, TypeOK, Calls
  <2> QED
    BY <2>1 DEF Quiet, Sent
<1>8. ~WriteUncertain(s) /\ ~Crash(s)
  BY DEF WriteUncertain, Crash
<1> QED
  BY <1>1, <1>2, <1>3, <1>4, <1>5, <1>6, <1>7, <1>8 DEF Step

(* What s did not write before, it writes by publishing a rotation.         *)
LEMMA SaltedPut ==
  ASSUME FenceInv, NEW s \in Sessions, Quiet(s), ApplyPut(s), req[s].op = "rotate", ~Salted(s), Salted(s)'
  PROVE  pc[s] = "publish"
<1>0. /\ base[s] = store.rec /\ Sent(s) /\ store'.rec = call[s].rec
      /\ PutOK(s) /\ LocalInv(s) /\ base[s] \in Records /\ prev[s] \in Records
  BY PutMatches, Memory DEF FenceInv, Local
<1>1. call[s].rec.bundle # base[s].bundle /\ HasBundle(call[s].rec)
  BY <1>0 DEF Salted, HasBundle
<1>2. Reencrypts(s)
  BY <1>0, <1>1, ReservationShape, PublishedShape, TombstoneShape
  DEF PutOK, Reserves, Establishes, Keeps, Destroys
<1>3. ~IsLocked(call[s].rec)
  BY <1>2 DEF Reencrypts, Published, IsLocked
<1>4. pc[s] \notin {"reserve", "bundle"}
  BY <1>0, <1>3, ReservationShape DEF LocalInv, Owns
<1>5. pc[s] \notin {"restore", "release", "bury"}
  BY <1>0, <1>1, TombstoneShape DEF Quiet, LocalInv
<1> QED
  BY <1>0, <1>4, <1>5 DEF Quiet, Waiting

(* A stored rotation is answered.                                           *)
LEMMA RotatedStep ==
  ASSUME FenceInv, ~Faults, ~Generations, NEW s \in Sessions, Step(s), Rotated(s), req[s].op = "rotate"
  PROVE  Rotated(s)' /\ req'[s] = req[s]
<1>0. TypeOK /\ Local(s)
  BY DEF FenceInv
<1>1. pc[s] \in {"publish", "cache", "done"}
  BY DEF Rotated
<1>2. CASE PublishedResource(s)
  BY <1>0, <1>2, GotoValue DEF PublishedResource, Rotated
<1>3. CASE WriteCache(s)
  BY <1>0, <1>3, FinishValue DEF WriteCache, Rotated, Answer
<1>4. CASE ApplyPut(s) \/ RefusePut(s)
  <2>1. call[s].state = "sent" /\ UNCHANGED <<pc, req, outcome>>
    BY <1>4 DEF ApplyPut, RefusePut
  <2> QED
    BY <2>1 DEF Rotated
<1>5. ~WriteFails(s)
  BY DEF WriteFails, Waiting, ReadBackAgrees, Rotated
<1> QED
  BY <1>1, <1>2, <1>3, <1>4, <1>5
  DEF Step, Start, Inspect, FindTombstone, FindNoTombstone, Lock, LockRefused, Reserved, RefuseHollow,
      Generate, PublishGenerated, Adopt, Recover, Rotate, Restore, RetainLock, AttemptFails, Bury, Load,
      LoadFails, PublishedLoad, Released, Buried, WriteUncertain, Crash

LEMMA SaltStep ==
  ASSUME FenceInv, ~Faults, ~Generations, SaltInv, NEW s \in Sessions, Step(s)
  PROVE  SaltInv'
<1>0. TypeOK /\ \A t \in Sessions : Local(t)
  BY DEF FenceInv
<1> SUFFICES ASSUME NEW t \in Sessions
             PROVE  /\ Quiet(t)'
                    /\ Salted(t)' => pc'[t] # "idle" /\ (req'[t].op = "rotate" => Rotated(t)')
  BY DEF SaltInv
<1>1. /\ Quiet(t)
      /\ Salted(t) => pc[t] # "idle" /\ (req[t].op = "rotate" => Rotated(t))
  BY DEF SaltInv
<1>2. CASE t # s
  <2>1. Untouched(t)
    BY <1>0, <1>2, OthersUntouched
  <2>2. Salted(t)' => Salted(t)
    <3>1. CASE ApplyPut(s)
      <4>1. base[s] = store.rec /\ store'.rec = call[s].rec /\ PutOK(s) /\ Sent(s) /\ base[s] \in Records
        BY <1>0, <3>1, PutMatches, Memory DEF Local
      <4>2. CASE Reserves(s)
        BY <4>1, <4>2, ReservationShape DEF Reserves, Salted
      <4>3. CASE Establishes(s)
        BY <1>2, <4>1, <4>3 DEF Establishes, WithBundle, Salted, HasBundle, Records
      <4>4. CASE Keeps(s)
        BY <4>1, <4>4, PublishedShape DEF Keeps, Salted
      <4>5. CASE Reencrypts(s)
        <5>1. call[s].rec.bundle = [base[s].bundle EXCEPT !.pass = req[s].newPass, !.salt = s]
          BY <4>1, <4>5 DEF Reencrypts, Published, WithBundle, Records
        <5>2. base[s].bundle \in Bundles
          BY <4>1, <4>5 DEF Reencrypts, HasBundle, Records
        <5> QED
          BY <1>2, <4>1, <5>1, <5>2 DEF Salted, Bundles
      <4>6. CASE Destroys(s)
        BY <4>1, <4>6, TombstoneShape DEF Destroys, Salted
      <4> QED
        BY <4>1, <4>2, <4>3, <4>4, <4>5, <4>6 DEF PutOK
    <3>2. CASE store' = store
      BY <3>2 DEF Salted
    <3> QED
      BY <3>1, <3>2, StoreStep
  <2> QED
    BY <1>1, <2>1, <2>2 DEF Untouched, Quiet, Sent, Rotated
<1>3. CASE t = s
  <2>1. Quiet(s)'
    BY <1>1, <1>3, QuietStep
  <2>2. pc'[s] # "idle"
    <3>1. pc[s] = "idle" => Start(s) \/ ApplyPut(s) \/ RefusePut(s)
      BY DEF Step, Inspect, FindTombstone, FindNoTombstone, Lock, LockRefused, Reserved, RefuseHollow,
             Generate, PublishGenerated, Adopt, Recover, Rotate, Restore, RetainLock, AttemptFails, Bury,
             Load, LoadFails, PublishedResource, WriteCache, PublishedLoad, Released, Buried, WriteFails,
             WriteUncertain, Crash, Waiting
    <3>2. ~(pc[s] = "idle" /\ (ApplyPut(s) \/ RefusePut(s)))
      BY <1>0 DEF Local, LocalInv, ApplyPut, RefusePut, NoCall
    <3>3. CASE Start(s)
      BY <1>0, <3>3, GotoValue DEF Start
    <3>4. CASE ~Start(s)
      BY <1>0, <3>1, <3>2, <3>4, FinishValue, GotoValue, SendValue
      DEF Step, Inspect, FindTombstone, FindNoTombstone, Lock, LockRefused, Reserved, RefuseHollow,
          Generate, PublishGenerated, Adopt, Recover, Rotate, Restore, RetainLock, Bury,
          Load, LoadFails, PublishedResource, WriteCache, PublishedLoad, Released, Buried, WriteFails,
          WriteUncertain, Crash, ApplyPut, RefusePut
    <3> QED
      BY <3>3, <3>4
  <2>3. ASSUME Salted(s)', req'[s].op = "rotate" PROVE Rotated(s)'
    <3>1. CASE Start(s)
      BY <1>1, <1>3, <2>3, <3>1 DEF Start, Salted
    <3>2. CASE ~Start(s) /\ Salted(s)
      <4>1. req' = req
        BY <3>2
        DEF Step, Inspect, FindTombstone, FindNoTombstone, Lock, LockRefused, Reserved, RefuseHollow,
            Generate, PublishGenerated, Adopt, Recover, Rotate, Restore, RetainLock, Bury,
            Load, LoadFails, PublishedResource, WriteCache, PublishedLoad, Released, Buried, WriteFails,
            WriteUncertain, Crash, ApplyPut, RefusePut
      <4> QED
        BY <1>1, <1>3, <2>3, <3>2, <4>1, RotatedStep
    <3>3. CASE ~Salted(s)
      <4>1. ApplyPut(s)
        BY <2>3, <3>3, StoreStep DEF Salted
      <4>2. req' = req /\ pc' = pc
        BY <4>1 DEF ApplyPut
      <4>3. pc[s] = "publish"
        BY <1>1, <1>3, <2>3, <3>3, <4>1, <4>2, SaltedPut
      <4>4. call'[s].state = "applied"
        BY <1>0, <4>1 DEF ApplyPut, TypeOK, Calls
      <4> QED
        BY <4>2, <4>3, <4>4 DEF Rotated
    <3> QED
      BY <3>1, <3>2, <3>3
  <2> QED
    BY <1>3, <2>1, <2>2, <2>3
<1> QED
  BY <1>2, <1>3

(* resource(): where no command fails and the store compares content, a     *)
(* rotation that reports failure has not changed the encryption in force,   *)
(* however many sessions, recoveries included, run meanwhile.               *)
THEOREM FailedRotationsUndone ==
  ASSUME ~Faults, ~Generations
  PROVE  Spec => []FailedRotationChangesNothing
<1>1. Init => SaltInv
  <2> SUFFICES ASSUME Init, NEW s \in Sessions PROVE ~Sent(s) /\ ~Salted(s)
    BY DEF SaltInv, Quiet
  <2>1. store.rec.bundle = None
    BY DEF Init, Absent
  <2>2. call[s].state = "none"
    BY DEF Init, NoCall
  <2> QED
    BY <2>1, <2>2 DEF Sent, Salted, HasBundle
<1>2. ASSUME FenceInv, SaltInv, [Next]_vars PROVE SaltInv'
  <2>1. CASE UNCHANGED vars
    BY <1>2, <2>1 DEF vars, SaltInv, Quiet, Salted, Rotated, Sent
  <2> QED
    BY <1>2, <2>1, NextIsStep, SaltStep
<1>3. FenceInv /\ SaltInv => FailedRotationChangesNothing
  BY DEF FenceInv, SaltInv, Salted, Rotated, Local, LocalInv, NoOutcome, FailedRotationChangesNothing
<1>4. FenceInv /\ SaltInv /\ [Next]_vars => SaltInv'
  BY <1>2
<1> QED
  BY <1>1, <1>3, <1>4, FenceAlways, PTL DEF Spec

-----------------------------------------------------------------------------
(* Every put that is applied is a step of SshIdentity, or invisible.        *)
LEMMA PutRefines ==
  ASSUME IInv, NEW s \in Sessions, ApplyPut(s)
  PROVE  Identity!Next \/ UNCHANGED Identity!vars
<1>0. FenceInv /\ TypeOK
  BY DEF IInv, FenceInv
<1>1. /\ base[s] = store.rec /\ Sent(s) /\ PutOK(s)
      /\ store'.rec = call[s].rec /\ base[s] \in Records /\ outcome' = outcome
  BY <1>0, PutMatches, Memory DEF FenceInv, Local, ApplyPut
<1>2. ASSUME Reserves(s) \/ Keeps(s)
      PROVE  UNCHANGED Identity!vars
  <2>1. CASE Reserves(s)
    BY <1>1, <2>1, ReservationShape, MayLockShape DEF Reserves, Phase, Identity!vars
  <2>2. CASE Keeps(s)
    BY <1>1, <2>2, PublishedShape DEF Keeps, Phase, Identity!vars
  <2> QED
    BY <1>2, <2>1, <2>2
<1>3. CASE Establishes(s)
  <2> DEFINE new == [key |-> s, pass |-> req[s].pass, salt |-> s]
  <2>1. new \in Bundles /\ new \in Identity!Bundles
    BY <1>0, <1>3, Memory DEF Establishes, Bundles, Identity!Bundles
  <2>2. call[s].rec.bundle = new /\ HasBundle(call[s].rec)
    BY <1>1, <1>3, <2>1, WithBundleShape DEF Establishes
  <2>3. ~HasBundle(store.rec) /\ store.rec.status # "deleted"
    BY <1>1, <1>3 DEF Establishes, Owns, IsLocked
  <2> QED
    BY <1>1, <2>1, <2>2, <2>3 DEF Identity!Next, Identity!Establish, Phase
<1>4. CASE Reencrypts(s)
  <2> DEFINE new == [base[s].bundle EXCEPT !.pass = req[s].newPass, !.salt = s]
  <2>1. /\ new \in Bundles /\ new \in Identity!Bundles
        /\ new.key = base[s].bundle.key /\ new.salt = s
    BY <1>0, <1>4, Memory DEF Reencrypts, Bundles, HasBundle, Identity!Bundles
  <2>2. /\ WithBundle(base[s], new) \in Records
        /\ WithBundle(base[s], new).bundle = new
        /\ HasBundle(WithBundle(base[s], new))
    BY <1>1, <2>1, RecordsTyped, WithBundleShape
  <2>3. call[s].rec = Published(WithBundle(base[s], new)) /\ HasBundle(store.rec)
    BY <1>1, <1>4 DEF Reencrypts
  <2>4. call[s].rec.bundle = new /\ HasBundle(call[s].rec)
    BY <2>2, <2>3, PublishedShape
  <2>5. outcome[s].kind \in {"none", "failed"}
    BY <1>1 DEF IInv, PendingInv
  <2>6. Identity!Rotate(s)
    BY <1>1, <2>1, <2>3, <2>4, <2>5 DEF Identity!Rotate, Phase
  <2> QED
    BY <2>6 DEF Identity!Next
<1>5. CASE Destroys(s)
  <2>1. HasBundle(store.rec) /\ call[s].rec = Tombstone
    BY <1>1, <1>5 DEF Destroys
  <2>2. Tombstone.bundle = None
    BY DEF Tombstone
  <2> QED
    BY <1>1, <2>1, <2>2, TombstoneShape DEF Identity!Next, Identity!Destroy, Phase
<1> QED
  BY <1>1, <1>2, <1>3, <1>4, <1>5 DEF PutOK

(* Every answer is one SshIdentity allows.                                  *)
LEMMA AnswerRefines ==
  ASSUME IInv, NEW s \in Sessions, Step(s), store' = store
  PROVE  Identity!Next \/ UNCHANGED Identity!vars
<1>0. FenceInv /\ TombstoneInv /\ IdentityInv /\ TypeOK
  BY DEF IInv, FenceInv
<1>1. CASE outcome' = outcome
  BY <1>1 DEF Identity!vars
<1>2. CASE Answers(s, Failure)
  <2>1. Identity!TellFailed(s)
    BY <1>2 DEF Answers, Failure, NoOutcome, Identity!TellFailed, Identity!Tell
  <2> QED
    BY <2>1 DEF Identity!Next
<1>3. CASE Answers(s, Destroyed) /\ store.rec = Tombstone
  <2>1. Identity!TellDestroyed(s)
    BY <1>3, TombstoneShape
       DEF Answers, Destroyed, NoOutcome, Phase, Identity!TellDestroyed, Identity!Tell
  <2> QED
    BY <2>1 DEF Identity!Next
<1>4. ASSUME NEW k \in Sessions, Visible(k), Answers(s, Answer(k))
      PROVE  Identity!TellIdentity(s)
  <2>1. Phase(store.rec) # "none"
    BY <1>0, <1>4 DEF IdentityInv, Hollow, Phase
  <2>2. store.rec.bundle # None => k = store.rec.bundle.key
    <3> SUFFICES ASSUME HasBundle(store.rec) PROVE k = store.rec.bundle.key
      BY DEF HasBundle
    <3>1. KeyOf(store.rec) = store.rec.bundle.key /\ KeyOf(store.rec) \in Sessions
      BY <1>0 DEF KeyOf, HasBundle, TypeOK, Records, Bundles
    <3> QED
      BY <1>0, <1>4, <3>1 DEF IdentityInv, Visible
  <2>3. \A d \in Sessions : outcome[d].key \in {k, None}
    BY <1>0, <1>4 DEF IdentityInv, Visible, Remembers, TypeOK, Outcomes
  <2>4. outcome[s].kind = "none" /\ outcome' = [outcome EXCEPT ![s] = [kind |-> "ok", key |-> k]]
    BY <1>4 DEF Answers, Answer, NoOutcome
  <2> QED
    BY <2>1, <2>2, <2>3, <2>4 DEF Identity!TellIdentity, Identity!Tell
<1> QED
  BY <1>0, <1>1, <1>2, <1>3, <1>4, AnswerCases DEF Identity!Next

(* The authority implements SshIdentity.                                    *)
THEOREM ImplementsIdentity == Spec => IdentitySpec
<1>1. Init => Identity!Init
  BY AbsentShape DEF Init, Identity!Init, Phase, NoOutcome, Absent
<1>2. IInv /\ [Next]_vars => [Identity!Next]_(Identity!vars)
  <2>1. ASSUME UNCHANGED vars PROVE UNCHANGED Identity!vars
    BY <2>1 DEF vars, Identity!vars
  <2>2. ASSUME IInv, NEW s \in Sessions, Step(s)
        PROVE  Identity!Next \/ UNCHANGED Identity!vars
    BY <2>2, StoreStep, PutRefines, AnswerRefines
  <2> QED
    BY <2>1, <2>2, NextIsStep
<1> QED
  BY <1>1, <1>2, Inductive, PTL DEF Spec, IdentitySpec, Identity!Spec

=============================================================================
