------------------------ MODULE LocalAuthorityProofs -----------------------
(***************************************************************************)
(* Proofs about LocalAuthority, for every set of sessions, passphrases and *)
(* hosts, with and without faults and disappearing files: the flock keeps  *)
(* the holder's record as it left it, the .lock file admits one creator,   *)
(* and the directory implements the abstract identity of SshIdentity.      *)
(***************************************************************************)
EXTENDS LocalAuthority, TLAPS

(* Where a session holds the flock.                                         *)
Exclusive == Holding \cup {"precheck", "check", "published", "delivered", "released", "buried"}

(* Where it has just written, or locked, the record it remembers.           *)
Writing == Holding \cup {"published", "delivered", "buried"}

FlockHeld == \A s \in Sessions : pc[s] \in Exclusive => holder = s

(* What a session remembers, by where it is.                                *)
InCourse ==
    \A s \in Sessions :
        /\ pc[s] # "done" => outcome[s] = NoOutcome
        /\ ValidRecord(base[s]) /\ ValidRecord(prev[s])
        /\ pc[s] \in Holding => IsLocked(base[s])
        /\ pc[s] = "held" => base[s] = Reservation(prev[s], s)
        /\ pc[s] \in {"generated", "loaded", "published", "delivered"} => HasBundle(base[s])
        /\ pc[s] = "published" => base[s].status = "ready"
        /\ pc[s] = "buried" => base[s] = Tombstone

(* While it writes nobody else does; only the directory may be lost.        *)
RecordInHand ==
    /\ ValidRecord(authority)
    /\ authority # Absent => everStored
    /\ \A s \in Sessions : pc[s] \in Writing => authority \in {base[s], Absent} /\ everStored

(* At most one session has made the .lock file, and it has not tried yet    *)
(* while nothing was ever stored.                                           *)
FirstToLock ==
    /\ ~lockFile => ~everStored
    /\ \A s \in Sessions :
           /\ pc[s] \in Exclusive \cup {"preflock", "flock"} => lockFile
           /\ first[s] => lockFile
           /\ \A t \in Sessions : first[s] /\ first[t] => s = t
           /\ first[s] /\ pc[s] \in {"flock", "check"} => ~everStored
           /\ pc[s] = "held" /\ ~HasBundle(prev[s]) /\ req[s].op = "create" => first[s]

(* Every key that is stored, remembered or answered is named by the session *)
(* that made the .lock file.                                                *)
Visible(k) ==
    \/ KeyOf(authority) = k
    \/ \E s \in Sessions : KeyOf(base[s]) = k \/ KeyOf(prev[s]) = k \/ outcome[s].key = k

Early == {"idle", "preopen", "preflock", "precheck", "open"}

OneIdentity == \A k \in Sessions : Visible(k) => first[k] /\ pc[k] \notin Early

(* A hollow reservation is the first thing ever stored: no key was made.    *)
NothingYet ==
    ~everStored \/ (IsLocked(authority) /\ ~HasBundle(authority))
        => \A k \in Sessions : ~Visible(k)

(* Once a caller was told the resource is destroyed, nothing is stored in   *)
(* its place.                                                               *)
DestroyedForGood ==
    (\E s \in Sessions : outcome[s] = Destroyed) =>
        /\ everStored /\ authority \in {Tombstone, Absent}
        /\ authority = Tombstone => cache = None

Inv ==
    /\ TypeOK
    /\ FlockHeld
    /\ InCourse
    /\ RecordInHand
    /\ FirstToLock
    /\ OneIdentity
    /\ NothingYet
    /\ DestroyedForGood

-----------------------------------------------------------------------------
(* The records and answers that steps write.                                *)

LEMMA Shapes ==
  ASSUME NEW rec \in Records, NEW s \in Sessions, NEW b \in Bundles
  PROVE  /\ Reservation(rec, s) \in Records
         /\ ValidRecord(rec) => ValidRecord(Reservation(rec, s))
         /\ Reservation(rec, s).status = "locked" /\ Reservation(rec, s).bundle = rec.bundle
         /\ Published(rec) \in Records
         /\ HasBundle(rec) => ValidRecord(Published(rec))
         /\ Published(rec).status = "ready" /\ Published(rec).bundle = rec.bundle
         /\ WithBundle(rec, b) \in Records /\ WithBundle(rec, b).bundle = b
         /\ WithBundle(rec, b).status = rec.status
         /\ IsLocked(rec) /\ ValidRecord(rec) => ValidRecord(WithBundle(rec, b))
         /\ b # None
         /\ KeyOf(rec) \in Sessions \cup {None}
         /\ HasBundle(rec) => rec.bundle \in Bundles /\ KeyOf(rec) \in Sessions
  BY NoneAssumption
  DEF Records, Reservation, Published, WithBundle, ValidRecord, HasBundle, IsLocked, Statuses,
      KeyOf, Bundles

LEMMA Constants ==
  /\ Absent \in Records /\ Tombstone \in Records /\ Absent # Tombstone
  /\ ValidRecord(Absent) /\ ValidRecord(Tombstone)
  /\ ~HasBundle(Absent) /\ ~HasBundle(Tombstone) /\ KeyOf(Absent) = None /\ KeyOf(Tombstone) = None
  /\ Absent.status = "absent" /\ Tombstone.status = "deleted"
  /\ Absent.bundle = None /\ Tombstone.bundle = None
  BY DEF Absent, Tombstone, Records, Statuses, ValidRecord, HasBundle, IsLocked, KeyOf

(* validate_record leaves one record of each empty kind.                    *)
LEMMA EmptyRecords ==
  ASSUME NEW rec \in Records, ValidRecord(rec)
  PROVE  /\ rec.status = "absent" <=> rec = Absent
         /\ rec.status = "deleted" <=> rec = Tombstone
  BY DEF Records, ValidRecord, HasBundle, IsLocked, Absent, Tombstone

LEMMA OutcomesTyped ==
  /\ NoOutcome \in Outcomes /\ Failure \in Outcomes /\ Missing \in Outcomes /\ Destroyed \in Outcomes
  /\ \A k \in Sessions \cup {None} : Answer(k) \in Outcomes
  BY DEF Outcomes, NoOutcome, Failure, Missing, Destroyed, Answer

LEMMA RequestsTyped ==
  ASSUME TypeOK, NEW op \in Ops, NEW r \in CallerRequests(op, Known, authority.token)
  PROVE  r \in Requests
<1>1. Known \subseteq Sessions \cup {None}
  BY DEF Known, TypeOK, Outcomes
<1>2. authority.token \in Sessions \cup {None}
  BY DEF TypeOK, Records
<1>3. op \in Operations
  BY OpsAssumption
<1> QED
  BY <1>1, <1>2, <1>3, NoneAssumption DEF CallerRequests, Requests, UnlockingOps

-----------------------------------------------------------------------------
(* Types.                                                                   *)

LEMMA FinishTyped ==
  ASSUME TypeOK, NEW s \in Sessions, NEW o \in Outcomes, Finish(s, o)
  PROVE  /\ pc' \in [Sessions -> Locations] /\ outcome' \in [Sessions -> Outcomes]
         /\ holder' \in Sessions \cup {None}
  BY DEF TypeOK, Finish, Goto, Unflock, Locations, Holding

LEMMA GotoTyped ==
  ASSUME TypeOK, NEW s \in Sessions, NEW label \in Locations, Goto(s, label)
  PROVE  pc' \in [Sessions -> Locations]
  BY DEF TypeOK, Goto

LEMMA ReplaceTyped ==
  ASSUME TypeOK, NEW s \in Sessions, NEW rec \in Records, Replace(s, rec)
  PROVE  authority' \in Records /\ everStored' \in BOOLEAN /\ base' \in [Sessions -> Records]
  BY DEF TypeOK, Replace

LEMMA WriteAndGotoTyped ==
  ASSUME TypeOK, NEW s \in Sessions, NEW rec \in Records, NEW label \in Locations,
         WriteAndGoto(s, rec, label)
  PROVE  TypeOK'
  BY GotoTyped, ReplaceTyped DEF WriteAndGoto, TypeOK

LEMMA Memory ==
  ASSUME TypeOK, NEW s \in Sessions
  PROVE  /\ authority \in Records /\ base[s] \in Records /\ prev[s] \in Records
         /\ KeyOf(authority) \in Sessions \cup {None} /\ KeyOf(base[s]) \in Sessions \cup {None}
         /\ HasBundle(base[s]) => base[s].bundle \in Bundles
         /\ req[s] \in Requests
         /\ req[s].op = "create" => req[s].pass \in Passphrases
         /\ req[s].op = "rotate" => req[s].newPass \in Passphrases
  BY DEF TypeOK, Requests, UnlockingOps, Records, KeyOf, HasBundle, Bundles

(* The bundle a create writes and the one a rotation writes.                *)
Fresh(s) == [key |-> s, pass |-> req[s].pass, salt |-> s]
Reencrypted(s) == [base[s].bundle EXCEPT !.pass = req[s].newPass, !.salt = s]

LEMMA BundlesTyped ==
  ASSUME TypeOK, NEW s \in Sessions
  PROVE  /\ req[s].op = "create" => Fresh(s) \in Bundles /\ Fresh(s).key = s
         /\ req[s].op = "rotate" /\ HasBundle(base[s]) =>
                /\ Reencrypted(s) \in Bundles
                /\ Reencrypted(s).key = base[s].bundle.key /\ Reencrypted(s).salt = s
  BY Memory DEF Fresh, Reencrypted, Bundles

(* Every step keeps the types.                                              *)
LEMMA TypeStep ==
  ASSUME TypeOK, NEW s \in Sessions, Session(s)
  PROVE  TypeOK'
<1> USE OutcomesTyped, Memory, Constants
<1>1. CASE Start(s)
  <2>1. req' \in [Sessions -> Requests]
    BY <1>1, RequestsTyped DEF Start, TypeOK
  <2>2. pc' \in [Sessions -> Locations]
    BY <1>1 DEF Start, Goto, TypeOK, Locations
  <2> QED
    BY <1>1, <2>1, <2>2 DEF Start, TypeOK
<1>2. CASE Inspect(s)
  <2>1. \E o \in Outcomes : Finish(s, o)
    BY <1>2 DEF Inspect
  <2> QED
    BY <1>2, <2>1, FinishTyped DEF Inspect, TypeOK
<1>3. CASE OpenLock(s)
  <2>1. pc' \in [Sessions -> Locations]
    BY <1>3 DEF OpenLock, Goto, TypeOK, Locations
  <2>2. first' \in [Sessions -> BOOLEAN] /\ lockFile' \in BOOLEAN
    BY <1>3 DEF OpenLock, TypeOK
  <2> QED
    BY <1>3, <2>1, <2>2 DEF OpenLock, TypeOK
<1>4. CASE Flock(s)
  BY <1>4 DEF Flock, Goto, TypeOK, Locations
<1>5. CASE FlockBusy(s) \/ ReserveRefused(s) \/ RefuseHollow(s) \/ RetainLock(s) \/ Released(s)
           \/ AuthorityChanged(s) \/ Crash(s) \/ Delivered(s)
  <2>1. \E o \in Outcomes : Finish(s, o)
    BY <1>5 DEF FlockBusy, ReserveRefused, RefuseHollow, RetainLock, Released, AuthorityChanged, Crash,
                Delivered
  <2> QED
    BY <1>5, <2>1, FinishTyped
    DEF FlockBusy, ReserveRefused, RefuseHollow, RetainLock, Released, AuthorityChanged, Crash,
        Delivered, TypeOK
<1>6. CASE FindTombstone(s) \/ Unlinked(s) \/ WriteCache(s)
  <2>1. (\E o \in Outcomes : Finish(s, o)) /\ cache' \in Sessions \cup {None}
    BY <1>6 DEF FindTombstone, Unlinked, WriteCache
  <2> QED
    BY <1>6, <2>1, FinishTyped DEF FindTombstone, Unlinked, WriteCache, TypeOK
<1>7. CASE FindNoTombstone(s)
  <2>1. holder' \in Sessions \cup {None}
    BY <1>7 DEF FindNoTombstone, Unflock, TypeOK
  <2> QED
    BY <1>7, <2>1, GotoTyped DEF FindNoTombstone, TypeOK, Locations
<1>8. CASE Reserve(s)
  <2>1. /\ authority' \in Records /\ base' \in [Sessions -> Records] /\ prev' \in [Sessions -> Records]
        /\ everStored' \in BOOLEAN
    BY <1>8, Shapes DEF Reserve, TypeOK, Reservation, Records, Statuses
  <2> QED
    BY <1>8, <2>1, GotoTyped DEF Reserve, TypeOK, Locations, Holding
<1>9. CASE Generate(s)
  <2>1. WithBundle(base[s], Fresh(s)) \in Records
    BY <1>9, BundlesTyped, Shapes DEF Generate
  <2> QED
    BY <1>9, <2>1, GotoTyped, ReplaceTyped DEF Generate, Fresh, TypeOK, Locations
<1>10. CASE PublishGenerated(s) \/ AdoptOrRecover(s) \/ PublishLoaded(s) \/ LoadFails(s)
  <2>1. Published(base[s]) \in Records
    BY DEF Published, Records, Statuses
  <2>2. \E label \in Locations : WriteAndGoto(s, Published(base[s]), label)
    BY <1>10 DEF PublishGenerated, AdoptOrRecover, PublishLoaded, LoadFails, Locations
  <2> QED
    BY <2>1, <2>2, WriteAndGotoTyped
<1>11. CASE Rotate(s)
  <2>1. Published(WithBundle(base[s], Reencrypted(s))) \in Records
    BY <1>11, BundlesTyped DEF Rotate, Published, WithBundle, Records, Statuses
  <2> QED
    BY <1>11, <2>1, WriteAndGotoTyped DEF Rotate, Reencrypted, Locations
<1>12. CASE Restore(s) \/ Bury(s)
  BY <1>12, WriteAndGotoTyped DEF Restore, Bury, Locations
<1>13. CASE Load(s)
  BY <1>13, GotoTyped DEF Load, TypeOK, Locations
<1> QED
  BY <1>1, <1>2, <1>3, <1>4, <1>5, <1>6, <1>7, <1>8, <1>9, <1>10, <1>11, <1>12, <1>13 DEF Session

-----------------------------------------------------------------------------
(* The flock.                                                               *)

LEMMA OthersUntouched ==
  ASSUME TypeOK, NEW s \in Sessions, Session(s), NEW t \in Sessions \ {s}
  PROVE  /\ pc'[t] = pc[t] /\ req'[t] = req[t] /\ first'[t] = first[t]
         /\ base'[t] = base[t] /\ prev'[t] = prev[t] /\ outcome'[t] = outcome[t]
         /\ holder = t => holder' = t
         /\ lockFile => lockFile'
         /\ everStored => everStored'
  BY NoneAssumption
  DEF TypeOK, Session, Start, Inspect, OpenLock, Flock, FlockBusy, FindTombstone, FindNoTombstone,
      Reserve, ReserveRefused, RefuseHollow, Generate, PublishGenerated, AdoptOrRecover, Rotate,
      Restore, RetainLock, Bury, Load, PublishLoaded, LoadFails, Unlinked, Delivered, Released,
      WriteCache, AuthorityChanged, Crash, Goto, Finish, Unflock, WriteAndGoto, Replace

(* Only the holder writes the record or the cache.                          *)
LEMMA HolderWrites ==
  ASSUME NEW s \in Sessions, Session(s),
         authority' # authority \/ cache' # cache \/ everStored' # everStored
  PROVE  pc[s] \in Exclusive /\ pc[s] \in Holding \cup {"precheck", "check", "published", "buried"}
  BY DEF Exclusive, Holding, Session, Start, Inspect, OpenLock, Flock, FlockBusy, FindTombstone,
      FindNoTombstone, Reserve, ReserveRefused, RefuseHollow, Generate, PublishGenerated,
      AdoptOrRecover, Rotate, Restore, RetainLock, AttemptFails, Bury, Load, PublishLoaded,
      LoadFails, Unlinked, Delivered, Released, WriteCache, AuthorityChanged, Crash, WriteAndGoto,
      Replace

LEMMA FlockStep ==
  ASSUME TypeOK, FlockHeld, NEW s \in Sessions, Session(s)
  PROVE  FlockHeld'
<1>1. ASSUME NEW t \in Sessions \ {s}, pc'[t] \in Exclusive PROVE holder' = t
  BY <1>1, OthersUntouched DEF FlockHeld
<1>2. ASSUME pc'[s] \in Exclusive PROVE holder' = s
  <2>1. CASE Flock(s) \/ Start(s) \/ OpenLock(s) \/ FindNoTombstone(s)
    BY <1>2, <2>1 DEF TypeOK, Flock, Start, OpenLock, FindNoTombstone, Goto, Exclusive, Holding
  <2>2. CASE pc[s] \in Exclusive /\ ~FindNoTombstone(s)
    BY <1>2, <2>2
    DEF FlockHeld, TypeOK, Exclusive, Holding, Session, Start, Inspect, OpenLock, Flock, FlockBusy,
        FindTombstone, Reserve, ReserveRefused, RefuseHollow, Generate, PublishGenerated,
        AdoptOrRecover, Rotate, Restore, RetainLock, Bury, Load, PublishLoaded, LoadFails, Unlinked,
        Delivered, Released, WriteCache, AuthorityChanged, Crash, Goto, Finish, WriteAndGoto
  <2>3. CASE Inspect(s) \/ FlockBusy(s) \/ Crash(s)
    BY <1>2, <2>3 DEF TypeOK, Inspect, FlockBusy, Crash, Goto, Finish, Exclusive, Holding
  <2> QED
    BY <2>1, <2>2, <2>3
    DEF Exclusive, Holding, Session, FindTombstone, Reserve, ReserveRefused, RefuseHollow, Generate,
        PublishGenerated, AdoptOrRecover, Rotate, Restore, RetainLock, AttemptFails, Bury, Load,
        PublishLoaded, LoadFails, Unlinked, Delivered, Released, WriteCache, AuthorityChanged
<1> QED
  BY <1>1, <1>2 DEF FlockHeld

LEMMA Alone ==
  ASSUME FlockHeld, NEW s \in Sessions, NEW t \in Sessions, pc[s] \in Exclusive, pc[t] \in Exclusive
  PROVE  s = t
  BY DEF FlockHeld

-----------------------------------------------------------------------------
(* What a session does to the record it remembers and to the directory's.   *)

Establishes(s) ==
    /\ req[s].op = "create" /\ pc[s] = "held" /\ ~HasBundle(base[s])
    /\ base'[s] = WithBundle(base[s], Fresh(s)) /\ pc'[s] = "generated"

Reencrypts(s) ==
    /\ req[s].op = "rotate" /\ HasBundle(base[s])
    /\ base'[s] = Published(WithBundle(base[s], Reencrypted(s))) /\ pc'[s] = "published"

Keeps(s) ==
    /\ HasBundle(base[s])
    /\ base'[s].bundle = base[s].bundle /\ base'[s].status = "ready" /\ ValidRecord(base'[s])
    /\ pc'[s] \in {"published", "delivered", "released"}

Buries(s) == HasBundle(base[s]) /\ base'[s] = Tombstone /\ pc'[s] = "buried"

Change(s) == Establishes(s) \/ Reencrypts(s) \/ Keeps(s) \/ Buries(s)

Writes(s) ==
    \/ Generate(s) \/ PublishGenerated(s) \/ AdoptOrRecover(s) \/ Rotate(s) \/ Restore(s) \/ Bury(s)
    \/ PublishLoaded(s) \/ LoadFails(s)

LEMMA ReplaceEffect ==
  ASSUME TypeOK, NEW s \in Sessions, NEW rec, NEW label,
         Replace(s, rec), Goto(s, label)
  PROVE  /\ authority = base[s] /\ authority' = rec /\ base'[s] = rec /\ pc'[s] = label
         /\ everStored' /\ \A t \in Sessions \ {s} : base'[t] = base[t]
  BY DEF TypeOK, Replace, Goto

LEMMA WriteEffect ==
  ASSUME TypeOK, InCourse, NEW s \in Sessions, Writes(s)
  PROVE  /\ pc[s] \in Holding /\ IsLocked(base[s])
         /\ authority = base[s] /\ authority' = base'[s] /\ everStored'
         /\ prev' = prev /\ req' = req /\ first' = first /\ cache' = cache /\ outcome' = outcome
         /\ holder' = holder /\ lockFile' = lockFile
         /\ Change(s)
<1>a. base[s] \in Records /\ prev[s] \in Records
  BY Memory
<1>1. pc[s] \in Holding
  BY DEF Writes, Generate, PublishGenerated, AdoptOrRecover, Rotate, Restore, AttemptFails, Bury,
         PublishLoaded, LoadFails, Holding
<1>2. IsLocked(base[s])
  BY <1>1 DEF InCourse
<1>3. UNCHANGED <<prev, req, first, cache, outcome, holder, lockFile>>
  BY DEF Writes, Generate, PublishGenerated, AdoptOrRecover, Rotate, Restore, Bury, PublishLoaded,
         LoadFails, WriteAndGoto
<1>4. authority = base[s] /\ authority' = base'[s] /\ everStored'
  <2>1. \E rec, label : Replace(s, rec) /\ Goto(s, label)
    BY DEF Writes, Generate, PublishGenerated, AdoptOrRecover, Rotate, Restore, Bury, PublishLoaded,
           LoadFails, WriteAndGoto
  <2> QED
    BY <2>1, ReplaceEffect
<1> SUFFICES Change(s)
  BY <1>1, <1>2, <1>3, <1>4
<1>5. CASE Generate(s)
  BY <1>5, ReplaceEffect DEF Generate, Change, Establishes, Fresh
<1>6. CASE Rotate(s)
  BY <1>6, ReplaceEffect DEF Rotate, WriteAndGoto, Change, Reencrypts, Reencrypted
<1>7. CASE Bury(s)
  BY <1>7, ReplaceEffect DEF Bury, WriteAndGoto, Change, Buries
<1>8. CASE Restore(s)
  <2>1. base'[s] = prev[s] /\ pc'[s] = "released" /\ prev[s].status = "ready"
    BY <1>8, ReplaceEffect DEF Restore, WriteAndGoto
  <2>2. base[s].bundle = prev[s].bundle /\ ValidRecord(prev[s])
    BY <1>8, <1>a DEF Restore, AttemptFails, InCourse, Reservation, Records
  <2> QED
    BY <2>1, <2>2 DEF Change, Keeps, ValidRecord, HasBundle
<1>9. CASE PublishGenerated(s) \/ AdoptOrRecover(s) \/ PublishLoaded(s) \/ LoadFails(s)
  <2>1. HasBundle(base[s])
    BY <1>9 DEF PublishGenerated, AdoptOrRecover, PublishLoaded, LoadFails, InCourse
  <2>2. base'[s] = Published(base[s]) /\ pc'[s] \in {"published", "delivered", "released"}
    BY <1>9, ReplaceEffect
    DEF PublishGenerated, AdoptOrRecover, PublishLoaded, LoadFails, WriteAndGoto
  <2>3. /\ Published(base[s]).bundle = base[s].bundle /\ Published(base[s]).status = "ready"
        /\ ValidRecord(Published(base[s]))
    BY <1>a, <2>1 DEF Published, Records, ValidRecord, HasBundle, IsLocked
  <2> QED
    BY <2>1, <2>2, <2>3 DEF Change, Keeps
<1> QED
  BY <1>5, <1>6, <1>7, <1>8, <1>9 DEF Writes

LEMMA QuietEffect ==
  ASSUME NEW s \in Sessions, Session(s), ~Writes(s), ~Reserve(s)
  PROVE  UNCHANGED <<authority, everStored, base, prev>>
  BY DEF Writes, Session, Start, Inspect, OpenLock, Flock, FlockBusy, FindTombstone,
         FindNoTombstone, ReserveRefused, RefuseHollow, RetainLock, Load, Unlinked, Delivered,
         Released, WriteCache, AuthorityChanged, Crash

(* The record that was written is one validate_record accepts.              *)
LEMMA WrittenValid ==
  ASSUME TypeOK, InCourse, NEW s \in Sessions, IsLocked(base[s]), Change(s)
  PROVE  /\ ValidRecord(base'[s])
         /\ pc'[s] = "generated" => IsLocked(base'[s])
         /\ pc'[s] \in {"generated", "published", "delivered"} => HasBundle(base'[s])
         /\ pc'[s] = "published" => base'[s].status = "ready"
         /\ pc'[s] = "buried" => base'[s] = Tombstone
         /\ pc'[s] \in {"generated", "published", "delivered", "released", "buried"}
<1>a. base[s] \in Records /\ ValidRecord(base[s])
  BY Memory DEF InCourse
<1>1. CASE Establishes(s)
  <2>1. Fresh(s) \in Bundles
    BY <1>1, BundlesTyped DEF Establishes
  <2> QED
    BY <1>1, <1>a, <2>1, Shapes DEF Establishes, IsLocked, HasBundle
<1>2. CASE Reencrypts(s)
  <2>1. Reencrypted(s) \in Bundles
    BY <1>2, BundlesTyped DEF Reencrypts
  <2> DEFINE w == WithBundle(base[s], Reencrypted(s))
  <2>2. w \in Records /\ HasBundle(w)
    BY <1>a, <2>1, Shapes DEF HasBundle
  <2> HIDE DEF w
  <2>3. ValidRecord(Published(w)) /\ Published(w).bundle = w.bundle /\ Published(w).status = "ready"
    BY <2>1, <2>2, Shapes
  <2>4. HasBundle(Published(w))
    BY <2>2, <2>3 DEF HasBundle
  <2> QED
    BY <1>2, <2>3, <2>4 DEF Reencrypts, w
<1>3. CASE Keeps(s)
  BY <1>3 DEF Keeps, HasBundle
<1>4. CASE Buries(s)
  BY <1>4, Constants DEF Buries
<1> QED
  BY <1>1, <1>2, <1>3, <1>4 DEF Change

LEMMA InCourseStep ==
  ASSUME Inv, NEW s \in Sessions, Session(s)
  PROVE  InCourse'
<1> DEFINE P(t) ==
        /\ pc[t] # "done" => outcome[t] = NoOutcome
        /\ ValidRecord(base[t]) /\ ValidRecord(prev[t])
        /\ pc[t] \in Holding => IsLocked(base[t])
        /\ pc[t] = "held" => base[t] = Reservation(prev[t], t)
        /\ pc[t] \in {"generated", "loaded", "published", "delivered"} => HasBundle(base[t])
        /\ pc[t] = "published" => base[t].status = "ready"
        /\ pc[t] = "buried" => base[t] = Tombstone
<1>a. TypeOK /\ InCourse /\ RecordInHand /\ \A t \in Sessions : P(t)
  BY DEF Inv, InCourse
<1>1. ASSUME NEW t \in Sessions \ {s} PROVE P(t)'
  BY <1>a, <1>1, OthersUntouched
<1>2. P(s)'
  <2>1. CASE Reserve(s)
    <3>1. /\ base'[s] = Reservation(authority, s) /\ prev'[s] = authority /\ pc'[s] = "held"
          /\ outcome' = outcome /\ pc[s] = "check" /\ ValidRecord(authority)
      BY <1>a, <2>1 DEF Reserve, Goto, TypeOK, RecordInHand
    <3>2. ValidRecord(Reservation(authority, s)) /\ IsLocked(Reservation(authority, s))
      BY <3>1, NoneAssumption, Memory, <1>a
      DEF Reservation, ValidRecord, IsLocked, HasBundle, Records
    <3> QED
      BY <1>a, <3>1, <3>2
  <2>2. CASE Writes(s)
    <3>1. IsLocked(base[s]) /\ Change(s) /\ outcome' = outcome /\ prev' = prev /\ pc[s] \in Holding
      BY <1>a, <2>2, WriteEffect
    <3> QED
      BY <1>a, <3>1, WrittenValid DEF Holding
  <2>3. CASE ~Reserve(s) /\ ~Writes(s)
    <3>1. base' = base /\ prev' = prev
      BY <2>3, QuietEffect
    <3>2. CASE Load(s)
      BY <1>a, <3>1, <3>2 DEF Load, Goto, TypeOK, Holding
    <3>3. CASE ~Load(s)
      <4>1. /\ pc'[s] \notin Writing
            /\ pc'[s] # "done" => outcome'[s] = outcome[s] /\ pc[s] # "done"
        BY <1>a, <2>3, <3>3
        DEF TypeOK, Session, Start, Inspect, OpenLock, Flock, FlockBusy, FindTombstone, Writes,
            FindNoTombstone, ReserveRefused, RefuseHollow, RetainLock, Unlinked,
            Delivered, Released, WriteCache, AuthorityChanged, Crash, Goto, Finish, Writing, Holding
      <4> QED
        BY <1>a, <3>1, <4>1 DEF Writing, Holding
    <3> QED
      BY <3>2, <3>3
  <2> QED
    BY <2>1, <2>2, <2>3
<1> QED
  BY <1>1, <1>2 DEF InCourse

-----------------------------------------------------------------------------
(* Whose record it is.                                                      *)

LEMMA ReserveEffect ==
  ASSUME TypeOK, RecordInHand, NEW s \in Sessions, Reserve(s)
  PROVE  /\ pc[s] = "check" /\ pc'[s] = "held" /\ prev'[s] = authority /\ everStored'
         /\ authority' = Reservation(authority, s) /\ base'[s] = authority'
         /\ ValidRecord(authority') /\ IsLocked(authority') /\ authority'.bundle = authority.bundle
         /\ authority # Tombstone
         /\ authority = Absent => first[s]
         /\ ~HasBundle(authority) /\ req[s].op = "create" => first[s]
         /\ UNCHANGED <<first, req, outcome, cache, lockFile, holder>>
<1>a. authority \in Records /\ ValidRecord(authority)
  BY Memory DEF RecordInHand
<1>1. /\ pc[s] = "check" /\ pc'[s] = "held" /\ prev'[s] = authority /\ everStored'
      /\ authority' = Reservation(authority, s) /\ base'[s] = authority'
      /\ UNCHANGED <<first, req, outcome, cache, lockFile, holder>>
  BY DEF Reserve, Goto, TypeOK
<1>2. /\ ValidRecord(Reservation(authority, s)) /\ IsLocked(Reservation(authority, s))
      /\ Reservation(authority, s).bundle = authority.bundle
  BY <1>a, NoneAssumption DEF Reservation, Records, ValidRecord, HasBundle, IsLocked
<1>3. authority # Tombstone /\ (authority.status = "absent" => first[s])
  BY Constants DEF Reserve, MayReserve, Evidence
<1>4. ~HasBundle(authority) /\ req[s].op = "create" => first[s]
  BY <1>a DEF Reserve, MayReserve, Evidence, TokenAccepted, ValidRecord, IsLocked, Records, Statuses
<1> QED
  BY <1>1, <1>2, <1>3, <1>4, Constants

LEMMA RecordStep ==
  ASSUME Inv, NEW s \in Sessions, Session(s)
  PROVE  RecordInHand'
<1>a. TypeOK /\ FlockHeld /\ InCourse /\ RecordInHand
  BY DEF Inv
<1>1. /\ ValidRecord(authority') /\ (authority' # Absent => everStored')
      /\ pc'[s] \in Writing => authority' \in {base'[s], Absent} /\ everStored'
  <2>1. CASE Reserve(s)
    BY <1>a, <2>1, ReserveEffect
  <2>2. CASE Writes(s)
    BY <1>a, <2>2, WriteEffect, WrittenValid
  <2>3. CASE ~Reserve(s) /\ ~Writes(s)
    <3>1. UNCHANGED <<authority, everStored, base>>
      BY <2>3, QuietEffect
    <3>2. pc'[s] \in Writing => pc[s] \in Writing
      BY <1>a, <2>3
      DEF Writing, Holding, Writes,
          TypeOK, Session, Start, Inspect, OpenLock, Flock, FlockBusy, FindTombstone, FindNoTombstone,
          Reserve, ReserveRefused, RefuseHollow, Generate, PublishGenerated, AdoptOrRecover, Rotate,
          Restore, RetainLock, AttemptFails, Bury, Load, PublishLoaded, LoadFails, Unlinked,
          Delivered, Released, WriteCache, AuthorityChanged, Crash, Goto, Finish, WriteAndGoto
    <3> QED
      BY <1>a, <3>1, <3>2 DEF RecordInHand
  <2> QED
    BY <2>1, <2>2, <2>3
<1>2. ASSUME NEW t \in Sessions \ {s}, pc'[t] \in Writing
      PROVE  authority' \in {base'[t], Absent} /\ everStored'
  <2>1. pc[t] \in Writing /\ pc[t] \in Exclusive /\ base'[t] = base[t]
    BY <1>a, <1>2, OthersUntouched DEF Writing, Exclusive
  <2>2. authority' = authority /\ everStored' = everStored
    BY <1>a, <2>1, HolderWrites, Alone
  <2> QED
    BY <1>a, <2>1, <2>2 DEF RecordInHand
<1> QED
  BY <1>1, <1>2 DEF RecordInHand

LEMMA FirstStep ==
  ASSUME Inv, NEW s \in Sessions, Session(s)
  PROVE  FirstToLock'
<1>a. TypeOK /\ FlockHeld /\ InCourse /\ RecordInHand /\ FirstToLock
  BY DEF Inv
<1>b. lockFile => lockFile'
  BY <1>a DEF TypeOK, Session, Start, Inspect, OpenLock, Flock, FlockBusy, FindTombstone, FindNoTombstone,
          Reserve, ReserveRefused, RefuseHollow, Generate, PublishGenerated, AdoptOrRecover, Rotate,
          Restore, RetainLock, AttemptFails, Bury, Load, PublishLoaded, LoadFails, Unlinked,
          Delivered, Released, WriteCache, AuthorityChanged, Crash, Goto, Finish, WriteAndGoto
<1>c. everStored' # everStored => Reserve(s) /\ authority = Absent /\ first[s]
  <2>1. CASE Reserve(s)
    <3>1. everStored' = TRUE
      BY <2>1 DEF Reserve
    <3>2. authority # Absent => everStored = TRUE
      BY <1>a DEF RecordInHand, TypeOK
    <3> QED
      BY <1>a, <2>1, <3>1, <3>2, ReserveEffect
  <2>2. CASE Writes(s)
    <3>1. pc[s] \in Writing /\ everStored'
      BY <1>a, <2>2, WriteEffect DEF Writing
    <3> QED
      BY <1>a, <3>1 DEF RecordInHand
  <2> QED
    BY <2>1, <2>2, QuietEffect
<1>1. ~lockFile' => ~everStored'
  <2>1. everStored' # everStored => lockFile
    BY <1>a, HolderWrites DEF FirstToLock
  <2> QED
    BY <1>a, <1>b, <2>1 DEF FirstToLock
<1>2. CASE OpenLock(s)
  <2>1. /\ lockFile' /\ first' = [first EXCEPT ![s] = ~lockFile] /\ everStored' = everStored
        /\ pc'[s] \in {"preflock", "flock"} /\ prev' = prev /\ req' = req
    BY <1>2, <1>a DEF OpenLock, Goto, TypeOK
  <2>2. ASSUME NEW t \in Sessions
        PROVE  /\ \A u \in Sessions : first'[t] /\ first'[u] => t = u
               /\ first'[t] /\ pc'[t] \in {"flock", "check"} => ~everStored'
               /\ pc'[t] = "held" /\ ~HasBundle(prev'[t]) /\ req'[t].op = "create" => first'[t]
    <3>1. CASE t = s
      BY <1>a, <2>1, <3>1 DEF FirstToLock, TypeOK
    <3>2. CASE t # s
      BY <1>a, <2>1, <3>2, OthersUntouched DEF FirstToLock, TypeOK
    <3> QED
      BY <3>1, <3>2
  <2> QED
    BY <1>1, <2>1, <2>2 DEF FirstToLock
<1>3. CASE ~OpenLock(s)
  <2>1. first' = first
    BY <1>3 DEF TypeOK, Session, Start, Inspect, OpenLock, Flock, FlockBusy, FindTombstone, FindNoTombstone,
          Reserve, ReserveRefused, RefuseHollow, Generate, PublishGenerated, AdoptOrRecover, Rotate,
          Restore, RetainLock, AttemptFails, Bury, Load, PublishLoaded, LoadFails, Unlinked,
          Delivered, Released, WriteCache, AuthorityChanged, Crash, Goto, Finish, WriteAndGoto
  <2>2. /\ pc'[s] \in Exclusive \cup {"preflock", "flock"} => lockFile
        /\ pc'[s] \in {"flock", "check"} => pc[s] = "flock" /\ ~Reserve(s)
        /\ ~Reserve(s) /\ pc'[s] = "held" => pc[s] = "held" /\ prev' = prev /\ req' = req
    <3>1. pc'[s] \in Exclusive \cup {"preflock", "flock"} => pc[s] \in Exclusive \cup {"preflock", "flock"}
      BY <1>a, <1>3 DEF Exclusive, Holding, TypeOK, Session, Start, Inspect, OpenLock, Flock,
         FlockBusy, FindTombstone, FindNoTombstone,
          Reserve, ReserveRefused, RefuseHollow, Generate, PublishGenerated, AdoptOrRecover, Rotate,
          Restore, RetainLock, AttemptFails, Bury, Load, PublishLoaded, LoadFails, Unlinked,
          Delivered, Released, WriteCache, AuthorityChanged, Crash, Goto, Finish, WriteAndGoto
    <3>2. pc'[s] \in {"flock", "check"} => pc[s] = "flock" /\ ~Reserve(s)
      BY <1>a, <1>3 DEF TypeOK, Session, Start, Inspect, OpenLock, Flock, FlockBusy, FindTombstone,
         FindNoTombstone,
          Reserve, ReserveRefused, RefuseHollow, Generate, PublishGenerated, AdoptOrRecover, Rotate,
          Restore, RetainLock, AttemptFails, Bury, Load, PublishLoaded, LoadFails, Unlinked,
          Delivered, Released, WriteCache, AuthorityChanged, Crash, Goto, Finish, WriteAndGoto
    <3>3. ~Reserve(s) => pc'[s] # "held"
      BY <1>a, <1>3 DEF TypeOK, Session, Start, Inspect, OpenLock, Flock, FlockBusy, FindTombstone,
         FindNoTombstone,
          Reserve, ReserveRefused, RefuseHollow, Generate, PublishGenerated, AdoptOrRecover, Rotate,
          Restore, RetainLock, AttemptFails, Bury, Load, PublishLoaded, LoadFails, Unlinked,
          Delivered, Released, WriteCache, AuthorityChanged, Crash, Goto, Finish, WriteAndGoto
    <3> QED
      BY <1>a, <3>1, <3>2, <3>3 DEF FirstToLock
  <2>3. ASSUME NEW t \in Sessions
        PROVE  /\ pc'[t] \in Exclusive \cup {"preflock", "flock"} => lockFile'
               /\ first'[t] => lockFile'
               /\ \A u \in Sessions : first'[t] /\ first'[u] => t = u
               /\ first'[t] /\ pc'[t] \in {"flock", "check"} => ~everStored'
               /\ pc'[t] = "held" /\ ~HasBundle(prev'[t]) /\ req'[t].op = "create" => first'[t]
    <3>1. /\ pc'[t] \in Exclusive \cup {"preflock", "flock"} => lockFile'
          /\ first'[t] => lockFile'
          /\ \A u \in Sessions : first'[t] /\ first'[u] => t = u
      BY <1>a, <1>b, <2>1, <2>2, OthersUntouched DEF FirstToLock
    <3>2. CASE t = s
      BY <1>a, <1>c, <2>1, <2>2, <3>1, <3>2, ReserveEffect DEF FirstToLock
    <3>3. CASE t # s
      <4>1. first[t] => everStored' = everStored
        BY <1>a, <1>c, <3>3 DEF FirstToLock
      <4> QED
        BY <1>a, <2>1, <3>1, <3>3, <4>1, OthersUntouched DEF FirstToLock
    <3> QED
      BY <3>2, <3>3
  <2> QED
    BY <1>1, <2>3 DEF FirstToLock
<1> QED
  BY <1>2, <1>3

-----------------------------------------------------------------------------
(* One identity.                                                            *)

(* A session that went to the lock file first keeps what it found there.    *)
LEMMA MadeStays ==
  ASSUME TypeOK, NEW s \in Sessions, Session(s), NEW k \in Sessions, first[k], pc[k] \notin Early
  PROVE  first'[k] /\ pc'[k] \notin Early
<1>1. CASE k # s
  BY <1>1, OthersUntouched
<1>2. CASE k = s
  BY <1>2
  DEF Early, TypeOK, Session, Start, Inspect, OpenLock, Flock, FlockBusy, FindTombstone,
      FindNoTombstone, Reserve, ReserveRefused, RefuseHollow, Generate, PublishGenerated,
      AdoptOrRecover, Rotate, Restore, RetainLock, AttemptFails, Bury, Load, PublishLoaded,
      LoadFails, Unlinked, Delivered, Released, WriteCache, AuthorityChanged, Crash, Goto, Finish,
      WriteAndGoto
<1> QED
  BY <1>1, <1>2

(* The key of the record a session writes.                                  *)
LEMMA WrittenKey ==
  ASSUME TypeOK, NEW s \in Sessions, Change(s)
  PROVE  IF Establishes(s) THEN KeyOf(base'[s]) = s ELSE KeyOf(base'[s]) \in {KeyOf(base[s]), None}
<1>a. base[s] \in Records
  BY Memory
<1>1. CASE Establishes(s)
  <2>1. Fresh(s) \in Bundles /\ Fresh(s).key = s
    BY <1>1, BundlesTyped DEF Establishes
  <2> QED
    BY <1>1, <1>a, <2>1, Shapes DEF Establishes, KeyOf, HasBundle
<1>2. CASE Reencrypts(s)
  <2>1. Reencrypted(s) \in Bundles /\ Reencrypted(s).key = base[s].bundle.key
    BY <1>2, BundlesTyped DEF Reencrypts
  <2>2. Published(WithBundle(base[s], Reencrypted(s))).bundle = Reencrypted(s)
    BY <1>a, <2>1 DEF Published, WithBundle, Records
  <2>3. Reencrypted(s) # None
    BY <2>1, NoneAssumption
  <2>4. HasBundle(base'[s]) /\ base'[s].bundle.key = base[s].bundle.key /\ ~Establishes(s)
    BY <1>2, <2>1, <2>2, <2>3 DEF Reencrypts, Establishes, HasBundle
  <2> QED
    BY <1>2, <2>4 DEF Reencrypts, KeyOf
<1>3. CASE Keeps(s)
  BY <1>3 DEF Keeps, Establishes, KeyOf, HasBundle
<1>4. CASE Buries(s)
  BY <1>4, Constants DEF Buries, Establishes
<1> QED
  BY <1>1, <1>2, <1>3, <1>4 DEF Change

(* What a session answers its caller.                                       *)
LEMMA AnswerCases ==
  ASSUME TypeOK, NEW s \in Sessions, Session(s)
  PROVE  \/ outcome' = outcome
         \/ /\ pc[s] # "done"
            /\ pc[s] # "idle"
            /\ \/ \E o \in {Failure, Missing} : outcome' = [outcome EXCEPT ![s] = o]
               \/ FindTombstone(s) /\ outcome' = [outcome EXCEPT ![s] = Destroyed]
               \/ Unlinked(s) /\ outcome' = [outcome EXCEPT ![s] = Destroyed]
               \/ /\ Inspect(s) /\ authority.status = "ready"
                  /\ outcome' = [outcome EXCEPT ![s] = Answer(KeyOf(authority))]
               \/ /\ Delivered(s) \/ WriteCache(s)
                  /\ outcome' = [outcome EXCEPT ![s] = Answer(KeyOf(base[s]))]
<1>1. CASE Inspect(s)
  BY <1>1 DEF Inspect, Finish
<1>2. CASE FindTombstone(s) \/ Unlinked(s) \/ Delivered(s) \/ WriteCache(s)
  BY <1>2 DEF FindTombstone, Unlinked, Delivered, WriteCache, Finish
<1>3. CASE FlockBusy(s) \/ ReserveRefused(s) \/ RefuseHollow(s) \/ RetainLock(s) \/ Released(s)
           \/ AuthorityChanged(s) \/ Crash(s)
  BY <1>3
  DEF FlockBusy, ReserveRefused, RefuseHollow, RetainLock, AttemptFails, Released, AuthorityChanged,
      Crash, Finish, Holding
<1>4. CASE outcome' = outcome
  BY <1>4
<1> QED
  BY <1>1, <1>2, <1>3, <1>4
  DEF Session, Start, OpenLock, Flock, FindNoTombstone, Reserve, Generate, PublishGenerated,
      AdoptOrRecover, Rotate, Restore, Bury, Load, PublishLoaded, LoadFails, WriteAndGoto

(* No answer names a key that was not visible before.                       *)
LEMMA AnsweredKey ==
  ASSUME TypeOK, NEW s \in Sessions, Session(s), NEW k \in Sessions, outcome'[s].key = k
  PROVE  Visible(k)
<1>1. CASE outcome' = outcome
  BY <1>1 DEF Visible
<1>2. ASSUME NEW o \in {Failure, Missing, Destroyed} PROVE outcome' # [outcome EXCEPT ![s] = o]
  BY <1>2, NoneAssumption DEF TypeOK, Failure, Missing, Destroyed
<1>3. ASSUME NEW j, outcome' = [outcome EXCEPT ![s] = Answer(j)] PROVE j = k
  BY <1>3 DEF TypeOK, Answer
<1> QED
  BY <1>1, <1>2, <1>3, AnswerCases DEF Visible

LEMMA VisibleStep ==
  ASSUME Inv, NEW s \in Sessions, Session(s), NEW k \in Sessions, Visible(k)'
  PROVE  Visible(k) \/ (Writes(s) /\ Establishes(s) /\ k = s)
<1>a. TypeOK /\ InCourse /\ RecordInHand
  BY DEF Inv
<1>b. k # None
  BY NoneAssumption
<1>1. ASSUME NEW t \in Sessions \ {s},
             KeyOf(base[t])' = k \/ KeyOf(prev[t])' = k \/ outcome'[t].key = k
      PROVE  Visible(k)
  BY <1>a, <1>1, OthersUntouched DEF Visible, KeyOf, HasBundle
<1>2. ASSUME outcome'[s].key = k PROVE Visible(k)
  BY <1>a, <1>2, AnsweredKey
<1>3. ASSUME KeyOf(authority)' = k \/ KeyOf(base[s])' = k \/ KeyOf(prev[s])' = k
      PROVE  Visible(k) \/ (Writes(s) /\ Establishes(s) /\ k = s)
  <2>1. CASE Reserve(s)
    <3>1. KeyOf(authority)' = KeyOf(authority) /\ base'[s] = authority' /\ prev'[s] = authority
      BY <1>a, <2>1, ReserveEffect DEF KeyOf, HasBundle
    <3> QED
      BY <1>3, <3>1 DEF Visible, KeyOf, HasBundle
  <2>2. CASE Writes(s)
    <3>1. Change(s) /\ authority' = base'[s] /\ prev' = prev
      BY <1>a, <2>2, WriteEffect
    <3>2. KeyOf(authority)' = KeyOf(base'[s]) /\ KeyOf(base[s])' = KeyOf(base'[s])
          /\ KeyOf(prev[s])' = KeyOf(prev[s])
      BY <3>1 DEF KeyOf, HasBundle
    <3>3. CASE KeyOf(prev[s]) = k
      BY <3>3 DEF Visible
    <3>4. CASE KeyOf(base'[s]) = k
      BY <1>a, <1>b, <2>2, <3>1, <3>4, WrittenKey DEF Visible
    <3> QED
      BY <1>3, <3>2, <3>3, <3>4
  <2>3. CASE ~Reserve(s) /\ ~Writes(s)
    BY <1>3, <2>3, QuietEffect DEF Visible, KeyOf, HasBundle
  <2> QED
    BY <2>1, <2>2, <2>3
<1> QED
  BY <1>1, <1>2, <1>3 DEF Visible, KeyOf, HasBundle

LEMMA OneIdentityStep ==
  ASSUME Inv, NEW s \in Sessions, Session(s)
  PROVE  OneIdentity' /\ NothingYet'
<1>a. TypeOK /\ InCourse /\ RecordInHand /\ FirstToLock /\ OneIdentity /\ NothingYet
  BY DEF Inv
<1>1. ASSUME NEW k \in Sessions, Visible(k)' PROVE first'[k] /\ pc'[k] \notin Early
  <2>1. CASE Visible(k)
    BY <1>a, <2>1, MadeStays DEF OneIdentity
  <2>2. CASE Writes(s) /\ Establishes(s) /\ k = s
    <3>1. pc[s] = "held" /\ req[s].op = "create" /\ ~HasBundle(base[s])
      BY <2>2 DEF Establishes
    <3>2. ~HasBundle(prev[s])
      BY <1>a, <3>1, Memory DEF InCourse, Reservation, HasBundle, Records
    <3>3. first[s] /\ pc[s] \notin Early
      BY <1>a, <3>1, <3>2 DEF FirstToLock, Early
    <3> QED
      BY <1>a, <2>2, <3>3, MadeStays
  <2> QED
    BY <1>1, <2>1, <2>2, VisibleStep
<1>2. NothingYet'
  <2> SUFFICES ASSUME ~everStored' \/ (IsLocked(authority') /\ ~HasBundle(authority')),
                      NEW k \in Sessions, Visible(k)'
               PROVE  FALSE
    BY DEF NothingYet, IsLocked, HasBundle
  <2>1. CASE Reserve(s)
    <3>1. everStored' /\ ~HasBundle(authority')
      BY <1>a, <2>1, ReserveEffect
    <3>2. /\ ~HasBundle(authority) /\ authority # Tombstone
          /\ authority = Absent => first[s] /\ pc[s] = "check"
      BY <1>a, <2>1, <3>1, ReserveEffect DEF HasBundle
    <3>3. authority \in Records /\ ValidRecord(authority)
      BY <1>a, Memory DEF RecordInHand
    <3>4. IsLocked(authority) \/ authority = Absent
      BY <3>2, <3>3, EmptyRecords DEF Records, Statuses, ValidRecord, IsLocked
    <3>5. ~Visible(k)
      BY <1>a, <3>2, <3>4 DEF NothingYet, FirstToLock
    <3>6. ~Writes(s)
      BY <1>a, <2>1, WriteEffect, ReserveEffect DEF Holding
    <3> QED
      BY <3>5, <3>6, VisibleStep
  <2>2. CASE Writes(s)
    <3>1. everStored' /\ authority' = base'[s] /\ Change(s) /\ IsLocked(base[s])
      BY <1>a, <2>2, WriteEffect
    <3>2. IsLocked(base'[s]) => Establishes(s)
      BY <1>a, <3>1, Constants DEF Change, Reencrypts, Keeps, Buries, Published, IsLocked, WithBundle,
         TypeOK, Records
    <3>3. HasBundle(base'[s])
      BY <1>a, <3>1, <3>2, WrittenValid DEF Establishes, IsLocked, HasBundle
    <3> QED
      BY <3>1, <3>3
  <2>3. CASE ~Reserve(s) /\ ~Writes(s)
    <3>1. authority' = authority /\ everStored' = everStored
      BY <2>3, QuietEffect
    <3> QED
      BY <1>a, <2>3, <3>1, VisibleStep DEF NothingYet
  <2> QED
    BY <2>1, <2>2, <2>3
<1> QED
  BY <1>1, <1>2 DEF OneIdentity

-----------------------------------------------------------------------------
(* Destruction.                                                             *)

LEMMA DestroyedStep ==
  ASSUME Inv, NEW s \in Sessions, Session(s)
  PROVE  DestroyedForGood'
<1>a. TypeOK /\ InCourse /\ RecordInHand /\ FirstToLock /\ DestroyedForGood
  BY DEF Inv
<1>b. authority \in Records /\ ValidRecord(authority)
  BY <1>a, Memory DEF RecordInHand
<1>1. CASE \E t \in Sessions : outcome[t] = Destroyed
  <2>1. everStored /\ authority \in {Tombstone, Absent} /\ (authority = Tombstone => cache = None)
    BY <1>a, <1>1 DEF DestroyedForGood
  <2>2. ~Reserve(s)
    BY <1>a, <2>1, ReserveEffect DEF FirstToLock
  <2>3. ~Writes(s)
    BY <1>a, <2>1, WriteEffect, Constants DEF IsLocked
  <2>4. authority' = authority /\ everStored' = everStored
    BY <2>2, <2>3, QuietEffect
  <2>5. authority = Tombstone => cache' = None
    <3> SUFFICES ASSUME authority = Tombstone, cache' # cache PROVE cache' = None
      BY <2>1
    <3>1. CASE WriteCache(s)
      BY <1>a, <3>1, Constants DEF WriteCache, RecordInHand, InCourse, Writing
    <3>2. CASE Load(s)
      BY <1>a, <3>2, Constants DEF Load, RecordInHand, InCourse, Writing, Holding, IsLocked
    <3>3. CASE FindTombstone(s) \/ Unlinked(s)
      BY <3>3 DEF FindTombstone, Unlinked
    <3> QED
      BY <2>2, <2>3, <3>1, <3>2, <3>3
      DEF Session, Start, Inspect, OpenLock, Flock, FlockBusy, FindNoTombstone, ReserveRefused,
          RefuseHollow, RetainLock, Delivered, Released, AuthorityChanged, Crash, Writes
  <2> QED
    BY <2>1, <2>4, <2>5 DEF DestroyedForGood
<1>2. CASE \A t \in Sessions : outcome[t] # Destroyed
  <2> SUFFICES ASSUME NEW t \in Sessions, outcome'[t] = Destroyed
               PROVE  everStored' /\ authority' \in {Tombstone, Absent}
                      /\ cache' = None
    BY DEF DestroyedForGood
  <2>1. t = s /\ outcome' # outcome
    BY <1>a, <1>2, OthersUntouched
  <2>2. \A o \in {Failure, Missing} : outcome' # [outcome EXCEPT ![s] = o]
    BY <1>a, <2>1 DEF TypeOK, Failure, Missing, Destroyed
  <2>3. \A k : outcome' # [outcome EXCEPT ![s] = Answer(k)]
    BY <1>a, <2>1 DEF TypeOK, Answer, Destroyed
  <2>4. FindTombstone(s) \/ Unlinked(s)
    BY <1>a, <2>1, <2>2, <2>3, AnswerCases
  <2>5. CASE FindTombstone(s)
    <3>1. authority = Tombstone
      BY <1>b, <2>5, EmptyRecords DEF FindTombstone
    <3> QED
      BY <1>a, <2>5, <3>1, Constants DEF FindTombstone, RecordInHand
  <2>6. CASE Unlinked(s)
    BY <1>a, <2>6 DEF Unlinked, RecordInHand, InCourse, Writing
  <2> QED
    BY <2>4, <2>5, <2>6
<1> QED
  BY <1>1, <1>2

-----------------------------------------------------------------------------
(* The invariant.                                                           *)

LEMMA InvInit == Init => Inv
<1> SUFFICES ASSUME Init PROVE Inv
  OBVIOUS
<1> USE Constants
<1>1. TypeOK
  BY OutcomesTyped, NoneAssumption
  DEF Init, TypeOK, Locations, Requests, NoRequest, Operations, MutatingOps, UnlockingOps
<1>2. FlockHeld /\ InCourse /\ RecordInHand /\ FirstToLock
  BY DEF Init, FlockHeld, InCourse, RecordInHand, FirstToLock, Exclusive, Holding, Writing, NoOutcome
<1>3. \A k \in Sessions : ~Visible(k)
  BY NoneAssumption DEF Init, Visible, NoOutcome
<1>4. DestroyedForGood
  BY DEF Init, DestroyedForGood, NoOutcome, Destroyed
<1> QED
  BY <1>1, <1>2, <1>3, <1>4 DEF Inv, OneIdentity, NothingYet

(* The directory may be lost at any point.                                  *)
LEMMA VanishKeeps == Inv /\ Vanish => Inv'
<1> SUFFICES ASSUME Inv, Vanish PROVE Inv'
  OBVIOUS
<1> USE Constants
<1>a. /\ TypeOK /\ FlockHeld /\ InCourse /\ RecordInHand /\ FirstToLock /\ OneIdentity /\ NothingYet
      /\ DestroyedForGood
  BY DEF Inv
<1>b. /\ authority # Absent /\ authority' = Absent /\ cache' \in {cache, None}
      /\ UNCHANGED <<everStored, lockFile, holder, pc, req, first, base, prev, outcome>>
  BY DEF Vanish
<1>c. everStored' = TRUE
  BY <1>a, <1>b DEF RecordInHand, TypeOK
<1>1. TypeOK'
  BY <1>a, <1>b DEF TypeOK
<1>2. FlockHeld' /\ InCourse'
  BY <1>a, <1>b DEF FlockHeld, InCourse
<1>3. RecordInHand'
  BY <1>a, <1>b, <1>c DEF RecordInHand
<1>4. FirstToLock'
  BY <1>a, <1>b DEF FirstToLock
<1>5. ASSUME NEW k \in Sessions, Visible(k)' PROVE Visible(k)
  BY <1>b, <1>5, NoneAssumption DEF Visible, KeyOf, HasBundle
<1>6. OneIdentity' /\ NothingYet'
  BY <1>a, <1>b, <1>c, <1>5 DEF OneIdentity, NothingYet, IsLocked
<1>7. DestroyedForGood'
  BY <1>a, <1>b, <1>c DEF DestroyedForGood
<1> QED
  BY <1>1, <1>2, <1>3, <1>4, <1>6, <1>7 DEF Inv

LEMMA InvStep == Inv /\ [Next]_vars => Inv'
<1>1. ASSUME Inv, NEW s \in Sessions, Session(s) PROVE Inv'
  BY <1>1, TypeStep, FlockStep, InCourseStep, RecordStep, FirstStep, OneIdentityStep, DestroyedStep
  DEF Inv
<1>2. ASSUME Inv, UNCHANGED vars PROVE Inv'
  BY <1>2
  DEF vars, Inv, TypeOK, FlockHeld, InCourse, RecordInHand, FirstToLock, OneIdentity, NothingYet,
      DestroyedForGood, Visible, KeyOf, HasBundle, IsLocked
<1> QED
  BY <1>1, <1>2, VanishKeeps DEF Next

-----------------------------------------------------------------------------

(* The inductive invariant holds in every state of every behaviour.         *)
THEOREM Invariance == Spec => []Inv
  BY InvInit, InvStep, PTL DEF Spec

(* Every variable keeps to its type.                                        *)
THEOREM TypeCorrect == Spec => []TypeOK
<1>1. Inv => TypeOK
  BY DEF Inv
<1> QED
  BY <1>1, Invariance, PTL

(* While a session works on the record it locked, nobody else changes it,   *)
(* whatever fails, dies or disappears meanwhile.                            *)
THEOREM HolderAlone == Spec => []HolderUndisturbed
<1>1. Inv => HolderUndisturbed
  BY DEF Inv, HolderUndisturbed, FlockHeld, RecordInHand, Exclusive, Writing
<1> QED
  BY <1>1, Invariance, PTL

(* After a deletion was answered no session writes the public cache again.  *)
THEOREM CacheStaysGone == Spec => []CacheGoneAfterDelete
<1>1. Inv => CacheGoneAfterDelete
  BY DEF Inv, CacheGoneAfterDelete, DestroyedForGood
<1> QED
  BY <1>1, Invariance, PTL

-----------------------------------------------------------------------------
(* The directory implements the abstract identity.                          *)

LEMMA KeysAgree ==
  ASSUME Inv, NEW k \in Sessions, Visible(k)
  PROVE  /\ Phase # "none"
         /\ HasBundle(authority) => k = authority.bundle.key
         /\ \A d \in Sessions : outcome[d].key \in {k, None}
<1>a. TypeOK /\ FirstToLock /\ OneIdentity /\ NothingYet /\ RecordInHand
  BY DEF Inv
<1>b. authority \in Records /\ ValidRecord(authority)
  BY <1>a, Memory DEF RecordInHand
<1>1. ASSUME NEW j \in Sessions, Visible(j) PROVE j = k
  BY <1>a, <1>1 DEF OneIdentity, FirstToLock
<1>2. everStored /\ ~(IsLocked(authority) /\ ~HasBundle(authority))
  BY <1>a DEF NothingYet
<1>3. Phase # "none"
  <2>1. HasBundle(authority) \/ authority = Absent \/ authority.status = "deleted"
    BY <1>b, <1>2, EmptyRecords DEF Records, Statuses, ValidRecord, IsLocked
  <2> QED
    BY <1>2, <2>1 DEF Phase
<1>4. ASSUME HasBundle(authority) PROVE k = authority.bundle.key
  <2>1. KeyOf(authority) = authority.bundle.key /\ KeyOf(authority) \in Sessions
    BY <1>b, <1>4, Shapes DEF KeyOf, Records, HasBundle, Bundles
  <2> QED
    BY <1>1, <2>1 DEF Visible
<1>5. ASSUME NEW d \in Sessions PROVE outcome[d].key \in {k, None}
  BY <1>a, <1>1 DEF Visible, TypeOK, Outcomes
<1> QED
  BY <1>3, <1>4, <1>5

(* What a reservation and a write are to the abstract identity.             *)
LEMMA WriteRefines ==
  ASSUME Inv, NEW s \in Sessions, Reserve(s) \/ Writes(s)
  PROVE  Identity!Next \/ UNCHANGED Identity!vars
<1>a. TypeOK /\ InCourse /\ RecordInHand /\ FirstToLock /\ NothingYet
  BY DEF Inv
<1>b. authority \in Records /\ ValidRecord(authority) /\ base[s] \in Records
  BY <1>a, Memory DEF RecordInHand
<1>1. CASE Reserve(s)
  <2>1. /\ authority'.bundle = authority.bundle /\ outcome' = outcome /\ IsLocked(authority')
        /\ authority # Tombstone /\ (authority = Absent => ~everStored)
    BY <1>a, <1>1, ReserveEffect DEF FirstToLock
  <2>2. authority.status # "deleted" /\ authority' # Absent
    BY <1>b, <2>1, EmptyRecords, Constants DEF IsLocked
  <2>3. Phase' = Phase
    BY <2>1, <2>2 DEF Phase, HasBundle, IsLocked
  <2> QED
    BY <2>1, <2>3 DEF Identity!vars
<1>2. CASE Writes(s)
  <2>1. /\ authority = base[s] /\ authority' = base'[s] /\ outcome' = outcome /\ Change(s)
        /\ IsLocked(base[s]) /\ pc[s] \in Holding
    BY <1>a, <1>2, WriteEffect
  <2>2. HasBundle(authority) => Phase = "established"
    BY DEF Phase
  <2>3. HasBundle(authority') => Phase' = "established"
    BY DEF Phase, HasBundle
  <2>4. outcome[s] = NoOutcome
    BY <1>a, <2>1 DEF InCourse, Holding
  <2>5. CASE Establishes(s)
    <3>1. Fresh(s) \in Bundles /\ Fresh(s) \in Identity!Bundles
      BY <1>a, <2>5, BundlesTyped DEF Establishes, Bundles, Identity!Bundles
    <3>2. authority'.bundle = Fresh(s) /\ HasBundle(authority')
      BY <1>b, <2>1, <2>5, <3>1, Shapes DEF Establishes, HasBundle
    <3>3. Phase = "none"
      BY <2>1, <2>5, Constants DEF Establishes, Phase, IsLocked
    <3>4. Identity!Establish
      BY <2>1, <2>3, <3>1, <3>2, <3>3 DEF Identity!Establish
    <3> QED
      BY <3>4 DEF Identity!Next
  <2>6. CASE Reencrypts(s)
    <3>1. /\ Reencrypted(s) \in Bundles /\ Reencrypted(s) \in Identity!Bundles
          /\ Reencrypted(s).key = base[s].bundle.key /\ Reencrypted(s).salt = s
      BY <1>a, <2>6, BundlesTyped DEF Reencrypts, Bundles, Identity!Bundles
    <3>2. Published(WithBundle(base[s], Reencrypted(s))).bundle = Reencrypted(s)
      BY <1>b, <3>1 DEF Published, WithBundle, Records
    <3>3. authority'.bundle = Reencrypted(s) /\ HasBundle(authority')
      BY <2>1, <2>6, <3>1, <3>2, NoneAssumption DEF Reencrypts, HasBundle
    <3>4. HasBundle(authority)
      BY <2>1, <2>6 DEF Reencrypts
    <3>5. Identity!Rotate(s)
      BY <2>1, <2>2, <2>3, <2>4, <3>1, <3>3, <3>4
      DEF Identity!Rotate, NoOutcome, Missing, Failure
    <3> QED
      BY <3>5 DEF Identity!Next
  <2>7. CASE Keeps(s)
    BY <2>1, <2>2, <2>3, <2>7 DEF Keeps, HasBundle, Identity!vars
  <2>8. CASE Buries(s)
    <3>1. Phase' = "destroyed" /\ authority'.bundle = None
      BY <2>1, <2>8, Constants DEF Buries, Phase, HasBundle
    <3>2. Identity!Destroy
      BY <2>1, <2>2, <2>8, <3>1 DEF Identity!Destroy, Buries
    <3> QED
      BY <3>2 DEF Identity!Next
  <2> QED
    BY <2>1, <2>5, <2>6, <2>7, <2>8 DEF Change
<1> QED
  BY <1>1, <1>2

(* The abstract answer: what told is to outcome.                            *)
Told == [d \in Sessions |-> IF outcome[d] = Missing THEN Failure ELSE outcome[d]]

LEMMA ToldStep ==
  ASSUME TypeOK, NEW s \in Sessions, outcome[s] = NoOutcome, NEW o, outcome' = [outcome EXCEPT ![s] = o]
  PROVE  /\ Told[s].kind = "none"
         /\ Told' = [Told EXCEPT ![s] = IF o = Missing THEN Failure ELSE o]
<1>1. Told[s].kind = "none"
  BY DEF Told, NoOutcome, Missing
<1>2. \A d \in Sessions : outcome'[d] = IF d = s THEN o ELSE outcome[d]
  BY DEF TypeOK
<1>3. Told' = [d \in Sessions |-> IF outcome'[d] = Missing THEN Failure ELSE outcome'[d]]
  BY DEF Told, Missing, Failure
<1>4. Told' = [Told EXCEPT ![s] = IF o = Missing THEN Failure ELSE o]
  BY <1>2, <1>3 DEF Told
<1> QED
  BY <1>1, <1>4

LEMMA AnswerRefines ==
  ASSUME Inv, NEW s \in Sessions, Session(s), ~Reserve(s), ~Writes(s)
  PROVE  Identity!Next \/ UNCHANGED Identity!vars
<1>a. TypeOK /\ InCourse /\ RecordInHand
  BY DEF Inv
<1>b. authority' = authority /\ everStored' = everStored
  BY QuietEffect
<1>c. Phase' = Phase
  BY <1>b DEF Phase, HasBundle
<1>1. CASE outcome' = outcome
  BY <1>1, <1>b, <1>c DEF Identity!vars
<1>2. CASE outcome' # outcome
  <2>1. outcome[s] = NoOutcome
    BY <1>a, <1>2, AnswerCases DEF InCourse
  <2>2. ASSUME NEW o, outcome' = [outcome EXCEPT ![s] = o], NEW kind, NEW key,
               (IF o = Missing THEN Failure ELSE o) = [kind |-> kind, key |-> key]
        PROVE  Identity!Tell(s, kind, key)
    BY <1>a, <1>b, <1>c, <2>1, <2>2, ToldStep DEF Identity!Tell, Told
  <2>3. CASE \E o \in {Failure, Missing} : outcome' = [outcome EXCEPT ![s] = o]
    <3>1. Identity!TellFailed(s)
      BY <2>2, <2>3 DEF Failure, Identity!TellFailed
    <3> QED
      BY <3>1 DEF Identity!Next
  <2>4. CASE /\ FindTombstone(s) \/ Unlinked(s)
             /\ outcome' = [outcome EXCEPT ![s] = Destroyed]
    <3>1. authority.status = "deleted" \/ (authority = Absent /\ everStored)
      BY <1>a, <2>4, Constants DEF FindTombstone, Unlinked, RecordInHand, InCourse, Writing
    <3>2. ~HasBundle(authority)
      BY <1>a, <3>1, Constants DEF RecordInHand, ValidRecord
    <3>3. Phase \in {"destroyed", "lost"}
      BY <3>1, <3>2 DEF Phase
    <3>4. Identity!Tell(s, "destroyed", None)
      BY <2>2, <2>4 DEF Destroyed, Missing
    <3>5. Identity!TellDestroyed(s)
      BY <3>3, <3>4 DEF Identity!TellDestroyed
    <3> QED
      BY <3>5 DEF Identity!Next
  <2>5. ASSUME NEW k \in Sessions, Visible(k), outcome' = [outcome EXCEPT ![s] = Answer(k)]
        PROVE  Identity!TellIdentity(s)
    <3>1. Identity!Tell(s, "ok", k)
      BY <2>2, <2>5 DEF Answer, Missing
    <3>2. \A d \in Sessions : Told[d].key \in {k, None}
      BY <2>5, KeysAgree DEF Told, Failure
    <3>3. Phase # "none" /\ (authority.bundle # None => k = authority.bundle.key)
      BY <2>5, KeysAgree DEF HasBundle
    <3> QED
      BY <3>1, <3>2, <3>3 DEF Identity!TellIdentity, Told
  <2>6. CASE Inspect(s) /\ authority.status = "ready"
             /\ outcome' = [outcome EXCEPT ![s] = Answer(KeyOf(authority))]
    <3>1. HasBundle(authority) /\ authority \in Records
      BY <1>a, <2>6, Memory DEF RecordInHand, ValidRecord
    <3>2. KeyOf(authority) \in Sessions
      BY <3>1 DEF KeyOf, Records, HasBundle, Bundles
    <3> QED
      BY <2>5, <2>6, <3>2 DEF Visible, Identity!Next
  <2>7. CASE (Delivered(s) \/ WriteCache(s)) /\ outcome' = [outcome EXCEPT ![s] = Answer(KeyOf(base[s]))]
    <3>1. HasBundle(base[s]) /\ base[s] \in Records
      BY <1>a, <2>7, Memory DEF InCourse, Delivered, WriteCache
    <3>2. KeyOf(base[s]) \in Sessions
      BY <3>1 DEF KeyOf, Records, HasBundle, Bundles
    <3> QED
      BY <2>5, <2>7, <3>2 DEF Visible, Identity!Next
  <2> QED
    BY <1>a, <1>2, <2>3, <2>4, <2>6, <2>7, AnswerCases
<1> QED
  BY <1>1, <1>2

LEMMA VanishRefines == Inv /\ Vanish => Identity!Next
<1> SUFFICES ASSUME Inv, Vanish PROVE Identity!Next
  OBVIOUS
<1>1. authority' = Absent /\ everStored' = TRUE /\ outcome' = outcome
  BY DEF Vanish, Inv, RecordInHand, TypeOK
<1>2. Phase' = "lost" /\ authority'.bundle = None
  BY <1>1, Constants DEF Phase, HasBundle
<1>3. Identity!Lose
  BY <1>1, <1>2 DEF Identity!Lose
<1> QED
  BY <1>3 DEF Identity!Next

(* The local directory keeps the same promise as the remote store: every    *)
(* step of the sessions, and every loss of the files, is a step of          *)
(* SshIdentity or invisible to it.                                          *)
THEOREM ImplementsIdentity == Spec => IdentitySpec
<1>1. Init => Identity!Init
  BY Constants DEF Init, Identity!Init, Phase, NoOutcome, Missing
<1>2. Inv /\ [Next]_vars => [Identity!Next]_(Identity!vars)
  <2>1. ASSUME UNCHANGED vars PROVE UNCHANGED Identity!vars
    BY <2>1 DEF vars, Identity!vars, Phase, HasBundle
  <2>2. ASSUME Inv, NEW s \in Sessions, Session(s)
        PROVE  Identity!Next \/ UNCHANGED Identity!vars
    BY <2>2, WriteRefines, AnswerRefines
  <2> QED
    BY <2>1, <2>2, VanishRefines DEF Next
<1> QED
  BY <1>1, <1>2, Invariance, PTL DEF Spec, IdentitySpec, Identity!Spec

=============================================================================
