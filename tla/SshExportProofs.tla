-------------------------- MODULE SshExportProofs --------------------------
(***************************************************************************)
(* Proofs about SshExport, for every set of exporters and references and   *)
(* every bound on rotations: the flock makes a refresh exclusive, so the   *)
(* manifest covers the ciphertext in every state, the ciphertext is only   *)
(* replaced by a newer one, and what an exporter reports was current after *)
(* it asked.                                                               *)
(***************************************************************************)
EXTENDS SshExport, TLAPS

(* What an exporter does after it started, with the flock or waiting.       *)
Critical == {"check", "read", "reread", "publish", "verify", "retire"} \cup Refreshing

(* Only the holder of the flock works on the destination.                   *)
HolderWorks == \A e \in Exporters : pc[e] \in Critical => holder = e

(* An exporter that has started knows its reference, one that has not       *)
(* finished has no outcome, and only an install reads the authority.        *)
InCourse ==
    \A e \in Exporters :
        /\ pc[e] # "idle" => req[e].reference \in References
        /\ pc[e] # "done" => outcome[e].status = "none"
        /\ pc[e] \in {"read", "reread", "publish", "verify"} \cup Refreshing
               => req[e].op = "install"

(* The reference's own export, whose manifest lists the ciphertext; a       *)
(* temporary file may lie beside it.                                        *)
Covered(reference) ==
    /\ Owned
    /\ destination.owner = reference
    /\ destination.identity \in destination.hashes

(* The manifest is the exporter's own and lists the ciphertext that is      *)
(* there; the journal lists the one to come as well.                        *)
RefreshInStep ==
    \A e \in Exporters :
        /\ pc[e] \in {"reread", "verify", "retire"} => Verifies(req[e].reference)
        /\ pc[e] \in Refreshing => Covered(req[e].reference)
        /\ pc[e] \in {"replace", "settle"} => read[e] \in destination.hashes
        /\ pc[e] \in {"settle", "verify"} => destination.identity = read[e]

(* What was read is no older than what was current at the start, and a      *)
(* record never returns to an earlier rotation.                             *)
ReadSinceStart ==
    \A e \in Exporters :
        /\ pc[e] # "idle" => began[e] <= authority[req[e].reference].rotation
        /\ pc[e] \in {"publish", "verify"} \cup Refreshing => began[e] <= read[e]

(* What is installed, and what is about to be, was current at some time,    *)
(* and what is about to be installed is at least as new.                    *)
Behind ==
    /\ Owned => destination.identity <= authority[destination.owner].rotation
    /\ \A e \in Exporters :
          /\ pc[e] \in {"publish"} \cup Refreshing
                 => read[e] <= authority[req[e].reference].rotation
          /\ pc[e] \in Refreshing => destination.identity <= read[e]

Inv ==
    /\ TypeOK
    /\ HolderWorks
    /\ InCourse
    /\ RefreshInStep
    /\ CiphertextJournaled
    /\ ReadSinceStart
    /\ Behind
    /\ InstalledIsCurrent

-----------------------------------------------------------------------------
(* None and Foreign are not exports, so a destination is owned exactly when *)
(* it is an export.                                                         *)
LEMMA OwnedIsExport == ASSUME TypeOK PROVE Owned <=> destination \in Exports
  BY NoneAssumption DEF TypeOK, Owned

(* The shape of a step that ends an exporter.                               *)
LEMMA FinishTyped ==
  ASSUME TypeOK, NEW e \in Exporters, NEW status, NEW rotation,
         status \in {"none", "installed", "absent", "removed", "error"},
         rotation \in Rotations, Finish(e, status, rotation)
  PROVE  /\ holder' \in Exporters \cup {None}
         /\ pc' \in [Exporters -> Locations]
         /\ outcome' \in [Exporters -> [status : {"none", "installed", "absent", "removed", "error"},
                                        rotation : Rotations]]
  BY DEF Finish, Goto, TypeOK, Locations

LEMMA GotoTyped ==
  ASSUME TypeOK, NEW e \in Exporters, NEW label \in Locations, Goto(e, label)
  PROVE  pc' \in [Exporters -> Locations]
  BY DEF Goto, TypeOK

LEMMA ManifestTyped ==
  ASSUME TypeOK, NEW e \in Exporters, NEW label, NEW next \in Locations,
         NEW hashes \in SUBSET Rotations, Owned, WriteManifest(e, label, hashes, next)
  PROVE  TypeOK'
<1>1. destination' \in Exports
  BY OwnedIsExport DEF WriteManifest, Exports
<1> QED
  BY <1>1, GotoTyped DEF WriteManifest, TypeOK

LEMMA ZeroIsRotation == 0 \in Rotations
  BY BoundAssumption DEF Rotations

(* Every step keeps the types.                                              *)
LEMMA TypeStep ==
  ASSUME Inv, [Next]_vars
  PROVE  TypeOK'
<1> USE ZeroIsRotation
<1>a. TypeOK
  BY DEF Inv
<1>1. CASE Appear
  BY <1>1, <1>a DEF Appear, TypeOK
<1>2. ASSUME NEW r \in References, LockAuthority(r) PROVE TypeOK'
  BY <1>2, <1>a DEF LockAuthority, TypeOK
<1>3. ASSUME NEW r \in References, ReleaseAuthority(r) PROVE TypeOK'
  BY <1>3, <1>a DEF ReleaseAuthority, TypeOK
<1>4. ASSUME NEW e \in Exporters, Exporter(e) PROVE TypeOK'
  <2>a. /\ pc[e] \in {"reread", "verify", "retire"} \cup Refreshing => Covered(req[e].reference)
        /\ pc[e] # "idle" => req[e].reference \in References
    BY DEF Inv, RefreshInStep, InCourse, Verifies, Covered
  <2>b. Covered(req[e].reference) => /\ Owned
                                     /\ destination \in Exports
                                     /\ destination.identity \in Rotations
    BY <1>a, OwnedIsExport DEF Covered, Exports
  <2>d. Verifies(req[e].reference) => Covered(req[e].reference)
    BY DEF Verifies, Covered
  <2>c. read[e] \in Rotations
    BY <1>a DEF TypeOK
  <2>1. CASE Start(e)
    BY <2>1, <1>a DEF Start, Goto, TypeOK, Locations
  <2>2. CASE Flock(e)
    BY <2>2, <1>a, FinishTyped DEF Flock, Goto, TypeOK, Locations
  <2>3. CASE Check(e)
    <3>1. CASE Finish(e, "error", 0) \/ Finish(e, "absent", 0)
      BY <2>3, <3>1, <1>a, FinishTyped DEF Check, TypeOK
    <3>2. CASE Verifies(req[e].reference) /\ Finish(e, "installed", destination.identity)
      BY <2>3, <3>2, <1>a, <2>b, <2>d, FinishTyped DEF Check, TypeOK
    <3>3. CASE (\E label \in Locations : Goto(e, label)) /\ UNCHANGED <<holder, outcome>>
      BY <2>3, <3>3, <1>a, GotoTyped DEF Check, TypeOK
    <3> QED
      BY <2>3, <3>1, <3>2, <3>3 DEF Check, Verifies, Owned, Locations
  <2>4. CASE Read(e)
    <3>1. authority[req[e].reference].rotation \in Rotations
      BY <2>4, <1>a, <2>a DEF Read, TypeOK
    <3>2. CASE Finish(e, "error", 0) /\ UNCHANGED read
      BY <2>4, <3>2, <1>a, FinishTyped DEF Read, TypeOK
    <3>3. CASE /\ read' = [read EXCEPT ![e] = authority[req[e].reference].rotation]
               /\ \E label \in Locations : Goto(e, label)
               /\ UNCHANGED <<holder, outcome>>
      BY <2>4, <3>1, <3>3, <1>a, GotoTyped DEF Read, TypeOK
    <3> QED
      BY <2>4, <3>2, <3>3 DEF Read, Locations
  <2>5. CASE Journal(e)
    <3>1. Owned /\ {destination.identity, read[e]} \in SUBSET Rotations
      BY <2>5, <2>a, <2>b, <2>c DEF Journal, WriteManifest, Written, Refreshing
    <3>2. "replace" \in Locations
      BY DEF Locations
    <3> QED
      BY <2>5, <3>1, <3>2, <1>a, ManifestTyped DEF Journal
  <2>6. CASE Replace(e)
    <3>1. destination' \in Exports
      BY <2>6, <2>a, <2>b, <2>c DEF Replace, Written, Exports, Refreshing
    <3> QED
      BY <2>6, <3>1, <1>a DEF Replace, Goto, TypeOK, Locations
  <2>7. CASE Settle(e)
    <3>1. Owned /\ {read[e]} \in SUBSET Rotations
      BY <2>7, <2>a, <2>b, <2>c DEF Settle, WriteManifest, Written, Refreshing
    <3>2. "verify" \in Locations
      BY DEF Locations
    <3> QED
      BY <2>7, <3>1, <3>2, <1>a, ManifestTyped DEF Settle
  <2>8. CASE Publish(e)
    <3>1. destination' \in Exports
      BY <2>8, <2>a, <2>c DEF Publish, Staged, Exports
    <3> QED
      BY <2>8, <3>1, <1>a DEF Publish, Goto, TypeOK, Locations
  <2>9. CASE PublishRefused(e)
    BY <2>9, <1>a, FinishTyped DEF PublishRefused, TypeOK
  <2>10. CASE Verify(e)
    BY <2>10, <1>a, <2>b, <2>d, FinishTyped DEF Verify, TypeOK
  <2>11. CASE Retire(e)
    BY <2>11, <1>a, FinishTyped DEF Retire, TypeOK
  <2>12. CASE Crash(e)
    BY <2>12, <1>a, FinishTyped DEF Crash, TypeOK
  <2>13. CASE WriteTemporary(e)
    <3>1. destination' \in Exports
      BY <2>13, <2>a, <2>b DEF WriteTemporary, Exports
    <3> QED
      BY <2>13, <3>1, <1>a DEF WriteTemporary, TypeOK
  <2>14. CASE WriteFails(e)
    <3>1. destination' \in Exports
      BY <2>14, <2>a, <2>b DEF WriteFails, Exports
    <3> QED
      BY <2>14, <3>1, <1>a, FinishTyped DEF WriteFails, TypeOK
  <2> QED
    BY <1>4, <2>1, <2>2, <2>3, <2>4, <2>5, <2>6, <2>7, <2>8, <2>9, <2>10, <2>11, <2>12,
       <2>13, <2>14
    DEF Exporter
<1>5. CASE UNCHANGED vars
  BY <1>5, <1>a DEF vars, TypeOK
<1> QED
  BY <1>1, <1>2, <1>3, <1>4, <1>5 DEF Next

-----------------------------------------------------------------------------
(* What the steps of an exporter leave alone, and who can write the         *)
(* destination at all: the holder of the flock.                             *)
LEMMA OthersUntouched ==
  ASSUME TypeOK, NEW e \in Exporters, Exporter(e), NEW o \in Exporters \ {e}
  PROVE  /\ pc'[o] = pc[o] /\ req'[o] = req[o] /\ began'[o] = began[o]
         /\ read'[o] = read[o] /\ outcome'[o] = outcome[o]
         /\ UNCHANGED authority
         /\ holder = o => holder' = o
  BY NoneAssumption
  DEF TypeOK, Exporter, Start, Flock, Check, Read, WriteTemporary, WriteFails,
      Journal, Replace, Settle, Written, WriteManifest,
      Publish, PublishRefused, Verify, Retire, Crash, Goto, Finish

LEMMA HolderWrites ==
  ASSUME HolderWorks, NEW e \in Exporters, Exporter(e), destination' # destination
  PROVE  holder = e
  BY DEF HolderWorks, Critical, Refreshing, Exporter, Start, Flock, Check, Read, WriteTemporary,
         WriteFails, Journal, Replace, Settle, Written, WriteManifest, Publish, PublishRefused, Verify, Retire, Crash

(* The flock excludes: it is taken only when free, and kept to the end.     *)
LEMMA HolderStep ==
  ASSUME Inv, [Next]_vars
  PROVE  HolderWorks'
<1>a. TypeOK /\ HolderWorks
  BY DEF Inv
<1>1. CASE \/ Appear
           \/ \E r \in References : LockAuthority(r) \/ ReleaseAuthority(r)
           \/ UNCHANGED vars
  BY <1>1, <1>a DEF HolderWorks, Appear, LockAuthority, ReleaseAuthority, vars
<1>2. ASSUME NEW e \in Exporters, Exporter(e) PROVE HolderWorks'
  <2>1. ASSUME NEW o \in Exporters \ {e}, pc'[o] \in Critical PROVE holder' = o
    BY <1>a, <1>2, <2>1, OthersUntouched DEF HolderWorks
  <2>2. ASSUME pc'[e] \in Critical PROVE holder' = e
    <3>1. CASE pc[e] \in Critical
      BY <1>a, <1>2, <2>2, <3>1
      DEF HolderWorks, TypeOK, Critical, Refreshing, Exporter, Start, Flock, Check, Read, WriteTemporary,
          WriteFails, Journal, Replace, Settle, Written, WriteManifest, Publish, PublishRefused, Verify, Retire, Crash,
          Goto, Finish
    <3>2. CASE pc[e] \notin Critical
      BY <1>a, <1>2, <2>2, <3>2
      DEF TypeOK, Critical, Refreshing, Exporter, Start, Flock, Check, Read, WriteTemporary,
          WriteFails, Journal, Replace, Settle, Written, WriteManifest, Publish, PublishRefused, Verify, Retire, Crash,
          Goto, Finish
    <3> QED
      BY <3>1, <3>2
  <2> QED
    BY <2>1, <2>2 DEF HolderWorks
<1> QED
  BY <1>1, <1>2 DEF Next

LEMMA InCourseStep ==
  ASSUME Inv, [Next]_vars
  PROVE  InCourse'
<1>a. TypeOK /\ InCourse
  BY DEF Inv
<1>1. CASE \/ Appear
           \/ \E r \in References : LockAuthority(r) \/ ReleaseAuthority(r)
           \/ UNCHANGED vars
  BY <1>1, <1>a DEF InCourse, Appear, LockAuthority, ReleaseAuthority, vars
<1>2. ASSUME NEW e \in Exporters, Exporter(e), NEW o \in Exporters
      PROVE  /\ pc'[o] # "idle" => req'[o].reference \in References
             /\ pc'[o] # "done" => outcome'[o].status = "none"
             /\ pc'[o] \in {"read", "reread", "publish", "verify"} \cup Refreshing
                    => req'[o].op = "install"
  <2>1. CASE o # e
    BY <1>2, <1>a, <2>1, OthersUntouched DEF InCourse
  <2>2. CASE o = e
    BY <1>2, <1>a, <2>2
    DEF InCourse, TypeOK, Refreshing, Exporter, Start, Flock, Check, Read, WriteTemporary, WriteFails,
        Journal, Replace, Settle, Written, WriteManifest, Publish, PublishRefused, Verify, Retire, Crash, Goto, Finish
  <2> QED
    BY <2>1, <2>2
<1> QED
  BY <1>1, <1>2 DEF Next, InCourse

(* A record keeps its rotation or takes the next one.                       *)
LEMMA RotationsGrow ==
  ASSUME TypeOK, [Next]_vars, NEW r \in References
  PROVE  /\ authority[r].rotation \in Rotations
         /\ authority'[r].rotation \in Rotations
         /\ authority[r].rotation <= authority'[r].rotation
<1>1. authority[r].rotation \in Rotations /\ authority[r].rotation \in Nat
  BY DEF TypeOK, Rotations
<1>2. CASE \E n \in References : LockAuthority(n) \/ ReleaseAuthority(n)
  BY <1>1, <1>2 DEF LockAuthority, ReleaseAuthority, TypeOK
<1>3. CASE UNCHANGED authority
  BY <1>1, <1>3
<1>4. CASE \E e \in Exporters : Exporter(e)
  BY <1>4, <1>3
  DEF Exporter, Start, Flock, Check, Read, WriteTemporary, WriteFails,
      Journal, Replace, Settle, Written, WriteManifest, Publish, PublishRefused, Verify, Retire, Crash
<1> QED
  BY <1>2, <1>3, <1>4 DEF Next, Appear, vars

(* One exporter's own part of RefreshInStep, in the state after its step.   *)
LEMMA RefreshOwn ==
  ASSUME Inv, NEW e \in Exporters, Exporter(e)
  PROVE  /\ pc'[e] \in {"reread", "verify", "retire"} => Verifies(req[e].reference)'
         /\ pc'[e] \in Refreshing => Covered(req[e].reference)'
         /\ pc'[e] \in {"replace", "settle"} => read'[e] \in destination'.hashes
         /\ pc'[e] \in {"settle", "verify"} => destination'.identity = read'[e]
<1>a. TypeOK /\ InCourse /\ RefreshInStep
  BY DEF Inv
<1>b. Owned => /\ destination \in Exports
               /\ destination.identity \in Rotations
  BY <1>a, OwnedIsExport DEF Exports
<1>c. read[e] \in Rotations
  BY <1>a DEF TypeOK
<1>d. \A d \in Exports : d \notin {None, Foreign}
  BY NoneAssumption
<1>e. pc[e] \in Refreshing => Covered(req[e].reference)
  BY <1>a DEF RefreshInStep
<1>1. CASE Journal(e)
  <2>1. Covered(req[e].reference)
    BY <1>1, <1>e DEF Journal, WriteManifest, Written, Refreshing
  <2>2. destination' \in Exports
    BY <1>1, <1>b, <1>c, <2>1 DEF Journal, WriteManifest, Exports, Covered
  <2> QED
    BY <1>1, <1>a, <1>b, <1>d, <2>1, <2>2
    DEF Journal, WriteManifest, Goto, Covered, Owned, TypeOK, Exports
<1>2. CASE Replace(e)
  <2>1. Covered(req[e].reference) /\ read[e] \in destination.hashes
    BY <1>2, <1>a, <1>e DEF Replace, Written, RefreshInStep, Refreshing
  <2>2. destination' \in Exports
    BY <1>2, <1>b, <1>c, <2>1 DEF Replace, Exports, Covered
  <2> QED
    BY <1>2, <1>a, <1>b, <1>d, <2>1, <2>2
    DEF Replace, Goto, Covered, Owned, TypeOK, Exports
<1>3. CASE Settle(e)
  <2>1. Covered(req[e].reference) /\ destination.identity = read[e]
    BY <1>3, <1>a, <1>e DEF Settle, WriteManifest, Written, RefreshInStep, Refreshing
  <2>2. destination' \in Exports
    BY <1>3, <1>b, <1>c, <2>1 DEF Settle, WriteManifest, Exports, Covered
  <2> QED
    BY <1>3, <1>a, <1>b, <1>d, <2>1, <2>2
    DEF Settle, WriteManifest, Goto, Covered, Verifies, Owned, TypeOK, Exports
<1>4. CASE Publish(e)
  <2>1. req[e].reference \in References
    BY <1>4, <1>a DEF Publish, InCourse
  <2>2. destination' \in Exports
    BY <1>4, <1>c, <2>1 DEF Publish, Staged, Exports
  <2> QED
    BY <1>4, <1>a, <1>d, <2>2 DEF Publish, Staged, Goto, Verifies, Owned, TypeOK, Refreshing
<1>5. CASE WriteTemporary(e)
  <2>1. Covered(req[e].reference)
    BY <1>5, <1>e DEF WriteTemporary
  <2>2. destination' \in Exports
    BY <1>5, <1>b, <2>1 DEF WriteTemporary, Exports, Covered
  <2> QED
    BY <1>5, <1>a, <1>b, <1>d, <2>1, <2>2
    DEF WriteTemporary, RefreshInStep, Covered, Owned, Exports, Refreshing
<1>6. CASE \/ Start(e) \/ Flock(e) \/ WriteFails(e) \/ PublishRefused(e) \/ Verify(e)
           \/ Retire(e) \/ Crash(e)
  BY <1>6, <1>a
  DEF Start, Flock, WriteFails, PublishRefused, Verify, Retire, Crash, Goto, Finish, TypeOK,
      Refreshing
<1>7. CASE Check(e)
  BY <1>7, <1>a DEF Check, Goto, Finish, TypeOK, Refreshing, Verifies, Owned
<1>8. CASE Read(e)
  BY <1>8, <1>a
  DEF Read, Goto, Finish, TypeOK, Refreshing, RefreshInStep, Verifies, Covered, Owned
<1> QED
  BY <1>1, <1>2, <1>3, <1>4, <1>5, <1>6, <1>7, <1>8 DEF Exporter

(* What an exporter found of its own stays so while others work.            *)
LEMMA RefreshStep ==
  ASSUME Inv, [Next]_vars
  PROVE  RefreshInStep'
<1>a. TypeOK /\ HolderWorks /\ RefreshInStep
  BY DEF Inv
<1>1. CASE Appear
  BY <1>1, <1>a DEF Appear, RefreshInStep, Verifies, Covered, Owned, Refreshing
<1>2. CASE UNCHANGED <<destination, pc, req, read>>
  BY <1>2, <1>a DEF RefreshInStep, Verifies, Covered, Owned
<1>3. ASSUME NEW e \in Exporters, Exporter(e), NEW o \in Exporters
      PROVE  /\ pc'[o] \in {"reread", "verify", "retire"} => Verifies(req[o].reference)'
             /\ pc'[o] \in Refreshing => Covered(req[o].reference)'
             /\ pc'[o] \in {"replace", "settle"} => read'[o] \in destination'.hashes
             /\ pc'[o] \in {"settle", "verify"} => destination'.identity = read'[o]
  <2>1. CASE o = e
    BY <1>3, <2>1, RefreshOwn
  <2>2. CASE o # e /\ destination' = destination
    BY <1>3, <1>a, <2>2, OthersUntouched DEF RefreshInStep, Verifies, Covered, Owned
  <2>3. CASE o # e /\ destination' # destination
    <3>1. pc'[o] \notin Critical
      BY <1>3, <1>a, <2>3, OthersUntouched, HolderWrites DEF HolderWorks
    <3> QED
      BY <3>1 DEF Critical, Refreshing
  <2> QED
    BY <2>1, <2>2, <2>3
<1> QED
  BY <1>1, <1>2, <1>3 DEF Next, LockAuthority, ReleaseAuthority, RefreshInStep, vars

(* Which steps write the files of the destination, and what they find.      *)
LEMMA Writers ==
  ASSUME Inv, NEW e \in Exporters, Exporter(e), destination' # destination,
         destination' # None
  PROVE  \/ Publish(e)
         \/ /\ Journal(e) \/ Replace(e) \/ Settle(e) \/ WriteTemporary(e) \/ WriteFails(e)
            /\ pc[e] \in Refreshing
            /\ Covered(req[e].reference)
  BY DEF Inv, RefreshInStep, Refreshing, Exporter, Start, Flock, Check, Read, WriteTemporary,
         WriteFails, Journal, Replace, Settle, WriteManifest, Written, PublishRefused, Verify,
         Retire, Crash

(* The manifest covers the ciphertext in every state.                       *)
LEMMA JournaledStep ==
  ASSUME Inv, [Next]_vars
  PROVE  CiphertextJournaled'
<1>a. TypeOK /\ RefreshInStep /\ CiphertextJournaled
  BY DEF Inv
<1>1. CASE UNCHANGED destination
  BY <1>1, <1>a DEF CiphertextJournaled, Owned
<1>2. CASE destination' \in {None, Foreign}
  BY <1>2 DEF CiphertextJournaled, Owned
<1>3. ASSUME NEW e \in Exporters, Exporter(e), destination' # destination,
             destination' # None
      PROVE  CiphertextJournaled'
  <2>1. CASE Journal(e) \/ Replace(e) \/ Settle(e) \/ WriteTemporary(e) \/ Publish(e)
    <3>1. pc'[e] \in {"verify"} \cup Refreshing
      BY <2>1, <1>a
      DEF TypeOK, WriteTemporary, Journal, Replace, Settle, WriteManifest, Publish, Goto,
          Refreshing
    <3>2. Verifies(req[e].reference)' \/ Covered(req[e].reference)'
      BY <1>3, <3>1, RefreshOwn
    <3> QED
      BY <3>2 DEF CiphertextJournaled, Verifies, Covered
  <2>2. CASE WriteFails(e) /\ Covered(req[e].reference)
    <3>1. /\ destination' = [destination EXCEPT !.temporary = FALSE]
          /\ destination \in Exports
      BY <2>2, <1>a, OwnedIsExport DEF WriteFails, Covered
    <3> QED
      BY <3>1, <2>2 DEF CiphertextJournaled, Covered, Exports
  <2> QED
    BY <1>3, <2>1, <2>2, Writers
<1> QED
  BY <1>1, <1>2, <1>3 DEF Next, Appear, LockAuthority, ReleaseAuthority, vars

LEMMA ReadStep ==
  ASSUME Inv, [Next]_vars
  PROVE  ReadSinceStart'
<1>a. TypeOK /\ InCourse /\ ReadSinceStart
  BY DEF Inv
<1>b. Rotations \subseteq Nat
  BY DEF Rotations
<1> SUFFICES ASSUME NEW o \in Exporters
             PROVE  /\ pc'[o] # "idle" => began'[o] <= authority'[req'[o].reference].rotation
                    /\ pc'[o] \in {"publish", "verify"} \cup Refreshing => began'[o] <= read'[o]
  BY DEF ReadSinceStart
<1>c. began[o] \in Nat /\ (pc[o] # "idle" => req[o].reference \in References)
  BY <1>a, <1>b DEF TypeOK, InCourse
<1>2. CASE UNCHANGED <<pc, req, began, read>>
  <2>1. CASE pc[o] # "idle"
    <3>1. /\ authority[req[o].reference].rotation \in Nat
          /\ authority'[req[o].reference].rotation \in Nat
          /\ authority[req[o].reference].rotation <= authority'[req[o].reference].rotation
      BY <1>a, <1>b, <1>c, <2>1, RotationsGrow
    <3> QED
      BY <1>2, <1>a, <1>c, <2>1, <3>1 DEF ReadSinceStart
  <2> QED
    BY <1>2, <2>1, <1>a DEF Refreshing
<1>3. ASSUME NEW e \in Exporters, Exporter(e)
      PROVE  /\ pc'[o] # "idle" => began'[o] <= authority'[req'[o].reference].rotation
             /\ pc'[o] \in {"publish", "verify"} \cup Refreshing => began'[o] <= read'[o]
  <2>1. CASE o # e
    BY <1>3, <1>a, <2>1, OthersUntouched DEF ReadSinceStart
  <2>2. CASE o = e /\ Start(e)
    <3>1. PICK r \in References : /\ req'[o].reference = r
                                  /\ began'[o] = authority[r].rotation
      BY <2>2, <1>a DEF Start, TypeOK
    <3>2. authority[r].rotation \in Nat
      BY <1>a, <1>b DEF TypeOK
    <3> QED
      BY <2>2, <3>1, <3>2, <1>a DEF Start, Goto, TypeOK, Refreshing
  <2>3. CASE o = e /\ Read(e)
    BY <1>c, <2>3, <1>a DEF Read, Goto, Finish, TypeOK, Refreshing, ReadSinceStart
  <2>4. CASE o = e /\ ~Start(e) /\ ~Read(e)
    BY <1>3, <1>a, <2>4
    DEF Exporter, Flock, Check, WriteTemporary, WriteFails, Journal, Replace,
        Settle, Written, WriteManifest, Publish, PublishRefused,
        Verify, Retire, Crash, Goto, Finish, TypeOK, Refreshing, ReadSinceStart
  <2> QED
    BY <2>1, <2>2, <2>3, <2>4
<1> QED
  BY <1>2, <1>3 DEF Next, Appear, LockAuthority, ReleaseAuthority, vars

(* A ciphertext that is installed, or about to be, was current at some time.*)
LEMMA BehindStep ==
  ASSUME Inv, [Next]_vars
  PROVE  Behind'
<1>a. TypeOK /\ InCourse /\ RefreshInStep /\ Behind /\ HolderWorks
  BY DEF Inv
<1>b. Rotations \subseteq Nat
  BY DEF Rotations
<1>c. Owned => /\ destination \in Exports /\ destination.owner \in References
               /\ destination.identity \in Nat
  BY <1>a, <1>b, OwnedIsExport DEF Exports
<1>d. \A o \in Exporters : /\ read[o] \in Nat
                           /\ pc[o] # "idle" => req[o].reference \in References
  BY <1>a, <1>b DEF TypeOK, InCourse
<1>e. \A r \in References : /\ authority[r].rotation \in Nat
                            /\ authority'[r].rotation \in Nat
                            /\ authority[r].rotation <= authority'[r].rotation
  BY <1>a, <1>b, RotationsGrow
<1>f. \A o \in Exporters :
          pc[o] \in Refreshing => /\ Covered(req[o].reference)
                                  /\ req[o].reference = destination.owner
  BY <1>a DEF RefreshInStep, Covered
<1>1. CASE UNCHANGED <<destination, pc, req, read>>
  <2>1. Owned' => destination'.identity <= authority'[destination'.owner].rotation
    BY <1>1, <1>a, <1>c, <1>e DEF Behind, Owned
  <2>2. ASSUME NEW o \in Exporters
        PROVE  /\ pc'[o] \in {"publish"} \cup Refreshing
                      => read'[o] <= authority'[req'[o].reference].rotation
               /\ pc'[o] \in Refreshing => destination'.identity <= read'[o]
    <3>1. pc[o] \in {"publish"} \cup Refreshing => req[o].reference \in References
      BY <1>d DEF Refreshing
    <3> QED
      BY <1>1, <1>a, <1>d, <1>e, <3>1 DEF Behind
  <2> QED
    BY <2>1, <2>2 DEF Behind
<1>2. CASE Appear
  <2>1. \A o \in Exporters : pc[o] \notin Refreshing
    BY <1>2, <1>f DEF Appear, Covered, Owned
  <2> QED
    BY <1>2, <1>a, <2>1 DEF Appear, Behind, Owned
<1>3. ASSUME NEW e \in Exporters, Exporter(e) PROVE Behind'
  <2>0. UNCHANGED authority
    BY <1>3
    DEF Exporter, Start, Flock, Check, Read, WriteTemporary, WriteFails, Journal, Replace, Settle,
        WriteManifest, Publish, PublishRefused, Verify, Retire, Crash
  <2>1. Owned' => destination'.identity <= authority'[destination'.owner].rotation
    <3>1. CASE destination' = destination \/ destination' = None
      BY <3>1, <2>0, <1>a DEF Behind, Owned
    <3>2. CASE Publish(e)
      <4>1. /\ destination'.owner = req[e].reference
            /\ destination'.identity = read[e]
            /\ pc[e] = "publish"
        BY <3>2 DEF Publish, Staged
      <4> QED
        BY <4>1, <2>0, <1>a DEF Behind
    <3>3. CASE /\ Journal(e) \/ Settle(e) \/ WriteTemporary(e) \/ WriteFails(e)
               /\ pc[e] \in Refreshing
      <4>1. /\ destination'.owner = destination.owner
            /\ destination'.identity = destination.identity
            /\ Owned
        BY <3>3, <1>c, <1>f
        DEF Journal, Settle, WriteManifest, WriteTemporary, WriteFails, Exports, Covered
      <4> QED
        BY <4>1, <2>0, <1>a DEF Behind
    <3>4. CASE Replace(e) /\ pc[e] \in Refreshing
      <4>1. /\ destination'.owner = req[e].reference
            /\ destination'.identity = read[e]
        BY <3>4, <1>c, <1>f DEF Replace, Exports, Covered
      <4> QED
        BY <3>4, <4>1, <2>0, <1>a DEF Behind
    <3> QED
      BY <1>3, <3>1, <3>2, <3>3, <3>4, Writers
  <2>2. ASSUME NEW o \in Exporters \ {e}
        PROVE  /\ pc'[o] \in {"publish"} \cup Refreshing
                      => read'[o] <= authority'[req'[o].reference].rotation
               /\ pc'[o] \in Refreshing => destination'.identity <= read'[o]
    <3>1. pc'[o] = pc[o] /\ read'[o] = read[o] /\ req'[o] = req[o]
      BY <1>a, <1>3, OthersUntouched
    <3>2. pc[o] \in Refreshing => destination' = destination
      BY <1>3, <1>a, HolderWrites DEF HolderWorks, Critical
    <3> QED
      BY <1>a, <2>0, <3>1, <3>2 DEF Behind
  <2>3. /\ pc'[e] \in {"publish"} \cup Refreshing
               => read'[e] <= authority'[req'[e].reference].rotation
        /\ pc'[e] \in Refreshing => destination'.identity <= read'[e]
    <3>1. CASE Read(e)
      <4>1. CASE pc'[e] \in {"publish", "journal"}
        <5>1. /\ read'[e] = authority[req[e].reference].rotation
              /\ req' = req /\ destination' = destination
          BY <3>1, <4>1, <1>a DEF Read, Finish, Goto, TypeOK
        <5>2. pc'[e] = "journal" => Verifies(req[e].reference)
          BY <3>1, <1>a DEF Read, Finish, Goto, TypeOK, RefreshInStep
        <5>3. req[e].reference \in References
          BY <3>1, <1>d DEF Read
        <5> QED
          BY <4>1, <5>1, <5>2, <5>3, <2>0, <1>a, <1>e DEF Behind, Verifies, Refreshing
      <4>2. CASE pc'[e] \notin {"publish", "journal"}
        BY <3>1, <4>2, <1>a DEF Read, Finish, Goto, TypeOK, Refreshing
      <4> QED
        BY <4>1, <4>2
    <3>2. CASE pc[e] \in Refreshing /\ pc'[e] \in Refreshing
      <4>1. Journal(e) \/ Replace(e) \/ WriteTemporary(e)
        BY <3>2, <1>3, <1>a
        DEF Exporter, Start, Flock, Check, Read, WriteFails, Settle, Written, WriteManifest,
            Publish, PublishRefused, Verify, Retire, Crash, Goto, Finish, TypeOK, Refreshing
      <4>2. /\ read' = read /\ req' = req
            /\ destination'.identity \in {destination.identity, read[e]}
        BY <4>1, <3>2, <1>c, <1>f
        DEF Journal, Replace, WriteManifest, WriteTemporary, Exports, Covered
      <4> QED
        BY <3>2, <4>2, <2>0, <1>a, <1>d DEF Behind
    <3>3. CASE ~Read(e) /\ pc[e] \notin Refreshing
      BY <3>3, <1>3, <1>a
      DEF Exporter, Start, Flock, Check, WriteTemporary, WriteFails, Journal, Replace, Settle,
          Written, WriteManifest, Publish, PublishRefused, Verify, Retire, Crash, Goto, Finish,
          TypeOK, Refreshing
    <3>4. CASE pc[e] \in Refreshing /\ pc'[e] \notin Refreshing
      BY <3>4, <1>3, <1>a
      DEF Exporter, Start, Flock, Check, Read, WriteTemporary, WriteFails, Journal, Replace, Settle,
          Written, WriteManifest, Publish, PublishRefused, Verify, Retire, Crash, Goto, Finish,
          TypeOK, Refreshing
    <3> QED
      BY <3>1, <3>2, <3>3, <3>4
  <2> QED
    BY <2>1, <2>2, <2>3 DEF Behind
<1> QED
  BY <1>1, <1>2, <1>3 DEF Next, LockAuthority, ReleaseAuthority, vars

LEMMA CurrentStep ==
  ASSUME Inv, [Next]_vars
  PROVE  InstalledIsCurrent'
<1>a. TypeOK /\ InCourse /\ RefreshInStep /\ ReadSinceStart /\ InstalledIsCurrent
  BY DEF Inv
<1>1. CASE UNCHANGED <<req, outcome, began>>
  BY <1>1, <1>a DEF InstalledIsCurrent
<1>2. ASSUME NEW e \in Exporters, Exporter(e), NEW o \in Exporters,
             req'[o].op = "install", outcome'[o].status = "installed"
      PROVE  outcome'[o].rotation >= began'[o]
  <2>1. CASE o # e
    BY <1>2, <1>a, <2>1, OthersUntouched DEF InstalledIsCurrent
  <2>2. CASE o = e /\ Verify(e)
    <3>1. destination.identity = read[e] /\ began[e] <= read[e]
      BY <1>a, <2>2 DEF Verify, RefreshInStep, ReadSinceStart
    <3>2. began[e] \in Nat /\ read[e] \in Nat
      BY <1>a DEF TypeOK, Rotations
    <3> QED
      BY <1>2, <1>a, <2>2, <3>1, <3>2 DEF Verify, Finish, TypeOK
  <2>3. CASE o = e /\ ~Verify(e)
    BY <1>2, <1>a, <2>3
    DEF Exporter, Start, Flock, Check, Read, WriteTemporary, WriteFails,
      Journal, Replace, Settle, Written, WriteManifest, Publish,
        PublishRefused, Retire, Crash, Goto, Finish, TypeOK, InCourse, InstalledIsCurrent
  <2> QED
    BY <1>2, <2>1, <2>2, <2>3
<1> QED
  BY <1>1, <1>2 DEF Next, Appear, LockAuthority, ReleaseAuthority, vars, InstalledIsCurrent

-----------------------------------------------------------------------------
LEMMA InvInit == Init => Inv
<1> SUFFICES ASSUME Init PROVE Inv
  OBVIOUS
<1>1. TypeOK
  BY ZeroIsRotation DEF Init, TypeOK, Locations, Operations
<1> QED
  BY <1>1
  DEF Init, Inv, HolderWorks, InCourse, RefreshInStep, ReadSinceStart, CiphertextJournaled,
      Behind, InstalledIsCurrent, Owned, Critical, Refreshing

LEMMA InvStep == Inv /\ [Next]_vars => Inv'
  BY TypeStep, HolderStep, InCourseStep, RefreshStep, JournaledStep, ReadStep, BehindStep,
     CurrentStep
  DEF Inv

(* The invariant is inductive, and so holds in every reachable state.       *)
THEOREM Invariance == Spec => []Inv
  BY InvInit, InvStep, PTL DEF Spec

(* The types of the module's variables hold in every behaviour.             *)
THEOREM TypeCorrect == Spec => []TypeOK
  BY Invariance, PTL DEF Inv

(* Whatever step a refresh stops in, also by a kill, the manifest of the    *)
(* export lists the ciphertext that is there.                               *)
THEOREM CrashKeepsJournal == Spec => []CiphertextJournaled
  BY Invariance, PTL DEF Inv

(* No step puts an older ciphertext over a newer one.                       *)
THEOREM RefreshAdvances == Spec => CiphertextAdvances
<1> DEFINE Newer == Owned /\ Owned' => destination'.identity >= destination.identity
<1>1. Inv /\ [Next]_vars => [Newer]_vars
  <2> SUFFICES ASSUME Inv, Next, Owned, Owned'
               PROVE  destination'.identity >= destination.identity
    BY DEF vars
  <2>a. TypeOK /\ RefreshInStep /\ Behind
    BY DEF Inv
  <2>b. destination \in Exports /\ destination.identity \in Nat
    BY <2>a, OwnedIsExport DEF Exports, Rotations
  <2>1. CASE destination' = destination
    BY <2>1, <2>b
  <2>2. ASSUME NEW e \in Exporters, Exporter(e), destination' # destination
        PROVE  destination'.identity >= destination.identity
    <3>1. /\ Journal(e) \/ Replace(e) \/ Settle(e) \/ WriteTemporary(e) \/ WriteFails(e)
          /\ pc[e] \in Refreshing
      BY <2>2, Writers DEF Publish, Owned
    <3>2. destination'.identity \in {destination.identity, read[e]}
      BY <3>1, <2>b
      DEF Journal, Replace, Settle, WriteManifest, WriteTemporary, WriteFails, Exports
    <3>3. destination.identity <= read[e] /\ read[e] \in Nat
      BY <3>1, <2>a DEF Behind, TypeOK, Rotations
    <3> QED
      BY <2>b, <3>2, <3>3
  <2> QED
    BY <2>1, <2>2 DEF Next, Appear, LockAuthority, ReleaseAuthority, Owned
<1> QED
  BY <1>1, Invariance, PTL DEF Spec, CiphertextAdvances

(* An install that answers "installed" left a ciphertext that was current   *)
(* when it was asked for, or later, however the authority rotates meanwhile.*)
THEOREM InstallsCurrent == Spec => []InstalledIsCurrent
  BY Invariance, PTL DEF Inv

(* No step takes a destination from its owner but the owner's own remove,   *)
(* and a directory that no export made is never touched.                    *)
THEOREM OwnerKeeps == Spec => OnlyOwnerChanges
<1> DEFINE Mine(d, r) == IF d = Foreign THEN r = Foreign ELSE d # None /\ d.owner = r
           Kept == \A r \in References \cup {Foreign} :
                       Mine(destination, r) /\ ~Mine(destination', r) =>
                           \E e \in Exporters : /\ pc[e] = "retire" /\ pc'[e] = "done"
                                                /\ req[e].reference = r
<1>1. Inv /\ [Next]_vars => [Kept]_vars
  <2> SUFFICES ASSUME Inv, Next PROVE Kept
    BY DEF vars
  <2>a. TypeOK /\ RefreshInStep
    BY DEF Inv
  <2>1. CASE UNCHANGED destination
    BY <2>1
  <2>2. CASE Appear
    BY <2>2, NoneAssumption DEF Appear
  <2>3. ASSUME NEW e \in Exporters, Exporter(e) PROVE Kept
    <3>1. CASE Journal(e) \/ Replace(e) \/ Settle(e) \/ WriteTemporary(e) \/ WriteFails(e)
      <4>1. Covered(req[e].reference)
        BY <3>1, <2>a
        DEF Journal, Replace, Settle, WriteManifest, Written, WriteTemporary, WriteFails,
            RefreshInStep, Refreshing
      <4>2. destination \in Exports /\ destination.identity \in Rotations /\ read[e] \in Rotations
        BY <4>1, <2>a, OwnedIsExport DEF Covered, Exports, TypeOK
      <4>3. destination' \in Exports /\ destination'.owner = destination.owner
        BY <3>1, <4>2
        DEF Journal, Replace, Settle, WriteManifest, WriteTemporary, WriteFails, Exports
      <4> QED
        BY <4>2, <4>3, NoneAssumption
    <3>2. CASE Publish(e)
      BY <3>2, NoneAssumption DEF Publish
    <3>3. CASE Retire(e)
      <4>1. Verifies(req[e].reference) /\ pc[e] = "retire" /\ pc'[e] = "done"
        BY <3>3, <2>a DEF Retire, RefreshInStep, Finish, Goto, TypeOK
      <4> QED
        BY <4>1 DEF Verifies, Owned
    <3> QED
      BY <2>1, <2>3, <3>1, <3>2, <3>3
      DEF Exporter, Start, Flock, Check, Read, PublishRefused, Verify, Crash
  <2> QED
    BY <2>1, <2>2, <2>3 DEF Next, LockAuthority, ReleaseAuthority
<1> QED
  BY <1>1, Invariance, PTL DEF Spec, OnlyOwnerChanges

=============================================================================
