--------------------------- MODULE AbsenceProofs ---------------------------
(***************************************************************************)
(* Proofs about Absence, for any number of consumers, registrations, items *)
(* and pages, and however often the account changes meanwhile: a recorded  *)
(* state refuses the attestation, and an item that was there when its list *)
(* was read is seen, but for the shift that AttestationCovers names.       *)
(***************************************************************************)
EXTENDS Absence, FiniteSetTheorems, SequenceTheorems, TLAPS

Listed == request.consumers \cup request.registrations

Running == pc \notin {"idle", "refused"}

(* The number of items in L before index i.                                 *)
Rank(L, i) == Cardinality({j \in L : j < i})

(* The items of a list that the pages read so far stand for, and those that *)
(* nobody asked about.                                                      *)
Behind(l) ==
    {i \in live[l] : IF Numbered THEN Rank(live[l], i) < pages * PageSize ELSE i <= cursor}

Clean(l) == {i \in live[l] : made[l][i] \notin Expected(l)}

(* The states: what stood since the start and was looked at is not listed.  *)
Unrecorded(e) ==
    /\ <<e, "local">> \notin stood
    /\ backend # "local" => <<e, "remote">> \notin stood

StatesRead ==
    /\ \A e \in Entries, p \in Places : <<e, p>> \in stood => states[e][p] = "present"
    /\ pc \in {"remote", "copy"} =>
           reading \in Entries /\ backend # "local" /\ <<reading, "local">> \notin stood
    /\ Running => \A e \in Listed \ unread :
           Unrecorded(e) \/ (pc \in {"remote", "copy"} /\ e = reading)
    /\ Running /\ pc \notin {"local", "remote", "copy"} => unread = {}

(* Between lists nothing is left of the last one.                           *)
Turned ==
    /\ pc \in {"idle", "local", "remote", "copy", "verified", "created"} \/ pages = 0 =>
           pages = 0 /\ cursor = 0 /\ count = 0 /\ total = None
    /\ pc \in Lists => cursor <= Len(made[pc])
    /\ AllAtOnce => pages = 0
    /\ count <= pages * PageSize

(* The account that is read is the deployment's.                            *)
Verifiable ==
    Running => ~overridden /\ (Registered <=> request.registrations # {})
               /\ (pc = "keys" => Registered)

(* While a list is read: with exact answers everything behind is clean;     *)
(* with declared totals alone, what was counted is at most what is clean,   *)
(* as long as nothing was removed, or nothing made and the total holds.     *)
Reading(l) ==
    /\ ~Counts /\ ~Shifted(l) => Behind(l) \subseteq Clean(l)
    /\ provider = "hcloud" /\ ~Shifted(l) => pages * PageSize <= Cardinality(live[l])
    /\ Counts /\ "removed" \notin moved[l] => count <= Cardinality(Behind(l) \cap Clean(l))
    /\ Counts /\ pages > 0 =>
           /\ total \in Nat
           /\ "made" \notin moved[l] =>
                  /\ Cardinality(live[l]) <= total
                  /\ Cardinality(live[l]) = total => count <= Cardinality(Behind(l) \cap Clean(l))

(* A list that was read.                                                    *)
Covered(l) == \A i \in live[l] : made[l][i] \in Expected(l) => made[l][i] \in late[l] \/ Shifted(l)

ListsRead ==
    /\ pc \in Lists => Reading(pc)
    /\ pc \in {"keys", "verified", "created"} => Covered("machines")
    /\ pc \in {"verified", "created"} => Covered("keys")

Inv ==
    /\ TypeOK
    /\ StatesRead
    /\ Verifiable
    /\ Turned
    /\ ListsRead

-----------------------------------------------------------------------------
(* Ranks.                                                                   *)

LEMMA RankFacts ==
  ASSUME NEW L \in SUBSET Nat, IsFiniteSet(L)
  PROVE  /\ Cardinality(L) \in Nat
         /\ \A i \in Nat : Rank(L, i) \in Nat /\ Rank(L, i) <= Cardinality(L)
         /\ \A i \in L : Rank(L, i) < Cardinality(L)
         /\ \A i, j \in Nat : i <= j => Rank(L, i) <= Rank(L, j)
         /\ \A i \in L : \A j \in Nat : i < j => Rank(L, i) < Rank(L, j)
<1> DEFINE B(i) == {j \in L : j < i}
<1>0. \A i \in L : i \in Nat
  OBVIOUS
<1>1. ASSUME NEW i \in Nat
      PROVE  IsFiniteSet(B(i)) /\ Cardinality(B(i)) \in Nat /\ Cardinality(B(i)) <= Cardinality(L)
  BY FS_Subset, FS_CardinalityType
<1>2. ASSUME NEW i \in Nat, NEW j \in Nat, i <= j PROVE Cardinality(B(i)) <= Cardinality(B(j))
  <2>1. B(i) \in SUBSET B(j)
    <3> SUFFICES ASSUME NEW k \in L, k < i PROVE k < j
      OBVIOUS
    <3> QED
      BY <1>0, <1>2
  <2> QED
    BY <1>1, <2>1, FS_Subset
<1>3. ASSUME NEW i \in L PROVE IsFiniteSet(B(i) \cup {i}) /\ Cardinality(B(i) \cup {i}) = Cardinality(B(i)) + 1
  <2>1. i \notin B(i)
    OBVIOUS
  <2> QED
    BY <1>1, <2>1, FS_AddElement
<1>4. ASSUME NEW i \in L PROVE Cardinality(B(i)) < Cardinality(L)
  <2>1. B(i) \cup {i} \in SUBSET L
    OBVIOUS
  <2>2. Cardinality(B(i) \cup {i}) <= Cardinality(L)
    BY <2>1, FS_Subset
  <2>3. Cardinality(B(i)) \in Nat /\ Cardinality(L) \in Nat
    BY <1>0, <1>1, FS_CardinalityType
  <2> QED
    BY <1>3, <2>2, <2>3
<1>5. ASSUME NEW i \in L, NEW j \in Nat, i < j PROVE Cardinality(B(i)) < Cardinality(B(j))
  <2>1. B(i) \cup {i} \in SUBSET B(j)
    <3> SUFFICES ASSUME NEW k \in L, k < i \/ k = i PROVE k < j
      OBVIOUS
    <3> QED
      BY <1>0, <1>5
  <2>2. Cardinality(B(i) \cup {i}) <= Cardinality(B(j))
    BY <1>1, <2>1, FS_Subset
  <2>3. Cardinality(B(i)) \in Nat /\ Cardinality(B(j)) \in Nat
    BY <1>0, <1>1
  <2> QED
    BY <1>3, <2>2, <2>3
<1> QED
  BY <1>1, <1>2, <1>4, <1>5, FS_CardinalityType DEF Rank

(* A set of at most n ranks has at most n items.                            *)
LEMMA RankRange ==
  ASSUME NEW L \in SUBSET Nat, IsFiniteSet(L), NEW P \in SUBSET L, NEW low \in Nat, NEW n \in Nat,
         \A i \in P : low <= Rank(L, i) /\ Rank(L, i) < low + n
  PROVE  IsFiniteSet(P) /\ Cardinality(P) \in Nat /\ Cardinality(P) <= n
<1> DEFINE f == [i \in P |-> Rank(L, i) - low]
<1>1. f \in [P -> 0 .. n - 1]
  BY RankFacts
<1>2. ASSUME NEW i \in P, NEW j \in P, f[i] = f[j] PROVE i = j
  <2>1. Rank(L, i) = Rank(L, j) /\ i \in Nat /\ j \in Nat
    BY <1>2, RankFacts
  <2> QED
    BY <2>1, RankFacts
<1>3. f \in Injection(P, 0 .. n - 1)
  BY <1>1, <1>2 DEF Injection, IsInjective
<1>4. IsFiniteSet(0 .. n - 1) /\ Cardinality(0 .. n - 1) = n
  BY FS_Interval
<1> QED
  BY <1>3, <1>4, FS_Injection, FS_CardinalityType

LEMMA Largest ==
  ASSUME NEW L \in SUBSET Nat, IsFiniteSet(L), L # {}
  PROVE  \E i \in L : \A j \in L : j <= i
<1> DEFINE n == Cardinality(L)
           f == [i \in L |-> Rank(L, i)]
<1>0. n \in Nat /\ n # 0
  BY FS_CardinalityType, FS_EmptySet
<1>1. f \in [L -> 0 .. n - 1]
  BY <1>0, RankFacts
<1>2. ASSUME NEW i \in L, NEW j \in L, f[i] = f[j] PROVE i = j
  <2>1. Rank(L, i) = Rank(L, j) /\ i \in Nat /\ j \in Nat
    BY <1>2
  <2> QED
    BY <2>1, RankFacts
<1>3. f \in Injection(L, 0 .. n - 1)
  BY <1>1, <1>2 DEF Injection, IsInjective
<1>4. IsFiniteSet(0 .. n - 1) /\ Cardinality(0 .. n - 1) = n
  BY <1>0, FS_Interval
<1>5. f \in Surjection(L, 0 .. n - 1)
  BY <1>3, <1>4, FS_Injection
<1>6. PICK i \in L : f[i] = n - 1
  <2>1. n - 1 \in 0 .. n - 1
    BY <1>0
  <2>2. ASSUME NEW g \in Surjection(L, 0 .. n - 1) PROVE \E i \in L : g[i] = n - 1
    BY <2>1 DEF Surjection
  <2> QED
    BY <1>5, <2>2
<1>7. Rank(L, i) = n - 1 /\ i \in Nat
  BY <1>6
<1>8. ASSUME NEW j \in L PROVE j <= i
  BY <1>0, <1>7, RankFacts
<1> QED
  BY <1>8

-----------------------------------------------------------------------------
(* Pages.                                                                   *)

LEMMA Account ==
  ASSUME TypeOK, NEW l \in Lists
  PROVE  /\ made[l] \in Seq(NamesIn(l)) /\ Len(made[l]) \in Nat /\ Len(made[l]) <= MaxMade
         /\ live[l] \subseteq 1 .. Len(made[l]) /\ live[l] \in SUBSET Nat
         /\ IsFiniteSet(live[l]) /\ Cardinality(live[l]) \in Nat /\ Cardinality(live[l]) <= MaxMade
<1>1. /\ made[l] \in Seq(NamesIn(l)) /\ Len(made[l]) <= MaxMade
      /\ live[l] \in SUBSET (1 .. Len(made[l]))
  BY DEF TypeOK
<1>2. Len(made[l]) \in Nat
  BY <1>1, LenProperties
<1>3. IsFiniteSet(1 .. Len(made[l])) /\ Cardinality(1 .. Len(made[l])) = Len(made[l])
  BY <1>2, FS_Interval
<1>4. IsFiniteSet(live[l]) /\ Cardinality(live[l]) <= Len(made[l]) /\ Cardinality(live[l]) \in Nat
  BY <1>1, <1>3, FS_Subset, FS_CardinalityType
<1>5. MaxMade \in Nat
  BY BoundsAssumption
<1> QED
  BY <1>1, <1>2, <1>4, <1>5

LEMMA Multiples ==
  ASSUME NEW k \in Nat
  PROVE  /\ PageSize \in Nat /\ k * PageSize \in Nat /\ (k + 1) * PageSize = k * PageSize + PageSize
         /\ 0 * PageSize = 0
  BY BoundsAssumption

LEMMA Inventories ==
  ASSUME ~overridden, NEW l
  PROVE  Inventory(l) = live[l] /\ \A i : Before(l, i) = Rank(live[l], i)
  BY DEF Inventory, Before, Rank

(* A token stands for the place where the page ended.                       *)
LEMMA TokenPage ==
  ASSUME TypeOK, ~overridden, NEW l \in Lists
  PROVE  LET page == TokenItems(l)
         IN  /\ page \in SUBSET live[l]
             /\ LastItem(page) \in Nat /\ cursor <= LastItem(page) /\ cursor \in Nat
             /\ LastItem(page) = cursor \/ LastItem(page) \in live[l]
             /\ \A i \in live[l] : i \in page <=> cursor < i /\ i <= LastItem(page)
             /\ Cardinality(page) <= PageSize
<1> DEFINE page == TokenItems(l)
           L == live[l]
<1>0. L \in SUBSET Nat /\ IsFiniteSet(L) /\ cursor \in Nat /\ cursor + 1 \in Nat
  BY Account DEF TypeOK
<1>1. page = {i \in L : i > cursor /\ Rank(L, i) - Rank(L, cursor + 1) < PageSize}
  BY Inventories DEF TokenItems
<1>2. page \in SUBSET L /\ IsFiniteSet(page) /\ page \in SUBSET Nat
  BY <1>0, <1>1, FS_Subset
<1>3. PageSize \in Nat
  BY BoundsAssumption
<1>r. \A i \in Nat : Rank(L, i) \in Nat
  BY <1>0, RankFacts
<1>4. Cardinality(page) <= PageSize
  <2>1. ASSUME NEW i \in page
        PROVE  Rank(L, cursor + 1) <= Rank(L, i) /\ Rank(L, i) < Rank(L, cursor + 1) + PageSize
    <3>1. i \in Nat /\ i > cursor /\ Rank(L, i) - Rank(L, cursor + 1) < PageSize
      BY <1>1, <1>2
    <3>2. cursor + 1 <= i
      BY <1>0, <3>1
    <3> QED
      BY <1>0, <1>3, <1>r, <3>1, <3>2, RankFacts
  <2> HIDE DEF page, L
  <2> QED
    BY <1>0, <1>2, <1>3, <1>r, <2>1, RankRange
<1> HIDE DEF page, L
<1>5. CASE page = {}
  <2>1. LastItem(page) = cursor
    BY <1>5 DEF LastItem
  <2> QED
    BY <1>0, <1>2, <1>4, <1>5, <2>1 DEF page, L
<1>6. CASE page # {}
  <2>1. \E i \in page : \A j \in page : j <= i
    BY <1>2, <1>6, Largest
  <2>2. LastItem(page) = CHOOSE i \in page : \A j \in page : j <= i
    BY <1>6 DEF LastItem
  <2>3. LastItem(page) \in page /\ \A j \in page : j <= LastItem(page)
    BY <2>1, <2>2
  <2>4. LastItem(page) \in Nat /\ cursor < LastItem(page) /\ LastItem(page) \in L
    BY <1>0, <1>1, <1>2, <2>3
  <2>5. ASSUME NEW i \in L, cursor < i, i <= LastItem(page) PROVE i \in page
    <3>1. i \in Nat /\ Rank(L, i) <= Rank(L, LastItem(page))
      BY <1>0, <2>4, <2>5, RankFacts
    <3>2. Rank(L, LastItem(page)) - Rank(L, cursor + 1) < PageSize
      BY <1>1, <2>3
    <3> QED
      BY <1>0, <1>1, <1>3, <1>r, <2>4, <2>5, <3>1, <3>2
  <2>6. \A i \in L : i \in page => cursor < i
    BY <1>0, <1>1
  <2> QED
    BY <1>0, <1>2, <1>4, <2>3, <2>4, <2>5, <2>6 DEF page, L
<1> QED
  BY <1>5, <1>6

(* What a page adds to the pages before it.                                 *)
BehindNext(l, page) ==
    {i \in live[l] : IF Numbered THEN Rank(live[l], i) < (pages + 1) * PageSize
                                 ELSE i <= LastItem(page)}

LEMMA PageFacts ==
  ASSUME TypeOK, Turned, ~overridden, NEW l \in Lists, pc = l, NEW page, page = PageItems(l)
  PROVE  /\ page \in SUBSET (live[l] \ Behind(l))
         /\ ~More(l, page) => live[l] = Behind(l) \cup page
         /\ More(l, page) =>
                /\ ~AllAtOnce
                /\ LastItem(page) \in 0 .. Len(made[l])
                /\ Cardinality(page) <= PageSize
                /\ BehindNext(l, page) = Behind(l) \cup page
                /\ Numbered => (pages + 1) * PageSize < Cardinality(live[l])
<1> DEFINE L == live[l]
<1>0. /\ L \in SUBSET Nat /\ IsFiniteSet(L) /\ L \subseteq 1 .. Len(made[l]) /\ Len(made[l]) \in Nat
      /\ pages \in Nat /\ cursor \in Nat /\ cursor <= Len(made[l]) /\ Cardinality(L) \in Nat
  BY Account, BoundsAssumption DEF TypeOK, Turned
<1>1. Inventory(l) = L /\ \A i : Before(l, i) = Rank(L, i)
  BY Inventories
<1>m. /\ PageSize \in Nat /\ pages * PageSize \in Nat
      /\ (pages + 1) * PageSize = pages * PageSize + PageSize
  BY <1>0, Multiples
<1>r. \A i \in L : Rank(L, i) \in Nat /\ i \in Nat
  BY <1>0, RankFacts
<1>2. CASE AllAtOnce
  <2>1. page = L /\ ~More(l, page) /\ ~Numbered /\ pages = 0 /\ cursor = 0
    BY <1>1, <1>2 DEF PageItems, More, AllAtOnce, Numbered, Turned
  <2>2. Behind(l) = {}
    BY <1>0, <2>1 DEF Behind
  <2> QED
    BY <2>1, <2>2
<1>3. CASE Numbered
  <2>1. /\ page = {i \in L : pages * PageSize <= Rank(L, i) /\ Rank(L, i) < (pages + 1) * PageSize}
        /\ More(l, page) <=> Cardinality(L) > (pages + 1) * PageSize
        /\ ~AllAtOnce
    BY <1>1, <1>3 DEF PageItems, NumberedItems, More, AllAtOnce, Numbered
  <2>2. Behind(l) = {i \in L : Rank(L, i) < pages * PageSize}
    BY <1>3 DEF Behind
  <2>3. BehindNext(l, page) = {i \in L : Rank(L, i) < (pages + 1) * PageSize}
    BY <1>3 DEF BehindNext
  <2> HIDE DEF L
  <2>4. page \in SUBSET (L \ Behind(l))
    BY <1>m, <1>r, <2>1, <2>2
  <2>5. BehindNext(l, page) = Behind(l) \cup page
    BY <1>m, <1>r, <2>1, <2>2, <2>3
  <2>6. ~More(l, page) => L = Behind(l) \cup page
    <3> SUFFICES ASSUME ~More(l, page), NEW i \in L PROVE Rank(L, i) < (pages + 1) * PageSize
      BY <2>1, <2>2, <2>3, <2>5
    <3>1. Rank(L, i) < Cardinality(L)
      BY <1>0, RankFacts
    <3> QED
      BY <1>0, <1>m, <1>r, <2>1, <3>1
  <2>7. Cardinality(page) <= PageSize
    <3>1. /\ page \in SUBSET L
          /\ \A i \in page : /\ pages * PageSize <= Rank(L, i)
                             /\ Rank(L, i) < pages * PageSize + PageSize
      BY <1>m, <2>1
    <3> QED
      BY <1>0, <1>m, <3>1, RankRange
  <2>8. LastItem(page) \in 0 .. Len(made[l])
    <3>1. CASE page = {}
      BY <1>0, <3>1 DEF LastItem
    <3>2. CASE page # {}
      <4>1. page \in SUBSET L /\ page \in SUBSET Nat /\ IsFiniteSet(page)
        BY <1>0, <2>1, FS_Subset
      <4>2. \E i \in page : \A j \in page : j <= i
        BY <3>2, <4>1, Largest
      <4>3. LastItem(page) \in page
        BY <3>2, <4>2 DEF LastItem
      <4> QED
        BY <1>0, <4>1, <4>3
    <3> QED
      BY <3>1, <3>2
  <2> QED
    BY <1>0, <1>m, <2>1, <2>4, <2>5, <2>6, <2>7, <2>8 DEF L
<1>4. CASE ~Numbered /\ ~AllAtOnce
  <2>1. page = TokenItems(l) /\ (More(l, page) <=> \E i \in L : i > LastItem(page))
    BY <1>1, <1>4 DEF PageItems, More
  <2>2. Behind(l) = {i \in L : i <= cursor} /\ BehindNext(l, page) = {i \in L : i <= LastItem(page)}
    BY <1>4 DEF Behind, BehindNext
  <2>3. /\ page \in SUBSET L /\ LastItem(page) \in Nat /\ cursor <= LastItem(page)
        /\ LastItem(page) = cursor \/ LastItem(page) \in L
        /\ \A i \in L : i \in page <=> cursor < i /\ i <= LastItem(page)
        /\ Cardinality(page) <= PageSize
    BY <2>1, TokenPage
  <2> HIDE DEF L
  <2> DEFINE top == LastItem(page)
  <2>a. top \in Nat /\ cursor <= top /\ \A i \in L : i \in page <=> cursor < i /\ i <= top
    BY <2>3
  <2> HIDE DEF top
  <2>b. \A i \in L : ~(i <= cursor) <=> cursor < i
    BY <1>0, <1>r
  <2>4. page \in SUBSET (L \ Behind(l))
    BY <2>2, <2>3, <2>a, <2>b
  <2>5. ASSUME NEW i \in L PROVE i <= top <=> i \in Behind(l) \cup page
    BY <1>0, <1>r, <2>2, <2>a, <2>b
  <2>6. BehindNext(l, page) = Behind(l) \cup page
    BY <2>2, <2>3, <2>5 DEF top
  <2>7. ~More(l, page) => BehindNext(l, page) = L
    <3> SUFFICES ASSUME ~More(l, page), NEW i \in L PROVE i <= top
      BY <2>2 DEF top
    <3>1. ~(i > top)
      BY <2>1 DEF top
    <3> QED
      BY <1>r, <2>a, <3>1
  <2> QED
    BY <1>0, <1>4, <2>3, <2>4, <2>6, <2>7 DEF L
<1> QED
  BY <1>2, <1>3, <1>4

-----------------------------------------------------------------------------
(* What reading a page can come to.                                         *)

Turns(l, page, items, declared) ==
    /\ More(l, page)
    /\ pages + 1 # MaxPages
    /\ pc' = pc /\ pages' = pages + 1 /\ cursor' = LastItem(page)
    /\ count' = count + Cardinality(items) /\ total' = declared

Ends(l, page, items, declared) ==
    /\ ~More(l, page)
    /\ declared # None => count + Cardinality(items) = declared
    /\ pc' = IF l = "machines" /\ Registered THEN "keys" ELSE "verified"
    /\ pages' = 0 /\ cursor' = 0 /\ count' = 0 /\ total' = None

LEMMA ReadPageCases ==
  ASSUME NEW l \in Lists, ReadPage(l)
  PROVE  /\ pc = l
         /\ UNCHANGED <<provider, backend, overridden, made, live, states, request, unread, reading,
                        described, changes, moved, late, stood>>
         /\ \/ pc' = "refused" /\ UNCHANGED <<pages, cursor, count, total>>
            \/ \E items \in SUBSET PageItems(l), declared \in Totals(l) :
                  /\ \A i \in items : made[l][i] \notin Expected(l)
                  /\ ~Counts => items = PageItems(l)
                  /\ pages > 0 /\ total # None => declared = total
                  /\ Turns(l, PageItems(l), items, declared) \/ Ends(l, PageItems(l), items, declared)
<1>1. pc = l /\ UNCHANGED <<provider, backend, overridden, made, live, states, request, unread,
                            reading, described, changes, moved, late, stood>>
  BY DEF ReadPage, environment, account
<1> DEFINE page == PageItems(l)
<1>2. PICK declared \in Totals(l), hidden \in {{}} \cup IF Hideable THEN {{i} : i \in page} ELSE {} :
        LET items == page \ hidden
            more  == More(l, page)
        IN IF \/ NamesAt(l, items) \cap Expected(l) # {}
              \/ GoogleRejects(hidden) \/ AwsRejects(hidden) \/ OciRejects(hidden)
              \/ CountedRejects(declared, items, more)
              \/ more /\ (items = {} \/ pages + 1 = MaxPages)
           THEN Refuse /\ UNCHANGED paging
           ELSE IF more THEN TurnPage(page, items, declared) ELSE ListDone(l)
  BY DEF ReadPage
<1> HIDE DEF page
<1> DEFINE items == page \ hidden
<1>3. CASE Refuse /\ UNCHANGED paging
  BY <1>1, <1>3 DEF Refuse, paging
<1>4. CASE ~(Refuse /\ UNCHANGED paging)
  <2>1. /\ NamesAt(l, items) \cap Expected(l) = {}
        /\ ~GoogleRejects(hidden) /\ ~AwsRejects(hidden) /\ ~OciRejects(hidden)
        /\ ~CountedRejects(declared, items, More(l, page))
        /\ More(l, page) => pages + 1 # MaxPages
        /\ IF More(l, page) THEN TurnPage(page, items, declared) ELSE ListDone(l)
    BY <1>2, <1>4
  <2>2. \A i \in items : made[l][i] \notin Expected(l)
    BY <2>1 DEF NamesAt
  <2>3. ~Counts => items = page
    BY <2>1 DEF Counts, Hideable, GoogleRejects, AwsRejects, OciRejects
  <2>4. pages > 0 /\ total # None => declared = total
    BY <2>1 DEF CountedRejects
  <2>5. Turns(l, page, items, declared) \/ Ends(l, page, items, declared)
    BY <1>1, <2>1 DEF TurnPage, ListDone, CountedRejects, Turns, Ends
  <2> QED
    BY <1>1, <2>2, <2>3, <2>4, <2>5 DEF page
<1> QED
  BY <1>3, <1>4

(* What a change of the account comes to.                                   *)
LEMMA MakeFacts ==
  ASSUME TypeOK, NEW l \in Lists, NEW n \in NamesIn(l), Make(l, n)
  PROVE  /\ Len(made[l]) < MaxMade
         /\ made' = [k \in Lists |-> IF k = l THEN Append(made[l], n) ELSE made[k]]
         /\ live' = [k \in Lists |-> IF k = l THEN live[l] \cup {Len(made[l]) + 1} ELSE live[k]]
         /\ moved' = [k \in Lists |-> IF k = l /\ pc = l THEN moved[l] \cup {"made"} ELSE moved[k]]
         /\ late' = [k \in Lists |-> IF k = l /\ WasRead(l) THEN late[l] \cup {n} ELSE late[k]]
         /\ UNCHANGED <<provider, backend, overridden, states, request, pc, unread, reading, described,
                        pages, cursor, count, total, stood>>
         /\ changes' \in 0 .. MaxChanges
<1>1. /\ Len(made[l]) < MaxMade /\ made' = [made EXCEPT ![l] = Append(@, n)]
      /\ live' = [live EXCEPT ![l] = @ \cup {Len(made[l]) + 1}]
      /\ moved' = IF pc = l THEN [moved EXCEPT ![l] = @ \cup {"made"}] ELSE moved
      /\ late' = IF WasRead(l) THEN [late EXCEPT ![l] = @ \cup {n}] ELSE late
      /\ UNCHANGED <<provider, backend, overridden, states, request, pc, unread, reading, described,
                     pages, cursor, count, total, stood>>
  BY DEF Make, Note, environment, paging
<1>2. changes' \in 0 .. MaxChanges
  BY BoundsAssumption DEF Make, Happens, TypeOK
<1>3. /\ made = [k \in Lists |-> made[k]] /\ live = [k \in Lists |-> live[k]]
      /\ moved = [k \in Lists |-> moved[k]] /\ late = [k \in Lists |-> late[k]]
  BY DEF TypeOK
<1>4. DOMAIN made = Lists /\ DOMAIN live = Lists /\ DOMAIN moved = Lists /\ DOMAIN late = Lists
  BY <1>3
<1>5. made' = [k \in Lists |-> IF k = l THEN Append(made[l], n) ELSE made[k]]
  BY <1>1, <1>4
<1>6. live' = [k \in Lists |-> IF k = l THEN live[l] \cup {Len(made[l]) + 1} ELSE live[k]]
  BY <1>1, <1>4
<1>7. moved' = [k \in Lists |-> IF k = l /\ pc = l THEN moved[l] \cup {"made"} ELSE moved[k]]
  <2>1. CASE pc = l
    BY <1>1, <1>4, <2>1
  <2>2. CASE pc # l
    BY <1>1, <1>3, <2>2
  <2> QED
    BY <2>1, <2>2
<1>8. late' = [k \in Lists |-> IF k = l /\ WasRead(l) THEN late[l] \cup {n} ELSE late[k]]
  <2>1. CASE WasRead(l)
    BY <1>1, <1>4, <2>1
  <2>2. CASE ~WasRead(l)
    BY <1>1, <1>3, <2>2
  <2> QED
    BY <2>1, <2>2
<1> QED
  BY <1>1, <1>2, <1>5, <1>6, <1>7, <1>8

LEMMA RemoveFacts ==
  ASSUME TypeOK, NEW l \in Lists, NEW i \in live[l], Remove(l, i)
  PROVE  /\ live' = [k \in Lists |-> IF k = l THEN live[l] \ {i} ELSE live[k]]
         /\ moved' = [k \in Lists |-> IF k = l /\ pc = l THEN moved[l] \cup {"removed"} ELSE moved[k]]
         /\ UNCHANGED <<provider, backend, overridden, made, states, request, pc, unread, reading, described,
                        pages, cursor, count, total, late, stood>>
         /\ changes' \in 0 .. MaxChanges
<1>1. /\ live' = [live EXCEPT ![l] = @ \ {i}]
      /\ moved' = IF pc = l THEN [moved EXCEPT ![l] = @ \cup {"removed"}] ELSE moved
      /\ UNCHANGED <<provider, backend, overridden, made, states, request, pc, unread, reading, described,
                     pages, cursor, count, total, late, stood>>
  BY DEF Remove, Note, environment, paging
<1>2. changes' \in 0 .. MaxChanges
  BY BoundsAssumption DEF Remove, Happens, TypeOK
<1>3. live = [k \in Lists |-> live[k]] /\ moved = [k \in Lists |-> moved[k]]
  BY DEF TypeOK
<1>4. DOMAIN live = Lists /\ DOMAIN moved = Lists
  BY <1>3
<1>5. live' = [k \in Lists |-> IF k = l THEN live[l] \ {i} ELSE live[k]]
  BY <1>1, <1>4
<1>6. moved' = [k \in Lists |-> IF k = l /\ pc = l THEN moved[l] \cup {"removed"} ELSE moved[k]]
  <2>1. CASE pc = l
    BY <1>1, <1>4, <2>1
  <2>2. CASE pc # l
    BY <1>1, <1>3, <2>2
  <2> QED
    BY <2>1, <2>2
<1> QED
  BY <1>1, <1>2, <1>5, <1>6

-----------------------------------------------------------------------------
(* Types.                                                                   *)

Fixed == UNCHANGED <<provider, backend, overridden, made, live, states, request, pages, cursor, count, total,
                     changes, moved, late, stood>>

LEMMA InvTypeStep == Inv /\ [Next]_vars => TypeOK' /\ Turned' /\ Verifiable'
<1> SUFFICES ASSUME Inv, [Next]_vars PROVE TypeOK' /\ Turned' /\ Verifiable'
  OBVIOUS
<1>a. TypeOK /\ Turned /\ Verifiable
  BY DEF Inv
<1>b. /\ pages \in Nat /\ count \in Nat /\ cursor \in Nat /\ {PageSize, MaxPages, MaxMade} \subseteq Nat \ {0}
      /\ MaxPages * PageSize \in Nat
  BY <1>a, BoundsAssumption DEF TypeOK
<1> USE DEF environment, account, paging, history
<1>1. CASE Start
  <2>1. request' \in [consumers : SUBSET Consumers, registrations : SUBSET Registrations]
        /\ unread' \subseteq Entries
    BY <1>1 DEF Start, Entries
  <2>2. pc' \in {"local", "refused"} /\ (pc' = "local" => ~overridden /\ (Registered <=> request'.registrations # {}))
    <3>1. PICK consumers \in SUBSET Consumers, registrations \in SUBSET Registrations :
              /\ request' = [consumers |-> consumers, registrations |-> registrations]
              /\ IF overridden \/ (registrations # {}) # Registered THEN Refuse ELSE pc' = "local"
      BY <1>1 DEF Start
    <3>2. CASE overridden \/ (registrations # {}) # Registered
      BY <3>1, <3>2 DEF Refuse
    <3>3. CASE ~overridden /\ (registrations # {}) = Registered
      <4>1. pc' = "local" /\ request'.registrations = registrations
        BY <3>1, <3>3
      <4>2. Registered <=> registrations # {}
        BY <3>3
      <4> QED
        BY <3>3, <4>1, <4>2
    <3> QED
      BY <3>2, <3>3
  <2>3. stood' \subseteq Entries \X Places
    BY <1>1 DEF Start, Recorded
  <2>4. UNCHANGED <<provider, backend, overridden, made, live, states, reading, described, pages, cursor,
                    count, total, changes, moved, late>>
    BY <1>1 DEF Start
  <2>5. TypeOK'
    BY <1>a, <2>1, <2>2, <2>3, <2>4 DEF TypeOK, NamesIn, Tenants
  <2>6. Turned'
    BY <1>a, <1>1, <2>2, <2>4 DEF Turned, Start, AllAtOnce, Lists
  <2>7. Verifiable'
    BY <2>2, <2>4 DEF Verifiable, Running, Registered
  <2> QED
    BY <2>5, <2>6, <2>7
<1>2. CASE ReadLocal \/ ReadRemote \/ CopyGeneration \/ AskProvider \/ LookupFails \/ CreateIdentity
  <2>1. Fixed
    BY <1>2 DEF ReadLocal, ReadRemote, CopyGeneration, AskProvider, LookupFails, CreateIdentity, Fixed
  <2>2. /\ unread' \subseteq Entries /\ reading' \in Entries \cup {None}
        /\ described' \in Contents \cup {None}
    <3>1. CASE ReadRemote
      <4>1. reading \in Entries \/ reading = None
        BY <1>a DEF TypeOK
      <4>2. described' \in {described, states[reading]["remote"]}
        BY <3>1 DEF ReadRemote
      <4>3. described' = described \/ (described' = states[reading]["remote"] /\ reading \in Entries)
        BY <1>a, <3>1, <4>2 DEF ReadRemote, Inv, StatesRead
      <4> QED
        BY <1>a, <3>1, <4>3 DEF ReadRemote, TypeOK, Places
    <3>2. CASE ~ReadRemote
      BY <1>a, <1>2, <3>2 DEF TypeOK, ReadLocal, CopyGeneration, AskProvider, LookupFails, CreateIdentity
    <3> QED
      BY <3>1, <3>2
  <2>3. /\ pc' \in {"local", "remote", "copy", "machines", "refused", "created"}
        /\ pc' # "refused" => pc \in {"local", "remote", "copy", "verified"}
    BY <1>2 DEF ReadLocal, ReadRemote, CopyGeneration, AskProvider, LookupFails, CreateIdentity, Refuse
  <2>4. TypeOK'
    BY <1>a, <2>1, <2>2, <2>3 DEF TypeOK, NamesIn, Tenants, Fixed
  <2>5. Turned'
    <3>1. pc' = "machines" => cursor = 0 /\ Len(made["machines"]) \in Nat
      BY <1>a, <2>3, Account DEF Turned, Lists
    <3> QED
      BY <1>a, <2>1, <2>3, <3>1 DEF Turned, Lists, AllAtOnce, Fixed
  <2>6. Verifiable'
    BY <1>a, <2>1, <2>3 DEF Verifiable, Running, Registered, Fixed
  <2> QED
    BY <2>4, <2>5, <2>6
<1>3. ASSUME NEW l \in Lists, ReadPage(l) PROVE TypeOK' /\ Turned' /\ Verifiable'
  <2>1. /\ pc = l /\ ~overridden
        /\ UNCHANGED <<provider, backend, overridden, made, live, states, request, unread, reading,
                       described, changes, moved, late, stood>>
    BY <1>a, <1>3, ReadPageCases DEF Verifiable, Running, Lists
  <2>t. ASSUME /\ pages' \in 0 .. MaxPages - 1 /\ cursor' \in 0 .. MaxMade
               /\ count' \in 0 .. MaxPages * PageSize /\ total' \in 0 .. MaxMade \cup {None}
               /\ pc' \in {"machines", "keys", "refused", "verified"}
        PROVE  TypeOK'
    <3>1. NamesIn("machines")' = NamesIn("machines") /\ NamesIn("keys")' = NamesIn("keys")
      BY <2>1 DEF NamesIn, Tenants
    <3>2. \A k \in Lists : /\ made'[k] \in Seq(NamesIn(k)') /\ Len(made'[k]) <= MaxMade
                          /\ live'[k] \subseteq 1 .. Len(made'[k])
                          /\ moved'[k] \subseteq {"made", "removed"} /\ late'[k] \subseteq NamesIn(k)'
      BY <1>a, <2>1, <3>1 DEF TypeOK, Lists
    <3>3. /\ provider' \in Providers /\ backend' \in {"local", "object", "gcs"} /\ overridden' \in BOOLEAN
          /\ states' \in [Entries -> [Places -> Contents]]
          /\ request' \in [consumers : SUBSET Consumers, registrations : SUBSET Registrations]
          /\ unread' \subseteq Entries /\ reading' \in Entries \cup {None}
          /\ described' \in Contents \cup {None} /\ changes' \in 0 .. MaxChanges
          /\ stood' \subseteq Entries \X Places
          /\ made' = [k \in Lists |-> made'[k]] /\ live' = [k \in Lists |-> live'[k]]
          /\ moved' = [k \in Lists |-> moved'[k]] /\ late' = [k \in Lists |-> late'[k]]
      BY <1>a, <2>1 DEF TypeOK
    <3> QED
      BY <2>t, <3>2, <3>3 DEF TypeOK
  <2>2. CASE pc' = "refused" /\ UNCHANGED <<pages, cursor, count, total>>
    <3>1. TypeOK'
      BY <1>a, <2>2, <2>t DEF TypeOK
    <3> QED
      BY <1>a, <2>1, <2>2, <3>1 DEF Turned, AllAtOnce, Verifiable, Running, Lists
  <2> DEFINE page == PageItems(l)
  <2>3. ASSUME NEW items \in SUBSET page, NEW declared \in Totals(l), Turns(l, page, items, declared)
        PROVE  TypeOK' /\ Turned' /\ Verifiable'
    <3>1. /\ ~AllAtOnce /\ LastItem(page) \in 0 .. Len(made[l]) /\ Cardinality(page) <= PageSize
          /\ page \subseteq live[l]
      BY <1>a, <2>1, <2>3, PageFacts DEF Turns
    <3>2. Cardinality(items) \in Nat /\ Cardinality(items) <= PageSize
      <4>1. IsFiniteSet(page)
        BY <1>a, <3>1, Account, FS_Subset
      <4> QED
        BY <1>b, <3>1, <4>1, FS_Subset, FS_CardinalityType
    <3>3. /\ pages' = pages + 1 /\ pages + 1 \in 0 .. MaxPages - 1 /\ pc' = pc
          /\ cursor' = LastItem(page) /\ count' = count + Cardinality(items) /\ total' = declared
      BY <1>a, <1>b, <2>3 DEF Turns, TypeOK
    <3>4. count' \in Nat /\ count' <= (pages + 1) * PageSize /\ (pages + 1) * PageSize <= MaxPages * PageSize
      <4>1. count <= pages * PageSize /\ (pages + 1) * PageSize = pages * PageSize + PageSize
            /\ pages * PageSize \in Nat
        BY <1>a, <1>b, Multiples DEF Turned
      <4>2. pages + 1 <= MaxPages
        BY <1>b, <3>3
      <4>3. (pages + 1) * PageSize <= MaxPages * PageSize
        BY <1>b, <4>2
      <4> QED
        BY <1>b, <3>2, <3>3, <4>1, <4>3
    <3>5. declared \in 0 .. MaxMade \cup {None}
      <4>1. Cardinality(Inventory(l)) \in 0 .. MaxMade
        BY <1>a, <2>1, Inventories, Account
      <4> QED
        BY <4>1 DEF Totals
    <3>6. cursor' \in 0 .. MaxMade /\ cursor' <= Len(made[l])
      BY <1>a, <1>b, <3>1, <3>3, Account
    <3>7. TypeOK'
      <4>1. count' \in 0 .. MaxPages * PageSize
        BY <1>b, <3>3, <3>4, Multiples
      <4> QED
        BY <2>1, <2>t, <3>3, <3>5, <3>6, <4>1 DEF Lists
    <3>8. Turned'
      <4>1. count' <= pages' * PageSize
        BY <3>3, <3>4
      <4>2. pages' # 0 /\ ~AllAtOnce'
        BY <1>b, <2>1, <3>1, <3>3 DEF AllAtOnce
      <4> QED
        BY <2>1, <3>3, <3>6, <4>1, <4>2 DEF Turned, Lists
    <3>9. Verifiable'
      BY <1>a, <2>1, <3>3 DEF Verifiable, Running, Registered
    <3> QED
      BY <3>7, <3>8, <3>9
  <2>4. ASSUME NEW items \in SUBSET page, NEW declared \in Totals(l), Ends(l, page, items, declared)
        PROVE  TypeOK' /\ Turned' /\ Verifiable'
    <3>1. pages' = 0 /\ cursor' = 0 /\ count' = 0 /\ total' = None
          /\ pc' \in {"keys", "verified"} /\ (pc' = "keys" => Registered)
      BY <2>4 DEF Ends
    <3>2. TypeOK'
      BY <1>b, <2>t, <3>1
    <3>3. Turned'
      <4>1. Len(made["keys"]) \in Nat
        BY <1>a, Account DEF Lists
      <4>2. count' <= pages' * PageSize
        BY <3>1, Multiples
      <4>3. made'["keys"] = made["keys"]
        BY <2>1
      <4> QED
        BY <3>1, <4>1, <4>2, <4>3 DEF Turned, Lists
    <3>4. Verifiable'
      BY <1>a, <2>1, <3>1 DEF Verifiable, Running, Registered, Lists
    <3> QED
      BY <3>2, <3>3, <3>4
  <2> QED
    BY <1>3, <2>2, <2>3, <2>4, ReadPageCases
<1>4. ASSUME NEW l \in Lists, NEW n \in NamesIn(l), Make(l, n) PROVE TypeOK' /\ Turned' /\ Verifiable'
  <2>1. /\ Len(made[l]) < MaxMade /\ changes' \in 0 .. MaxChanges
        /\ made' = [k \in Lists |-> IF k = l THEN Append(made[l], n) ELSE made[k]]
        /\ live' = [k \in Lists |-> IF k = l THEN live[l] \cup {Len(made[l]) + 1} ELSE live[k]]
        /\ moved' = [k \in Lists |-> IF k = l /\ pc = l THEN moved[l] \cup {"made"} ELSE moved[k]]
        /\ late' = [k \in Lists |-> IF k = l /\ WasRead(l) THEN late[l] \cup {n} ELSE late[k]]
        /\ UNCHANGED <<provider, backend, overridden, states, request, pc, unread, reading, described,
                       pages, cursor, count, total, stood>>
    BY <1>a, <1>4, MakeFacts
  <2>2. /\ Append(made[l], n) \in Seq(NamesIn(l)) /\ Len(Append(made[l], n)) = Len(made[l]) + 1
        /\ Len(made[l]) \in Nat
    BY <1>a, Account, AppendProperties
  <2>4. /\ made' = [k \in Lists |-> made'[k]] /\ live' = [k \in Lists |-> live'[k]]
        /\ moved' = [k \in Lists |-> moved'[k]] /\ late' = [k \in Lists |-> late'[k]]
    BY <2>1
  <2>5. ASSUME NEW k \in Lists
        PROVE  /\ made'[k] \in Seq(NamesIn(k)) /\ Len(made'[k]) <= MaxMade /\ Len(made[k]) <= Len(made'[k])
               /\ live'[k] \subseteq 1 .. Len(made'[k])
               /\ moved'[k] \subseteq {"made", "removed"} /\ late'[k] \subseteq NamesIn(k)
    <3>1. /\ made[k] \in Seq(NamesIn(k)) /\ Len(made[k]) <= MaxMade /\ live[k] \subseteq 1 .. Len(made[k])
          /\ moved[k] \subseteq {"made", "removed"} /\ late[k] \subseteq NamesIn(k) /\ Len(made[k]) \in Nat
      BY <1>a, Account DEF TypeOK
    <3>2. moved'[k] \subseteq {"made", "removed"} /\ late'[k] \subseteq NamesIn(k)
      BY <2>1, <3>1
    <3>3. CASE k = l
      <4>1. made'[k] = Append(made[l], n) /\ live'[k] = live[l] \cup {Len(made[l]) + 1}
        BY <2>1, <3>3
      <4> QED
        BY <1>b, <2>1, <2>2, <3>1, <3>2, <3>3, <4>1
    <3>4. CASE k # l
      <4>1. made'[k] = made[k] /\ live'[k] = live[k]
        BY <2>1, <3>4
      <4> QED
        BY <3>1, <3>2, <4>1
    <3> QED
      BY <3>3, <3>4
  <2>6. TypeOK'
    <3>1. NamesIn("machines")' = NamesIn("machines") /\ NamesIn("keys")' = NamesIn("keys")
      BY <2>1 DEF NamesIn, Tenants
    <3>3. \A k \in Lists :
              /\ made'[k] \in Seq(NamesIn(k)') /\ Len(made'[k]) <= MaxMade
              /\ live'[k] \subseteq 1 .. Len(made'[k])
              /\ moved'[k] \subseteq {"made", "removed"} /\ late'[k] \subseteq NamesIn(k)'
      BY <2>5, <3>1 DEF Lists
    <3> QED
      BY <1>a, <2>1, <2>4, <3>3 DEF TypeOK
  <2>7. Turned'
    <3>1. pc \in Lists => cursor <= Len(made'[pc])
      <4> SUFFICES ASSUME pc \in Lists PROVE cursor <= Len(made'[pc])
        OBVIOUS
      <4>1. cursor <= Len(made[pc]) /\ Len(made[pc]) <= Len(made'[pc]) /\ Len(made[pc]) \in Nat
        BY <1>a, <2>5, Account DEF Turned
      <4>2. Len(made'[pc]) \in Nat
        BY <2>5, LenProperties
      <4> QED
        BY <1>b, <4>1, <4>2
    <3> QED
      BY <1>a, <2>1, <3>1 DEF Turned, AllAtOnce
  <2>8. Verifiable'
    BY <1>a, <2>1 DEF Verifiable, Running, Registered
  <2> QED
    BY <2>6, <2>7, <2>8
<1>5. ASSUME NEW l \in Lists, NEW i \in live[l], Remove(l, i) PROVE TypeOK' /\ Turned' /\ Verifiable'
  <2>1. /\ changes' \in 0 .. MaxChanges
        /\ live' = [k \in Lists |-> IF k = l THEN live[l] \ {i} ELSE live[k]]
        /\ moved' = [k \in Lists |-> IF k = l /\ pc = l THEN moved[l] \cup {"removed"} ELSE moved[k]]
        /\ UNCHANGED <<provider, backend, overridden, made, states, request, pc, unread, reading, described,
                       pages, cursor, count, total, late, stood>>
    BY <1>a, <1>5, RemoveFacts
  <2>3. live' = [k \in Lists |-> live'[k]] /\ moved' = [k \in Lists |-> moved'[k]]
    BY <2>1
  <2>4. \A k \in Lists : live'[k] \subseteq live[k] /\ moved'[k] \subseteq {"made", "removed"}
    <3>1. \A k \in Lists : moved[k] \subseteq {"made", "removed"}
      BY <1>a DEF TypeOK
    <3> QED
      BY <2>1, <3>1
  <2>5. TypeOK'
    BY <1>a, <2>1, <2>3, <2>4 DEF TypeOK, NamesIn, Tenants
  <2> QED
    BY <1>a, <2>1, <2>5 DEF Turned, AllAtOnce, Verifiable, Running, Registered
<1>6. ASSUME NEW e \in Entries, NEW p \in Places, NEW c \in Contents, SaveState(e, p, c)
      PROVE  TypeOK' /\ Turned' /\ Verifiable'
  <2>1. /\ states' = [states EXCEPT ![e][p] = c] /\ stood' \in {stood, stood \ {<<e, p>>}}
        /\ changes' \in 0 .. MaxChanges
        /\ UNCHANGED <<provider, backend, overridden, made, live, request, pc, unread, reading, described,
                       pages, cursor, count, total, moved, late>>
    BY <1>a, <1>6, BoundsAssumption DEF SaveState, Happens, TypeOK
  <2>2. states' \in [Entries -> [Places -> Contents]]
    <3>1. states \in [Entries -> [Places -> Contents]]
      BY <1>a DEF TypeOK
    <3> QED
      BY <2>1, <3>1
  <2>3. TypeOK'
    BY <1>a, <2>1, <2>2 DEF TypeOK, NamesIn, Tenants
  <2> QED
    BY <1>a, <2>1, <2>3 DEF Turned, AllAtOnce, Verifiable, Running, Registered
<1>7. CASE UNCHANGED vars
  BY <1>a, <1>7
  DEF vars, TypeOK, Turned, Verifiable, Running, Registered, AllAtOnce, NamesIn, Tenants
<1> QED
  BY <1>1, <1>2, <1>3, <1>4, <1>5, <1>6, <1>7 DEF Next

-----------------------------------------------------------------------------
(* The recorded states.                                                     *)

LEMMA StatesStep == Inv /\ [Next]_vars => StatesRead'
<1> SUFFICES ASSUME Inv, [Next]_vars PROVE StatesRead'
  OBVIOUS
<1>a. TypeOK /\ StatesRead
  BY DEF Inv
<1>b. /\ Listed \subseteq Entries /\ reading \in Entries \cup {None} /\ unread \subseteq Entries
      /\ states \in [Entries -> [Places -> Contents]]
  BY <1>a DEF TypeOK, Listed, Entries
<1> USE DEF environment, account, paging, history
<1>1. CASE Start
  <2>1. PICK consumers \in SUBSET Consumers, registrations \in SUBSET Registrations :
            /\ request' = [consumers |-> consumers, registrations |-> registrations]
            /\ unread' = consumers \cup registrations
    BY <1>1 DEF Start
  <2>2. Listed' = unread'
    BY <2>1 DEF Listed
  <2>3. stood' = Recorded(states) /\ states' = states
    BY <1>1 DEF Start
  <2>4. \A e \in Entries, p \in Places : <<e, p>> \in stood' => states'[e][p] = "present"
    BY <2>3 DEF Recorded
  <2>5. pc' \in {"local", "refused"}
    BY <1>1 DEF Start, Refuse
  <2> QED
    BY <2>2, <2>4, <2>5 DEF StatesRead, Running
<1>2. CASE ReadLocal
  <2>1. PICK e \in unread :
            /\ reading' = e /\ unread' = unread \ {e}
            /\ IF ~Acceptable(states[e]["local"]) THEN Refuse
               ELSE pc' = IF backend = "local" THEN "local" ELSE "remote"
    BY <1>2 DEF ReadLocal
  <2>2. pc = "local" /\ UNCHANGED <<backend, states, request, stood>>
    BY <1>2 DEF ReadLocal
  <2>3. CASE ~Acceptable(states[e]["local"])
    BY <1>a, <2>1, <2>2, <2>3 DEF Refuse, StatesRead, Running
  <2>4. CASE Acceptable(states[e]["local"])
    <3>1. <<e, "local">> \notin stood /\ e \in Entries
      BY <1>a, <1>b, <2>4 DEF StatesRead, Acceptable, Places
    <3>2. pc' = IF backend = "local" THEN "local" ELSE "remote"
      BY <2>1, <2>4
    <3>3. \A f \in Listed' \ unread' :
              Unrecorded(f)' \/ (pc' \in {"remote", "copy"} /\ f = reading')
      <4> SUFFICES ASSUME NEW f \in Listed', f \notin unread'
                   PROVE  Unrecorded(f)' \/ (pc' \in {"remote", "copy"} /\ f = reading')
        OBVIOUS
      <4>1. CASE f = e
        BY <2>1, <2>2, <3>1, <3>2, <4>1 DEF Unrecorded
      <4>2. CASE f # e
        BY <1>a, <2>1, <2>2, <4>2 DEF StatesRead, Running, Unrecorded, Listed
      <4> QED
        BY <4>1, <4>2
    <3> QED
      BY <1>a, <2>1, <2>2, <3>1, <3>2, <3>3 DEF StatesRead, Running
  <2> QED
    BY <2>3, <2>4
<1>3. CASE ReadRemote \/ CopyGeneration
  <2>1. /\ pc \in {"remote", "copy"}
        /\ UNCHANGED <<backend, states, request, stood, unread, reading>>
    BY <1>3 DEF ReadRemote, CopyGeneration
  <2>2. reading \in Entries /\ backend # "local" /\ <<reading, "local">> \notin stood
    BY <1>a, <2>1 DEF StatesRead
  <2>3. CASE pc' \in {"copy", "refused"}
    BY <1>a, <2>1, <2>2, <2>3 DEF StatesRead, Running, Unrecorded, Listed
  <2>4. CASE pc' \notin {"copy", "refused"}
    <3>1. pc' = "local" /\ Acceptable(states[reading]["remote"])
      BY <1>3, <2>4 DEF ReadRemote, CopyGeneration, Refuse
    <3>2. <<reading, "remote">> \notin stood
      BY <1>a, <2>2, <3>1 DEF StatesRead, Acceptable, Places
    <3>3. Unrecorded(reading)
      BY <2>2, <3>2 DEF Unrecorded
    <3> QED
      BY <1>a, <2>1, <3>1, <3>3 DEF StatesRead, Running, Unrecorded, Listed
  <2> QED
    BY <2>3, <2>4
<1>4. CASE AskProvider
  BY <1>a, <1>4 DEF AskProvider, StatesRead, Running, Unrecorded, Listed
<1>5. CASE LookupFails \/ CreateIdentity
  BY <1>a, <1>5 DEF LookupFails, CreateIdentity, Refuse, StatesRead, Running, Unrecorded, Listed
<1>6. ASSUME NEW l \in Lists, ReadPage(l) PROVE StatesRead'
  <2>1. /\ pc = l /\ UNCHANGED <<backend, states, request, stood, unread, reading>>
        /\ pc' \in {"machines", "keys", "verified", "refused"}
    BY <1>6, ReadPageCases DEF Lists, Turns, Ends
  <2> QED
    BY <1>a, <2>1 DEF StatesRead, Running, Unrecorded, Listed, Lists
<1>7. ASSUME NEW l \in Lists, NEW n \in NamesIn(l), Make(l, n) PROVE StatesRead'
  BY <1>a, <1>7 DEF Make, StatesRead, Running, Unrecorded, Listed
<1>8. ASSUME NEW l \in Lists, NEW i \in live[l], Remove(l, i) PROVE StatesRead'
  BY <1>a, <1>8 DEF Remove, StatesRead, Running, Unrecorded, Listed
<1>9. ASSUME NEW e \in Entries, NEW p \in Places, NEW c \in Contents, SaveState(e, p, c)
      PROVE  StatesRead'
  <2>1. /\ states' = [states EXCEPT ![e][p] = c] /\ c \in {"present", "empty"}
        /\ stood' = IF c = "empty" THEN stood \ {<<e, p>>} ELSE stood
        /\ UNCHANGED <<backend, request, pc, unread, reading>>
    BY <1>9 DEF SaveState
  <2>2. ASSUME NEW f \in Entries, NEW q \in Places, <<f, q>> \in stood' PROVE states'[f][q] = "present"
    <3>1. states[f][q] = "present"
      BY <1>a, <2>1, <2>2 DEF StatesRead
    <3>2. CASE f = e /\ q = p
      BY <1>b, <2>1, <2>2, <3>2
    <3>3. CASE ~(f = e /\ q = p)
      BY <1>b, <2>1, <3>1, <3>3
    <3> QED
      BY <3>2, <3>3
  <2>3. stood' \subseteq stood
    BY <2>1
  <2> QED
    BY <1>a, <2>1, <2>2, <2>3 DEF StatesRead, Running, Unrecorded, Listed
<1>10. CASE UNCHANGED vars
  BY <1>a, <1>10 DEF vars, StatesRead, Running, Unrecorded, Listed
<1> QED
  BY <1>1, <1>2, <1>3, <1>4, <1>5, <1>6, <1>7, <1>8, <1>9, <1>10 DEF Next

-----------------------------------------------------------------------------
(* The lists.                                                               *)

(* What is added apart is counted apart.                                    *)
LEMMA Apart ==
  ASSUME NEW P, IsFiniteSet(P), NEW Q, IsFiniteSet(Q), P \cap Q = {}
  PROVE  /\ Cardinality(P) \in Nat /\ Cardinality(Q) \in Nat
         /\ Cardinality(P \cup Q) = Cardinality(P) + Cardinality(Q)
<1>1. Cardinality(P) \in Nat /\ Cardinality(Q) \in Nat
  BY FS_CardinalityType
<1>2. Cardinality(P \cap Q) = 0
  BY FS_EmptySet
<1>3. Cardinality(P \cup Q) = Cardinality(P) + Cardinality(Q) - Cardinality(P \cap Q)
  BY FS_Union
<1> QED
  BY <1>1, <1>2, <1>3

(* Nothing of a list is behind before its first page.                       *)
LEMMA FirstPage ==
  ASSUME TypeOK, NEW l \in Lists, live'[l] = live[l], pages' = 0, cursor' = 0, count' = 0
  PROVE  Reading(l)'
<1>1. /\ live[l] \in SUBSET Nat /\ live[l] \subseteq 1 .. Len(made[l]) /\ IsFiniteSet(live[l])
      /\ Cardinality(live[l]) \in Nat /\ Len(made[l]) \in Nat
  BY Account
<1>2. Behind(l)' = {}
  <2>1. \A i \in live[l] : Rank(live[l], i) \in Nat /\ ~(i <= 0)
    BY <1>1, RankFacts
  <2>2. 0 * PageSize = 0
    BY Multiples
  <2> QED
    BY <2>1, <2>2 DEF Behind
<1>3. (Behind(l) \cap Clean(l))' = {} /\ Cardinality({}) = 0
  BY <1>2, FS_EmptySet
<1>4. pages' * PageSize = 0
  BY Multiples
<1> QED
  BY <1>1, <1>2, <1>3, <1>4 DEF Reading

(* What the pages that end a list have shown.                               *)
LEMMA LastPage ==
  ASSUME TypeOK, Turned, ~overridden, NEW l \in Lists, pc = l, Reading(l),
         NEW items \in SUBSET PageItems(l), NEW declared \in Totals(l),
         \A i \in items : made[l][i] \notin Expected(l),
         ~Counts => items = PageItems(l),
         pages > 0 /\ total # None => declared = total,
         ~More(l, PageItems(l)),
         declared # None => count + Cardinality(items) = declared
  PROVE  Covered(l)
<1> DEFINE L == live[l]
           S == Behind(l) \cap Clean(l)
<1>0. IsFiniteSet(L) /\ Cardinality(L) \in Nat /\ pages \in Nat /\ count \in Nat
  BY Account, BoundsAssumption DEF TypeOK
<1>1. /\ PageItems(l) \in SUBSET (L \ Behind(l)) /\ L = Behind(l) \cup PageItems(l)
      /\ items \in SUBSET Clean(l) /\ Clean(l) \in SUBSET L
  BY PageFacts DEF Clean
<1> SUFFICES ASSUME ~Shifted(l) PROVE L = Clean(l)
  BY DEF Covered, Clean
<1>2. CASE ~Counts
  BY <1>1, <1>2 DEF Reading
<1>3. CASE Counts
  <2>1. declared = Cardinality(L) /\ declared # None
    BY <1>0, <1>3, Inventories, NoneAssumption DEF Totals
  <2>2. count <= Cardinality(S)
    <3>1. CASE "removed" \notin moved[l]
      BY <1>3, <3>1 DEF Reading
    <3>2. CASE "made" \notin moved[l] /\ pages > 0
      <4>1. total \in Nat /\ (Cardinality(L) = total => count <= Cardinality(S))
        BY <1>3, <3>2 DEF Reading
      <4> QED
        BY <2>1, <3>2, <4>1, NoneAssumption
    <3>3. CASE ~(pages > 0)
      <4>1. count = 0
        BY <1>0, <3>3 DEF Turned
      <4>2. Cardinality(S) \in Nat
        BY <1>0, <1>1, FS_Subset, FS_CardinalityType
      <4> QED
        BY <4>1, <4>2
    <3> QED
      BY <1>3, <3>1, <3>2, <3>3 DEF Shifted
  <2>3. S \in SUBSET L /\ items \in SUBSET L /\ S \cap items = {}
    BY <1>1
  <2> HIDE DEF S, L
  <2>4. L = S \cup items
    <3>1. IsFiniteSet(L) /\ S \in SUBSET L /\ items \in SUBSET L /\ S \cap items = {}
      BY <1>0, <2>3
    <3>2. /\ Cardinality(S) \in Nat /\ Cardinality(items) \in Nat
          /\ Cardinality(S \cup items) = Cardinality(S) + Cardinality(items)
      <4>1. IsFiniteSet(S) /\ IsFiniteSet(items)
        BY ONLY <3>1, FS_Subset
      <4> QED
        BY ONLY <3>1, <4>1, Apart
    <3>5. /\ Cardinality(S \cup items) <= Cardinality(L)
          /\ Cardinality(L) = Cardinality(S \cup items) => L = S \cup items
      <4>1. S \cup items \in SUBSET L
        BY <3>1
      <4> QED
        BY ONLY <3>1, <4>1, FS_Subset
    <3>3. count + Cardinality(items) = Cardinality(L)
      BY <2>1
    <3>4. Cardinality(L) = Cardinality(S \cup items)
      <4>1. Cardinality(L) \in Nat /\ Cardinality(S) \in Nat /\ Cardinality(items) \in Nat /\ count \in Nat
        BY <1>0, <3>2
      <4> QED
        BY <2>2, <3>2, <3>3, <3>5, <4>1
    <3> QED
      BY <3>4, <3>5
  <2> QED
    BY <1>1, <2>4 DEF S, L
<1> QED
  BY <1>2, <1>3

(* A page that is not the last.                                             *)
LEMMA NextPage ==
  ASSUME TypeOK, Turned, ~overridden, NEW l \in Lists, pc = l, Reading(l),
         NEW items \in SUBSET PageItems(l), NEW declared \in Totals(l),
         \A i \in items : made[l][i] \notin Expected(l),
         ~Counts => items = PageItems(l),
         pages > 0 /\ total # None => declared = total,
         Turns(l, PageItems(l), items, declared),
         UNCHANGED <<provider, made, live, request, moved>>
  PROVE  Reading(l)'
<1> DEFINE L == live[l]
           S == Behind(l) \cap Clean(l)
           N == BehindNext(l, PageItems(l))
<1>0. IsFiniteSet(L) /\ Cardinality(L) \in Nat /\ pages \in Nat /\ count \in Nat
  BY Account, BoundsAssumption DEF TypeOK
<1>1. /\ PageItems(l) \in SUBSET (L \ Behind(l)) /\ N = Behind(l) \cup PageItems(l)
      /\ Numbered => (pages + 1) * PageSize < Cardinality(L)
      /\ items \in SUBSET Clean(l) /\ Clean(l) \in SUBSET L
  BY PageFacts DEF Clean, Turns
<1>2. /\ pages' = pages + 1 /\ cursor' = LastItem(PageItems(l)) /\ total' = declared
      /\ count' = count + Cardinality(items)
  BY DEF Turns
<1>3. Behind(l)' = N /\ Clean(l)' = Clean(l) /\ Counts' = Counts /\ Shifted(l)' = Shifted(l)
  BY <1>2 DEF Behind, BehindNext, Clean, Counts, Shifted, Numbered, Expected, Tenants
<1>4. ~Counts' /\ ~Shifted(l)' => Behind(l)' \subseteq Clean(l)'
  BY <1>1, <1>3 DEF Reading
<1>5. provider' = "hcloud" /\ ~Shifted(l)' => pages' * PageSize <= Cardinality(live'[l])
  <2>1. pages' * PageSize \in Nat
    BY <1>0, <1>2, Multiples
  <2> QED
    BY <1>0, <1>1, <1>2, <2>1 DEF Numbered
<1>6. count <= Cardinality(S) => count' <= Cardinality(Behind(l)' \cap Clean(l)')
  <2>1. S \in SUBSET L /\ items \in SUBSET L /\ S \cap items = {} /\ N \in SUBSET L
    BY <1>1 DEF BehindNext
  <2>2. S \cup items \in SUBSET (N \cap Clean(l)) /\ N \cap Clean(l) \in SUBSET L
    BY <1>1, <2>1
  <2> HIDE DEF S, L, N
  <2>3. IsFiniteSet(N \cap Clean(l)) /\ Cardinality(N \cap Clean(l)) \in Nat
    BY <1>0, <2>2, FS_Subset, FS_CardinalityType
  <2>4. Cardinality(S \cup items) <= Cardinality(N \cap Clean(l))
    BY <2>2, <2>3, FS_Subset
  <2>5. /\ Cardinality(S \cup items) = Cardinality(S) + Cardinality(items)
        /\ Cardinality(S) \in Nat /\ Cardinality(items) \in Nat
    <3>1. IsFiniteSet(L) /\ S \in SUBSET L /\ items \in SUBSET L /\ S \cap items = {}
      BY <1>0, <2>1
    <3>2. QED
      <4>1. IsFiniteSet(S) /\ IsFiniteSet(items)
        BY ONLY <3>1, FS_Subset
      <4> QED
        BY ONLY <3>1, <4>1, Apart
  <2> QED
    BY <1>0, <1>2, <1>3, <2>3, <2>4, <2>5
<1>7. Counts' /\ "removed" \notin moved'[l] => count' <= Cardinality(Behind(l)' \cap Clean(l)')
  BY <1>3, <1>6 DEF Reading
<1>8. ASSUME Counts'
      PROVE  /\ total' \in Nat /\ Cardinality(live'[l]) <= total'
             /\ "made" \notin moved'[l] => count' <= Cardinality(Behind(l)' \cap Clean(l)')
  <2>1. declared = Cardinality(L) /\ declared # None
    BY <1>0, <1>3, <1>8, Inventories, NoneAssumption DEF Totals
  <2>2. ASSUME "made" \notin moved[l] PROVE count <= Cardinality(S)
    <3>1. CASE pages > 0
      <4>1. total \in Nat /\ (Cardinality(L) = total => count <= Cardinality(S))
        BY <1>3, <1>8, <2>2, <3>1 DEF Reading
      <4> QED
        BY <2>1, <3>1, <4>1, NoneAssumption
    <3>2. CASE ~(pages > 0)
      <4>1. count = 0
        BY <1>0, <3>2 DEF Turned
      <4>2. Cardinality(S) \in Nat
        BY <1>0, <1>1, FS_Subset, FS_CardinalityType
      <4> QED
        BY <4>1, <4>2
    <3> QED
      BY <3>1, <3>2
  <2> QED
    BY <1>0, <1>2, <1>6, <2>1, <2>2
<1> QED
  BY <1>3, <1>4, <1>5, <1>7, <1>8 DEF Reading

(* An item made meanwhile comes after all that were read.                   *)
LEMMA MakeReading ==
  ASSUME TypeOK, Turned, NEW l \in Lists, pc = l, Reading(l), NEW n \in NamesIn(l), Make(l, n)
  PROVE  Reading(l)'
<1> DEFINE L == live[l]
           m == Len(made[l]) + 1
           S == Behind(l) \cap Clean(l)
<1>0. /\ IsFiniteSet(L) /\ Cardinality(L) \in Nat /\ L \in SUBSET Nat /\ L \subseteq 1 .. Len(made[l])
      /\ Len(made[l]) \in Nat /\ m \in Nat /\ made[l] \in Seq(NamesIn(l))
      /\ pages \in Nat /\ cursor \in Nat /\ cursor <= Len(made[l]) /\ pages * PageSize \in Nat
  <2>1. pages \in Nat /\ cursor \in Nat
    BY BoundsAssumption DEF TypeOK
  <2>2. cursor <= Len(made[l])
    BY DEF Turned
  <2>3. pages * PageSize \in Nat
    BY <2>1, Multiples
  <2> QED
    BY <2>1, <2>2, <2>3, Account
<1>1. /\ made'[l] = Append(made[l], n) /\ live'[l] = L \cup {m}
      /\ moved'[l] = moved[l] \cup {"made"}
      /\ UNCHANGED <<provider, request, pages, cursor, count, total>>
  BY MakeFacts
<1>2. m \notin L /\ \A i \in L : i \in Nat /\ i < m
  BY <1>0
<1>3. /\ IsFiniteSet(live'[l]) /\ Cardinality(live'[l]) = Cardinality(L) + 1
      /\ live'[l] \in SUBSET Nat
  <2> HIDE DEF L, m
  <2>1. IsFiniteSet(L \cup {m}) /\ Cardinality(L \cup {m}) = Cardinality(L) + 1
    BY <1>0, <1>2, FS_AddElement
  <2> QED
    BY <1>0, <1>1, <2>1
<1>4. \A i \in L : made'[l][i] = made[l][i]
  BY <1>0, <1>1, AppendProperties
<1> HIDE DEF L, m
<1>5. \A i \in L : Rank(live'[l], i) = Rank(L, i)
  <2> SUFFICES ASSUME NEW i \in L PROVE {j \in live'[l] : j < i} = {j \in L : j < i}
    BY DEF Rank
  <2>1. ~(m < i)
    BY <1>0, <1>2
  <2> QED
    BY <1>1, <2>1
<1>6. Rank(live'[l], m) = Cardinality(L)
  <2>1. {j \in live'[l] : j < m} = L
    <3>1. ~(m < m)
      BY <1>0
    <3> QED
      BY <1>1, <1>2, <3>1
  <2> QED
    BY <2>1 DEF Rank
<1>7. /\ Counts' = Counts /\ Numbered' = Numbered /\ Expected(l)' = Expected(l)
      /\ Shifted(l) => Shifted(l)'
  BY <1>1 DEF Counts, Numbered, Expected, Tenants, Shifted
<1>8. Behind(l) \in SUBSET Behind(l)' /\ Clean(l) \in SUBSET Clean(l)' /\ Behind(l)' \in SUBSET live'[l]
  BY <1>1, <1>4, <1>5, <1>7 DEF Behind, Clean, L
<1>9. ~Counts' /\ ~Shifted(l)' => Behind(l)' \subseteq Clean(l)'
  <2> SUFFICES ASSUME ~Counts, ~Shifted(l) PROVE Behind(l)' \subseteq Clean(l)'
    BY <1>7
  <2>1. Behind(l) \subseteq Clean(l)
    BY DEF Reading
  <2>2. m \notin Behind(l)'
    <3>1. CASE Numbered
      <4>1. provider = "hcloud"
        BY <3>1 DEF Numbered, Counts
      <4>2. pages * PageSize <= Cardinality(L)
        BY <4>1 DEF Reading, L
      <4>3. ~(Rank(live'[l], m) < pages * PageSize)
        BY <1>0, <1>6, <4>2
      <4> QED
        BY <1>1, <1>7, <3>1, <4>3 DEF Behind
    <3>2. CASE ~Numbered
      <4>1. ~(m <= cursor)
        BY <1>0 DEF m
      <4> QED
        BY <1>1, <1>7, <3>2, <4>1 DEF Behind
    <3> QED
      BY <3>1, <3>2
  <2>3. ASSUME NEW i \in Behind(l)' PROVE i \in Behind(l)
    <3>1. i \in L
      BY <1>1, <2>2, <2>3 DEF Behind
    <3> QED
      BY <1>1, <1>5, <1>7, <2>3, <3>1 DEF Behind, L
  <2> QED
    BY <1>8, <2>1, <2>3
<1>10. provider' = "hcloud" /\ ~Shifted(l)' => pages' * PageSize <= Cardinality(live'[l])
  <2> SUFFICES ASSUME provider = "hcloud", ~Shifted(l) PROVE pages * PageSize <= Cardinality(live'[l])
    BY <1>1, <1>7
  <2>1. pages * PageSize <= Cardinality(L)
    BY DEF Reading, L
  <2> QED
    BY <1>0, <1>3, <2>1
<1>11. Counts' /\ "removed" \notin moved'[l] => count' <= Cardinality(Behind(l)' \cap Clean(l)')
  <2> SUFFICES ASSUME Counts, "removed" \notin moved[l]
               PROVE  count <= Cardinality(Behind(l)' \cap Clean(l)')
    BY <1>1, <1>7
  <2>1. count <= Cardinality(S)
    BY DEF Reading
  <2>2. S \in SUBSET (Behind(l)' \cap Clean(l)') /\ Behind(l)' \cap Clean(l)' \in SUBSET live'[l]
    BY <1>8
  <2> HIDE DEF S
  <2>3. /\ IsFiniteSet(Behind(l)' \cap Clean(l)') /\ Cardinality(Behind(l)' \cap Clean(l)') \in Nat
    BY <1>3, <2>2, FS_Subset, FS_CardinalityType
  <2>4. Cardinality(S) <= Cardinality(Behind(l)' \cap Clean(l)') /\ Cardinality(S) \in Nat
    BY <2>2, <2>3, FS_Subset, FS_CardinalityType
  <2> QED
    BY <2>1, <2>3, <2>4 DEF TypeOK
<1>12. Counts' /\ pages' > 0 => total' \in Nat
  BY <1>1, <1>7 DEF Reading
<1> QED
  BY <1>1, <1>9, <1>10, <1>11, <1>12 DEF Reading

(* An item removed meanwhile takes nothing from what was seen.              *)
LEMMA RemoveReading ==
  ASSUME TypeOK, Turned, NEW l \in Lists, pc = l, Reading(l), NEW i \in live[l], Remove(l, i)
  PROVE  Reading(l)'
<1>0. IsFiniteSet(live[l]) /\ Cardinality(live[l]) \in Nat
  BY Account
<1>1. /\ live'[l] = live[l] \ {i} /\ moved'[l] = moved[l] \cup {"removed"}
      /\ UNCHANGED <<provider, made, request, pages, cursor, count, total>>
  BY RemoveFacts
<1>2. Cardinality(live'[l]) = Cardinality(live[l]) - 1
  BY <1>0, <1>1, FS_RemoveElement
<1>3. /\ Counts' = Counts /\ Numbered' = Numbered /\ Expected(l)' = Expected(l)
      /\ Shifted(l) => Shifted(l)'
      /\ provider = "hcloud" => Shifted(l)'
  BY <1>1 DEF Counts, Numbered, Expected, Tenants, Shifted
<1>4. ~Counts' /\ ~Shifted(l)' => Behind(l)' \subseteq Clean(l)'
  <2> SUFFICES ASSUME ~Counts, ~Shifted(l), ~Shifted(l)' PROVE Behind(l)' \subseteq Clean(l)'
    BY <1>3
  <2>0. ~Numbered
    BY <1>3 DEF Counts, Numbered
  <2>1. Behind(l) \subseteq Clean(l)
    BY DEF Reading
  <2> QED
    BY <1>1, <1>3, <2>0, <2>1 DEF Behind, Clean
<1>5. Counts' /\ pages' > 0 =>
          /\ total' \in Nat
          /\ "made" \notin moved'[l] =>
                 /\ Cardinality(live'[l]) <= total'
                 /\ Cardinality(live'[l]) # total'
  <2> SUFFICES ASSUME Counts, pages > 0
               PROVE  /\ total \in Nat
                      /\ "made" \notin moved[l] =>
                             /\ Cardinality(live'[l]) <= total
                             /\ Cardinality(live'[l]) # total
    BY <1>1, <1>3
  <2>1. total \in Nat /\ ("made" \notin moved[l] => Cardinality(live[l]) <= total)
    BY DEF Reading
  <2> QED
    BY <1>0, <1>2, <2>1
<1>6. provider' = "hcloud" => Shifted(l)'
  BY <1>1, <1>3
<1>7. "removed" \in moved'[l]
  BY <1>1
<1> QED
  BY <1>4, <1>5, <1>6, <1>7 DEF Reading

(* A list that was read stays covered.                                      *)
LEMMA StaysCovered ==
  ASSUME TypeOK, NEW l \in Lists, Covered(l), WasRead(l), Inv, [Next]_vars, pc # "idle"
  PROVE  Covered(l)'
<1> USE DEF environment, account, paging, history
<1>1. CASE UNCHANGED <<provider, request, made, live, moved, late>>
  BY <1>1 DEF Covered, Expected, Tenants, Shifted, Counts
<1>2. CASE \E k \in Lists : \E n \in NamesIn(k) : Make(k, n)
  <2>1. PICK k \in Lists : \E n \in NamesIn(k) : Make(k, n)
    BY <1>2
  <2>0. PICK n \in NamesIn(k) : Make(k, n)
    BY <2>1
  <2>2. /\ made' = [j \in Lists |-> IF j = k THEN Append(made[k], n) ELSE made[j]]
        /\ live' = [j \in Lists |-> IF j = k THEN live[k] \cup {Len(made[k]) + 1} ELSE live[j]]
        /\ moved' = [j \in Lists |-> IF j = k /\ pc = k THEN moved[k] \cup {"made"} ELSE moved[j]]
        /\ late' = [j \in Lists |-> IF j = k /\ WasRead(k) THEN late[k] \cup {n} ELSE late[j]]
        /\ UNCHANGED <<provider, request>>
    BY <2>0, MakeFacts
  <2>3. Expected(l)' = Expected(l) /\ (Shifted(l) => Shifted(l)') /\ late[l] \subseteq late'[l]
    BY <2>2 DEF Expected, Tenants, Shifted, Counts
  <2>4. CASE k = l
    <3>1. /\ made[l] \in Seq(NamesIn(l)) /\ Len(made[l]) \in Nat /\ live[l] \subseteq 1 .. Len(made[l])
      BY Account
    <3>2. made'[l] = Append(made[l], n) /\ live'[l] = live[l] \cup {Len(made[l]) + 1} /\ n \in late'[l]
      BY <2>2, <2>4
    <3>3. made'[l][Len(made[l]) + 1] = n /\ \A i \in live[l] : made'[l][i] = made[l][i]
      BY <2>4, <3>1, <3>2, AppendProperties
    <3> QED
      BY <2>3, <3>2, <3>3 DEF Covered
  <2>5. CASE k # l
    <3>1. made'[l] = made[l] /\ live'[l] = live[l]
      BY <2>2, <2>5
    <3> QED
      BY <2>3, <3>1 DEF Covered
  <2> QED
    BY <2>4, <2>5
<1>3. CASE \E k \in Lists : \E i \in live[k] : Remove(k, i)
  <2>1. PICK k \in Lists : \E i \in live[k] : Remove(k, i)
    BY <1>3
  <2>2. PICK i \in live[k] : Remove(k, i)
    BY <2>1
  <2>3. /\ live' = [j \in Lists |-> IF j = k THEN live[k] \ {i} ELSE live[j]]
        /\ moved' = [j \in Lists |-> IF j = k /\ pc = k THEN moved[k] \cup {"removed"} ELSE moved[j]]
        /\ UNCHANGED <<provider, request, made, late>>
    BY <2>2, RemoveFacts
  <2>4. live'[l] \subseteq live[l] /\ Expected(l)' = Expected(l) /\ (Shifted(l) => Shifted(l)')
    BY <2>3 DEF Expected, Tenants, Shifted, Counts
  <2> QED
    BY <2>3, <2>4 DEF Covered
<1>4. ASSUME ~(\E k \in Lists : \E n \in NamesIn(k) : Make(k, n)),
             ~(\E k \in Lists : \E i \in live[k] : Remove(k, i))
      PROVE  UNCHANGED <<provider, request, made, live, moved, late>>
  <2>1. CASE ReadLocal \/ ReadRemote \/ CopyGeneration \/ AskProvider \/ LookupFails \/ CreateIdentity
    BY <2>1 DEF ReadLocal, ReadRemote, CopyGeneration, AskProvider, LookupFails, CreateIdentity
  <2>2. CASE \E k \in Lists : ReadPage(k)
    BY <2>2 DEF ReadPage
  <2>3. CASE \E e \in Entries, p \in Places, c \in Contents : SaveState(e, p, c)
    BY <2>3 DEF SaveState
  <2>4. CASE UNCHANGED vars
    BY <2>4 DEF vars
  <2>5. ~Start
    BY DEF Start
  <2> QED
    BY <1>4, <2>1, <2>2, <2>3, <2>4, <2>5 DEF Next
<1> QED
  BY <1>1, <1>2, <1>3, <1>4

LEMMA ListsStep == Inv /\ [Next]_vars => ListsRead'
<1> SUFFICES ASSUME Inv, [Next]_vars PROVE ListsRead'
  OBVIOUS
<1>a. TypeOK /\ Turned /\ Verifiable /\ ListsRead
  BY DEF Inv
<1>p. "machines" \in Lists /\ "keys" \in Lists
  BY DEF Lists
<1> USE DEF environment, account, paging, history
<1>1. ASSUME NEW l \in Lists, pc = "verified" \/ pc = "created" \/ (pc = "keys" /\ l = "machines")
      PROVE  Covered(l)'
  <2>1. Covered(l)
    BY <1>1, <1>a DEF ListsRead, Lists
  <2>2. CASE WasRead(l)
    BY <1>1, <1>a, <2>1, <2>2, StaysCovered
  <2>3. CASE pc = "created"
    <3>1. UNCHANGED <<provider, request, made, live, moved, late>>
      <4>1. ~(\E k \in Lists : ReadPage(k)) /\ ~Happens
        BY <2>3 DEF ReadPage, Happens, Lists
      <4>2. CASE LookupFails \/ UNCHANGED vars
        BY <4>2 DEF LookupFails, vars
      <4> QED
        BY <2>3, <4>1, <4>2
        DEF Next, Start, ReadLocal, ReadRemote, CopyGeneration, AskProvider, CreateIdentity,
            Make, Remove, SaveState
    <3> QED
      BY <2>1, <3>1 DEF Covered, Expected, Tenants, Shifted, Counts
  <2> QED
    BY <1>1, <2>2, <2>3 DEF WasRead
<1>2. CASE Start \/ ReadLocal \/ ReadRemote \/ CopyGeneration \/ LookupFails
  BY <1>2 DEF Start, ReadLocal, ReadRemote, CopyGeneration, LookupFails, Refuse, ListsRead, Lists
<1>3. CASE AskProvider
  <2>1. pc' = "machines" /\ UNCHANGED <<live, pages, cursor, count>> /\ pc = "local"
    BY <1>3 DEF AskProvider
  <2>2. pages = 0 /\ cursor = 0 /\ count = 0
    BY <1>a, <2>1 DEF Turned
  <2>3. Reading("machines")'
    BY <1>a, <1>p, <2>1, <2>2, FirstPage
  <2> QED
    BY <2>1, <2>3 DEF ListsRead, Lists
<1>4. CASE CreateIdentity
  <2>1. pc = "verified" /\ pc' = "created"
    BY <1>4 DEF CreateIdentity
  <2> QED
    BY <1>1, <1>p, <2>1 DEF ListsRead, Lists
<1>5. ASSUME NEW l \in Lists, ReadPage(l) PROVE ListsRead'
  <2>1. /\ pc = l /\ ~overridden
        /\ UNCHANGED <<provider, made, live, request, moved, late>>
    BY <1>a, <1>5, ReadPageCases DEF Verifiable, Running, Lists
  <2>2. Reading(l)
    BY <1>a, <2>1 DEF ListsRead
  <2>3. CASE pc' = "refused"
    BY <2>3 DEF ListsRead, Lists
  <2>4. ASSUME NEW items \in SUBSET PageItems(l), NEW declared \in Totals(l),
               \A i \in items : made[l][i] \notin Expected(l),
               ~Counts => items = PageItems(l),
               pages > 0 /\ total # None => declared = total,
               Turns(l, PageItems(l), items, declared)
        PROVE  ListsRead'
    <3>1. Reading(l)'
      BY <1>a, <2>1, <2>2, <2>4, NextPage
    <3>2. pc' = pc
      BY <2>4 DEF Turns
    <3> QED
      BY <1>1, <1>p, <2>1, <3>1, <3>2 DEF ListsRead, Lists
  <2>5. ASSUME NEW items \in SUBSET PageItems(l), NEW declared \in Totals(l),
               \A i \in items : made[l][i] \notin Expected(l),
               ~Counts => items = PageItems(l),
               pages > 0 /\ total # None => declared = total,
               Ends(l, PageItems(l), items, declared)
        PROVE  ListsRead'
    <3>1. /\ ~More(l, PageItems(l)) /\ (declared # None => count + Cardinality(items) = declared)
          /\ pc' = IF l = "machines" /\ Registered THEN "keys" ELSE "verified"
          /\ pages' = 0 /\ cursor' = 0 /\ count' = 0
      BY <2>5 DEF Ends
    <3>2. Covered(l)
      BY <1>a, <2>1, <2>2, <2>5, <3>1, LastPage
    <3>3. \A k \in Lists : Covered(k) => Covered(k)'
      BY <2>1 DEF Covered, Expected, Tenants, Shifted, Counts
    <3>4. Reading("keys")'
      BY <1>a, <1>p, <2>1, <3>1, FirstPage
    <3>5. CASE l = "keys"
      <4>1. Covered("machines")'
        BY <1>1, <1>p, <2>1, <3>5
      <4> QED
        BY <1>p, <3>1, <3>2, <3>3, <3>5, <4>1 DEF ListsRead, Lists
    <3>6. CASE l = "machines" /\ Registered
      BY <1>p, <3>1, <3>2, <3>3, <3>4, <3>6 DEF ListsRead
    <3>7. CASE l = "machines" /\ ~Registered
      <4>1. Expected("keys") = {}
        BY <1>a, <2>1, <3>7 DEF Verifiable, Running, Expected, Lists
      <4>2. Covered("keys")
        BY <4>1 DEF Covered
      <4> QED
        BY <1>p, <3>1, <3>2, <3>3, <3>7, <4>2 DEF ListsRead, Lists
    <3> QED
      BY <3>5, <3>6, <3>7 DEF Lists
  <2> QED
    BY <1>5, <2>3, <2>4, <2>5, ReadPageCases
<1>6. ASSUME NEW l \in Lists, NEW n \in NamesIn(l), Make(l, n) PROVE ListsRead'
  <2>1. /\ made' = [k \in Lists |-> IF k = l THEN Append(made[l], n) ELSE made[k]]
        /\ live' = [k \in Lists |-> IF k = l THEN live[l] \cup {Len(made[l]) + 1} ELSE live[k]]
        /\ moved' = [k \in Lists |-> IF k = l /\ pc = l THEN moved[l] \cup {"made"} ELSE moved[k]]
        /\ UNCHANGED <<provider, request, pc, pages, cursor, count, total>>
    BY <1>a, <1>6, MakeFacts
  <2>2. ASSUME pc \in Lists PROVE Reading(pc)'
    <3>1. CASE pc = l
      <4>1. Reading(l)'
        BY <1>6, <1>a, <2>2, <3>1, MakeReading DEF ListsRead
      <4> QED
        BY <2>1, <3>1, <4>1
    <3>2. CASE pc # l
      <4>1. made'[pc] = made[pc] /\ live'[pc] = live[pc] /\ moved'[pc] = moved[pc]
        BY <2>1, <2>2, <3>2
      <4> QED
        BY <1>a, <2>1, <2>2, <4>1
        DEF ListsRead, Reading, Behind, Clean, Counts, Numbered, Shifted, Expected, Tenants
    <3> QED
      BY <3>1, <3>2
  <2> QED
    BY <1>1, <1>p, <2>1, <2>2 DEF ListsRead, Lists
<1>7. ASSUME NEW l \in Lists, NEW i \in live[l], Remove(l, i) PROVE ListsRead'
  <2>1. /\ live' = [k \in Lists |-> IF k = l THEN live[l] \ {i} ELSE live[k]]
        /\ moved' = [k \in Lists |-> IF k = l /\ pc = l THEN moved[l] \cup {"removed"} ELSE moved[k]]
        /\ UNCHANGED <<provider, made, request, pc, pages, cursor, count, total>>
    BY <1>a, <1>7, RemoveFacts
  <2>2. ASSUME pc \in Lists PROVE Reading(pc)'
    <3>1. CASE pc = l
      <4>1. Reading(l)'
        BY <1>7, <1>a, <2>2, <3>1, RemoveReading DEF ListsRead
      <4> QED
        BY <2>1, <3>1, <4>1
    <3>2. CASE pc # l
      <4>1. live'[pc] = live[pc] /\ moved'[pc] = moved[pc]
        BY <2>1, <2>2, <3>2
      <4> QED
        BY <1>a, <2>1, <2>2, <4>1
        DEF ListsRead, Reading, Behind, Clean, Counts, Numbered, Shifted, Expected, Tenants
    <3> QED
      BY <3>1, <3>2
  <2> QED
    BY <1>1, <1>p, <2>1, <2>2 DEF ListsRead, Lists
<1>8. CASE (\E e \in Entries, p \in Places, c \in Contents : SaveState(e, p, c)) \/ UNCHANGED vars
  <2>1. UNCHANGED <<provider, request, pc, made, live, moved, late, pages, cursor, count, total>>
    BY <1>8 DEF SaveState, vars
  <2> QED
    BY <1>a, <2>1
    DEF ListsRead, Reading, Covered, Behind, Clean, Counts, Numbered, Shifted, Expected, Tenants
<1> QED
  BY <1>2, <1>3, <1>4, <1>5, <1>6, <1>7, <1>8 DEF Next

-----------------------------------------------------------------------------
(* The theorems.                                                            *)

LEMMA InvInit == Init => Inv
<1> SUFFICES ASSUME Init PROVE Inv
  OBVIOUS
<1>1. ASSUME NEW l \in Lists
      PROVE  made[l] \in Seq(NamesIn(l)) /\ Len(made[l]) <= MaxMade /\ live[l] = 1 .. Len(made[l])
  <2>1. PICK n \in 0 .. MaxMade - 1 : made[l] \in [1 .. n -> NamesIn(l)]
    BY <1>1 DEF Init, Sequences
  <2>2. n \in Nat /\ n <= MaxMade
    BY <2>1, BoundsAssumption
  <2>3. made[l] \in Seq(NamesIn(l))
    BY <2>1, <2>2, SeqDef
  <2>4. Len(made[l]) = n
    <3>1. DOMAIN made[l] = 1 .. Len(made[l]) /\ Len(made[l]) \in Nat
      BY <2>3, LenProperties
    <3>2. 1 .. Len(made[l]) = 1 .. n
      BY <2>1, <3>1
    <3> QED
      BY <2>2, <3>1, <3>2
  <2>5. live[l] = DOMAIN made[l]
    BY DEF Init
  <2> QED
    BY <2>1, <2>2, <2>3, <2>4, <2>5
<1>2. /\ made = [l \in Lists |-> made[l]] /\ live = [l \in Lists |-> live[l]]
      /\ moved = [l \in Lists |-> {}] /\ late = [l \in Lists |-> {}]
  BY DEF Init
<1>3. states \in [Entries -> [Places -> Contents]]
  <2>1. states \in InitialStates
    BY DEF Init
  <2> QED
    BY <2>1 DEF InitialStates, Contents
<1>4. /\ pages = 0 /\ cursor = 0 /\ count = 0 /\ total = None /\ pc = "idle" /\ changes = 0 /\ stood = {}
      /\ unread = {} /\ reading = None /\ described = None
      /\ request = [consumers |-> {}, registrations |-> {}]
      /\ provider \in Providers /\ backend \in {"local", "object", "gcs"} /\ overridden \in BOOLEAN
  BY DEF Init
<1>5. /\ pages \in 0 .. MaxPages - 1 /\ cursor \in 0 .. MaxMade /\ count \in 0 .. MaxPages * PageSize
      /\ changes \in 0 .. MaxChanges
  <2>1. MaxPages * PageSize \in Nat
    BY BoundsAssumption
  <2> QED
    BY <1>4, <2>1, BoundsAssumption
<1>6. TypeOK
  BY <1>1, <1>2, <1>3, <1>4, <1>5 DEF TypeOK
<1>7. Turned
  BY <1>4, Multiples DEF Turned, Lists
<1>8. StatesRead /\ Verifiable /\ ListsRead
  BY <1>4 DEF StatesRead, Verifiable, ListsRead, Running, Lists
<1> QED
  BY <1>6, <1>7, <1>8 DEF Inv

LEMMA InvStep == Inv /\ [Next]_vars => Inv'
  BY InvTypeStep, StatesStep, ListsStep DEF Inv

(* The invariant that the proofs rest on holds of every run of              *)
(* verify_absent() and locked().                                            *)
THEOREM Invariance == Spec => []Inv
  BY InvInit, InvStep, PTL DEF Spec

(* Every variable keeps to its type.                                        *)
THEOREM TypeCorrect == Spec => []TypeOK
<1>1. Inv => TypeOK
  BY DEF Inv
<1> QED
  BY <1>1, Invariance, PTL

(* absence_state(): a state that records resources of a listed consumer or  *)
(* registration all along, in the backend or in a stale local file, never   *)
(* lets a verification succeed or an identity be created.                   *)
THEOREM RecordedRefuses == Spec => []RecordedStateRefuses
<1>1. Inv => RecordedStateRefuses
  <2> SUFFICES ASSUME Inv, Answered, NEW e \in request.consumers \cup request.registrations
               PROVE  /\ <<e, "local">> \notin stood
                      /\ backend # "local" => <<e, "remote">> \notin stood
    BY DEF RecordedStateRefuses
  <2>1. unread = {} /\ e \in Listed \ unread
    BY DEF Inv, StatesRead, Answered, Running, Listed
  <2> QED
    BY <2>1 DEF Inv, StatesRead, Answered, Running, Unrecorded
<1> QED
  BY <1>1, Invariance, PTL

(* verify_absent() and its paged inventories, at any number of items and    *)
(* pages: under an attestation, a listed machine or key exists only if it   *)
(* was made after its list had been read to the end, or if that list was    *)
(* checked by totals alone and items were removed and made while it was     *)
(* read.                                                                    *)
THEOREM AttestationHolds == Spec => []AttestationCovers
<1>1. Inv => AttestationCovers
  <2> SUFFICES ASSUME Inv, Answered, NEW l \in Lists, NEW n \in Expected(l), Exists(l, n)
               PROVE  n \in late[l] \/ Shifted(l)
    BY DEF AttestationCovers
  <2>1. Covered(l)
    BY DEF Inv, ListsRead, Answered, Lists
  <2>2. PICK i \in live[l] : made[l][i] = n
    BY DEF Exists, NamesAt
  <2> QED
    BY <2>1, <2>2 DEF Covered
<1> QED
  BY <1>1, Invariance, PTL

=============================================================================
