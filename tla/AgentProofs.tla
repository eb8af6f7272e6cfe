---------------------------- MODULE AgentProofs ----------------------------
(***************************************************************************)
(* Proofs about the two agents, which share no state.                      *)
(*                                                                         *)
(* AgentScope, for every set of closing tasks, every number of identities  *)
(* every lifetime and every time a command may take, with and without      *)
(* rotations and faults.                                                   *)
(*                                                                         *)
(* EndpointAgent, for any number of agents and nodes.  An action that the  *)
(* provider accepted is carried out when it likes, so the proof follows    *)
(* the one that the last agent may have left: seen with the address free,  *)
(* its unassignment is over, and seen with the address at its node, its    *)
(* assignment is.                                                          *)
(***************************************************************************)
EXTENDS AgentScope, EndpointAgent, TLAPS

-----------------------------------------------------------------------------
(* The scoped agent: AgentScope.                                            *)

(* The adapter has an agent from Spawn on, and has reaped it when it exits, *)
(* unless a signal came between two statements or killed it.                *)
AgentOwned ==
    /\ adapter = "spawn" => agent = "none"
    /\ adapter = "reaping" => agent = "gone"
    /\ AgentReaped

(* The one cleanup task ends when the process is gone or, with an error,    *)
(* when it has its SIGKILL, and callers with it.                            *)
CleanedWhenGone ==
    /\ closing = "cleaned" => Gone
    /\ closing \in {"kill", "abandoned"} => signal = "kill"
    /\ LeavesAfterCleanup

(* Until the closer sends a signal, none is under way; while no write has   *)
(* failed, the adapter holds at most the record of the entry it loads.      *)
LockInHand ==
    closing \in {"none", "eof"} =>
        /\ signal = "none"
        /\ ~uncertain => \A i \in 1 .. Entries :
               holder[i] = "mine" => i = next /\ adapter \in {"held", "publish", "release"}

Inv == TypeOK /\ AgentOwned /\ CleanedWhenGone /\ LockInHand

(* The time the commands of k entries may take.                             *)
Load(k) == k * PerEntry

(* How much of its entry's time has gone when the adapter comes to where it *)
(* is.                                                                      *)
Before ==
    IF adapter = "lock" THEN 0 ELSE IF adapter = "held" THEN MaxLock
    ELSE IF adapter = "list" THEN PerEntry ELSE MaxLock + MaxCommand

(* What was added in this pass of the renewal, the entry at hand included   *)
(* once ssh-add returned.                                                   *)
Added(i) == i < next \/ (i = next /\ adapter \in {"publish", "list"})

Longest == Interval + Load(Entries) + MaxCommand + MaxPublish

(* How old an identity can be while the scope is open: one added in this    *)
(* pass is younger than the pass, one from the pass before has waited for   *)
(* the rest of that pass, the interval and this pass so far.                *)
AgeBounded(i) ==
    /\ age[i] <= Longest
    /\ adapter \in {"spawn", "spawned"} => age[i] = 0
    /\ adapter \in Loading =>
           IF Added(i) THEN age[i] + MaxLock + MaxCommand <= Load(next - i) + Before + spent
           ELSE age[i] <= Load(Entries - i) + MaxPublish + MaxCommand + Interval
                          + Load(next - 1) + Before + spent
    /\ adapter \in {"announce", "wait"} =>
           age[i] <= Load(Entries - i) + MaxPublish + MaxCommand + spent

Timely ==
    closing = "none" =>
        /\ adapter \in {"spawn", "spawned", "announce"} => spent = 0
        /\ adapter \in {"spawn", "spawned"} => next = 1
        /\ adapter \in Loading \cup {"wait"} => spent <= Limit
        /\ adapter = "list" => next = Entries
        /\ \A i \in 1 .. Entries : AgeBounded(i)

-----------------------------------------------------------------------------
(* Half a lifetime is no longer than a lifetime.                            *)
LEMMA IntervalFits == Interval \in Nat /\ Interval <= Lifetime
  BY TimeAssumption DEF Interval

(* The switches the processes set stay switches.                            *)
LEMMA FlagsStep ==
  ASSUME FlagsOK, [Next]_vars
  PROVE  FlagsOK'
<1> USE DEF FlagsOK
<1>1. CASE \/ Tick \/ Spawn \/ EnterTry \/ LockAuthority \/ LockBusy \/ AddKey \/ AddKeyFails
           \/ Publish \/ List \/ ListFails \/ Renew \/ SeeEof \/ Reap \/ Exit \/ Killed \/ Closer
           \/ UNCHANGED vars
  BY <1>1 DEF Tick, Spawn, EnterTry, LockAuthority, LockBusy, AddKey, AddKeyFails, Publish, List,
              ListFails, Renew, SeeEof, Reap, Exit, Killed, Closer, TimesOut, CleanUp, Abandon, process, loop,
              vars
<1>2. CASE LockFails \/ PublishFails \/ Announce
  BY <1>2 DEF LockFails, PublishFails, Announce, process, loop
<1>5. CASE Interrupt
  <2>1. missed' \in BOOLEAN
    BY <1>5 DEF Interrupt
  <2> QED
    BY <1>5, <2>1 DEF Interrupt, loop
<1>3. ASSUME NEW i \in 1 .. Entries, Reserve(i) \/ Rotate(i) PROVE FlagsOK'
  BY <1>3 DEF Reserve, Rotate, process, loop
<1>4. ASSUME NEW c \in Callers, Close(c) \/ Cancel(c) \/ Return(c) PROVE FlagsOK'
  BY <1>4 DEF Close, Cancel, Return, BlueReturn, GreenReturn, RedReturn, Leave, process
<1> QED
  BY <1>1, <1>2, <1>3, <1>4, <1>5 DEF Next, Adapter, Signals

(* Every step keeps the types.                                              *)
LEMMA TypeStep ==
  ASSUME TypeOK, [Next]_vars
  PROVE  TypeOK'
<1> USE EntriesAssumption, TimeAssumption
<1>1. FlagsOK'
  BY FlagsStep DEF TypeOK
<1>2. CASE Tick
  <2>1. spent' \in Nat /\ age' \in [1 .. Entries -> Nat]
    BY <1>2, <1>1 DEF Tick, TypeOK
  <2> QED
    BY <1>2, <2>1, <1>1 DEF Tick, TypeOK, records, process, loop
<1>3. CASE Spawn \/ EnterTry \/ LockBusy \/ AddKeyFails
  <2>1. adapter' \in Locations /\ spent' = 0
    BY <1>3 DEF Spawn, EnterTry, LockBusy, AddKeyFails, Step, Locations, Loading
  <2>2. CASE Spawn
    BY <2>1, <2>2, <1>1 DEF Spawn, TypeOK, pass, records, process, loop
  <2>3. CASE EnterTry \/ LockBusy \/ AddKeyFails
    BY <2>1, <2>3, <1>1 DEF EnterTry, LockBusy, AddKeyFails, TypeOK, pass, records, process, loop
  <2> QED
    BY <1>3, <2>2, <2>3
<1>18. CASE LockAuthority \/ LockFails
  <2>1. /\ holder' \in [1 .. Entries -> {"free", "mine", "other"}]
        /\ adapter' \in Locations /\ spent' = 0
    BY <1>18 DEF LockAuthority, LockFails, Step, Hold, TypeOK, Locations, Loading
  <2> QED
    BY <1>18, <2>1, <1>1 DEF LockAuthority, LockFails, TypeOK, pass, process, loop
<1>4. CASE AddKey
  <2>1. age' \in [1 .. Entries -> Nat]
    BY <1>4 DEF AddKey, TypeOK
  <2> QED
    BY <1>4, <2>1, <1>1 DEF AddKey, Step, TypeOK, Locations, Loading, records, process, loop
<1>5. CASE ListFails
  BY <1>5, <1>1 DEF ListFails, Step, TypeOK, Locations, pass, records, process, loop
<1>6. CASE Announce
  BY <1>6, <1>1 DEF Announce, Step, TypeOK, Locations, pass, records, loop
<1>7. CASE List
  <2>1. adapter' \in Locations /\ spent' \in Nat
    BY <1>7 DEF List, Step, Locations
  <2> QED
    BY <1>7, <2>1, <1>1 DEF List, TypeOK, pass, records, process, loop
<1>8. CASE Renew
  BY <1>8, <1>1 DEF Renew, Step, TypeOK, Locations, Loading, records, process, loop
<1>9. CASE Publish
  <2>1. next' \in 1 .. Entries /\ spent' \in Nat
    BY <1>9, <1>1 DEF Publish, Step, TypeOK
  <2>2. adapter' \in Locations /\ holder' \in [1 .. Entries -> {"free", "mine", "other"}]
    BY <1>9, <1>1 DEF Publish, Step, Hold, TypeOK, Locations, Loading
  <2> QED
    BY <1>9, <2>1, <2>2, <1>1 DEF Publish, TypeOK, process, loop
<1>10. CASE PublishFails
  <2>1. /\ holder' \in [1 .. Entries -> {"free", "mine", "other"}]
        /\ adapter' \in Locations /\ spent' = 0
    BY <1>10 DEF PublishFails, Step, Hold, TypeOK, Locations, Loading
  <2> QED
    BY <1>10, <2>1, <1>1 DEF PublishFails, TypeOK, pass, process, loop
<1>11. CASE SeeEof \/ Reap \/ Exit \/ Killed
  <2>1. adapter' \in Locations /\ spent' \in Nat
    BY <1>11 DEF SeeEof, Reap, Exit, Killed, Step, TypeOK, Locations, clock
  <2>2. CASE Reap
    BY <2>1, <2>2, <1>1 DEF Reap, TypeOK, pass, records, process, loop
  <2>3. CASE SeeEof \/ Exit \/ Killed
    BY <2>1, <2>3, <1>1 DEF SeeEof, Exit, Killed, TypeOK, clock, pass, records, process, loop
  <2> QED
    BY <1>11, <2>2, <2>3
<1>12. CASE Interrupt
  <2>1. adapter' \in Locations
    BY <1>12, <1>1 DEF Interrupt, Locations
  <2>2. holder' \in [1 .. Entries -> {"free", "mine", "other"}]
    BY <1>12, <1>1 DEF Interrupt, Hold, TypeOK
  <2> QED
    BY <1>12, <2>1, <2>2, <1>1 DEF Interrupt, TypeOK, clock, pass, loop
<1>13. CASE Closer
  BY <1>13, <1>1 DEF Closer, TimesOut, CleanUp, Abandon, Waits, TypeOK, clock, pass, records, process, loop
<1>14. ASSUME NEW i \in 1 .. Entries, Reserve(i) \/ Rotate(i) PROVE TypeOK'
  BY <1>14, <1>1 DEF Reserve, Rotate, TypeOK, clock, pass, records, process, loop
<1>15. ASSUME NEW c \in Callers, Cancel(c) \/ Return(c) PROVE TypeOK'
  <2>1. caller' \in [Callers -> {"none", "waiting", "cancelled"} \cup Left]
    BY <1>15, <1>1 DEF Cancel, Return, BlueReturn, GreenReturn, RedReturn, Leave, TypeOK, Left
  <2> QED
    BY <1>15, <2>1, <1>1 DEF Cancel, Return, BlueReturn, GreenReturn, RedReturn, Leave, TypeOK,
                      clock, pass, records, process
<1>16. ASSUME NEW c \in Callers, Close(c) PROVE TypeOK'
  <2>1. /\ closing' \in {"none", "cleaned", "abandoned"} \cup Waits
        /\ spent' \in Nat
        /\ age' \in [1 .. Entries -> Nat]
    BY <1>16, <1>1 DEF Close, TypeOK, Waits
  <2>2. caller' \in [Callers -> {"none", "waiting", "cancelled"} \cup Left]
    BY <1>16, <1>1 DEF Close, TypeOK
  <2> QED
    BY <1>16, <2>1, <2>2, <1>1 DEF Close, TypeOK, records, process
<1>17. CASE UNCHANGED vars
  BY <1>17, <1>1 DEF vars, TypeOK, clock, pass, records, process, loop
<1> QED
  BY <1>2, <1>3, <1>4, <1>5, <1>6, <1>7, <1>8, <1>9, <1>10, <1>11, <1>12, <1>13, <1>14, <1>15,
     <1>16, <1>17, <1>18
  DEF Next, Adapter, Signals

-----------------------------------------------------------------------------
(* The agent and the callers.                                               *)

(* An adapter that is gone has left no agent.                               *)
LEMMA OwnedStep ==
  ASSUME TypeOK, AgentOwned, [Next]_vars
  PROVE  AgentOwned'
<1> USE DEF AgentOwned, AgentReaped, Gone
<1>1. CASE Tick \/ Spawn \/ EnterTry \/ LockAuthority \/ LockBusy \/ LockFails \/ AddKey
  BY <1>1 DEF Tick, Spawn, EnterTry, LockAuthority, LockBusy, LockFails, AddKey, Step, process
<1>2. CASE AddKeyFails \/ Publish \/ PublishFails \/ List \/ ListFails \/ Announce \/ Renew
  BY <1>2 DEF AddKeyFails, Publish, PublishFails, List, ListFails, Announce, Renew, Step, process
<1>3. CASE SeeEof \/ Reap \/ Exit
  BY <1>3 DEF SeeEof, Reap, Exit, Step, process
<1>4. CASE Interrupt
  BY <1>4 DEF Interrupt, Unguarded
<1>5. CASE Killed
  BY <1>5 DEF Killed, process
<1>6. CASE Closer
  BY <1>6 DEF Closer, TimesOut, CleanUp, Abandon, process
<1>7. ASSUME NEW i \in 1 .. Entries, Reserve(i) \/ Rotate(i) PROVE AgentOwned'
  BY <1>7 DEF Reserve, Rotate, process
<1>8. ASSUME NEW c \in Callers, Close(c) \/ Cancel(c) \/ Return(c) PROVE AgentOwned'
  BY <1>8 DEF Close, Cancel, Return, BlueReturn, GreenReturn, RedReturn, Leave, process
<1>9. CASE UNCHANGED vars
  BY <1>9 DEF vars, process
<1> QED
  BY <1>1, <1>2, <1>3, <1>4, <1>5, <1>6, <1>7, <1>8, <1>9 DEF Next, Adapter, Signals

(* Who has left close() did so after the cleanup.                           *)
LEMMA CleanedStep ==
  ASSUME TypeOK, CleanedWhenGone, [Next]_vars
  PROVE  CleanedWhenGone'
<1> USE DEF CleanedWhenGone, LeavesAfterCleanup, CleanedUp, Gone
<1>a. adapter = "gone" => adapter' = "gone"
  BY DEF Next, Adapter, Signals, Closer, Tick, Spawn, EnterTry, LockAuthority, LockBusy, LockFails,
         AddKey, AddKeyFails, Publish, PublishFails, List, ListFails, Announce, Renew, SeeEof, Reap,
         Exit, Interrupt, Killed, TimesOut, CleanUp, Abandon, Reserve, Rotate, Close, Cancel, Return,
         BlueReturn, GreenReturn, RedReturn, Leave, Step, vars
<1>1. CASE Adapter \/ Signals \/ UNCHANGED vars
  <2>1. UNCHANGED loop
    BY <1>1
    DEF Adapter, Signals, Tick, Spawn, EnterTry, LockAuthority, LockBusy, LockFails,
        AddKey, AddKeyFails, Publish, PublishFails, List, ListFails, Announce, Renew, SeeEof, Reap,
        Exit, Interrupt, Killed, vars
  <2>2. signal = "kill" => signal' = "kill"
    BY <1>1
    DEF Adapter, Signals, Tick, Spawn, EnterTry, LockAuthority, LockBusy, LockFails,
        AddKey, AddKeyFails, Publish, PublishFails, List, ListFails, Announce, Renew, SeeEof, Reap,
        Exit, Interrupt, Killed, process, vars
  <2> QED
    BY <1>a, <2>1, <2>2 DEF loop
<1>2. CASE TimesOut
  BY <1>2 DEF TimesOut
<1>3. CASE CleanUp \/ Abandon
  BY <1>3 DEF CleanUp, Abandon, process
<1>4. ASSUME NEW i \in 1 .. Entries, Reserve(i) \/ Rotate(i) PROVE CleanedWhenGone'
  BY <1>4 DEF Reserve, Rotate, loop, process
<1>5. ASSUME NEW c \in Callers, Close(c) \/ Cancel(c) PROVE CleanedWhenGone'
  BY <1>5 DEF Close, Cancel, Left, TypeOK, process
<1>6. ASSUME NEW c \in Callers, Return(c) PROVE CleanedWhenGone'
  <2>1. /\ UNCHANGED <<adapter, signal, closing>>
        /\ CleanedUp
        /\ \A d \in Callers : caller'[d] # caller[d] =>
               closing = "cleaned" \/ (closing = "abandoned" /\ caller'[d] = "failed")
    BY <1>6 DEF Return, BlueReturn, GreenReturn, RedReturn, Leave, process, TypeOK
  <2> QED
    BY <2>1
<1> QED
  BY <1>1, <1>2, <1>3, <1>4, <1>5, <1>6 DEF Next, Closer

(* Until the closer signals, the adapter holds at most the lock of its      *)
(* entry.                                                                   *)
LEMMA InHandStep ==
  ASSUME TypeOK, CleanedWhenGone, LockInHand, [Next]_vars
  PROVE  LockInHand'
<1> USE DEF LockInHand
<1>1. CASE Tick \/ Spawn \/ EnterTry \/ LockBusy \/ AddKey \/ AddKeyFails
  BY <1>1 DEF Tick, Spawn, EnterTry, LockBusy, AddKey, AddKeyFails, Step, clock, pass, records, process, loop
<1>2. CASE LockAuthority \/ LockFails
  BY <1>2 DEF LockAuthority, LockFails, Step, Hold, TypeOK, clock, pass, process, loop
<1>3. CASE Publish \/ PublishFails
  BY <1>3 DEF Publish, PublishFails, Step, Hold, TypeOK, clock, pass, process, loop
<1>4. CASE List \/ ListFails \/ Announce \/ Renew \/ SeeEof \/ Reap \/ Exit
  BY <1>4 DEF List, ListFails, Announce, Renew, SeeEof, Reap, Exit, Step, clock, pass, records, process, loop
<1>5. CASE Signals
  BY <1>5 DEF Signals, Interrupt, Killed, loop
<1>6. CASE Closer
  BY <1>6 DEF Closer, TimesOut, CleanUp, Abandon
<1>7. ASSUME NEW i \in 1 .. Entries, Reserve(i) \/ Rotate(i) PROVE LockInHand'
  BY <1>7 DEF Reserve, Rotate, TypeOK, clock, pass, process, loop
<1>8. ASSUME NEW c \in Callers, Close(c) \/ Cancel(c) \/ Return(c) PROVE LockInHand'
  BY <1>8 DEF Close, Cancel, Return, BlueReturn, GreenReturn, RedReturn, Leave, clock, pass, records, process
<1>9. CASE UNCHANGED vars
  BY <1>9 DEF vars, clock, pass, records, process, loop
<1> QED
  BY <1>1, <1>2, <1>3, <1>4, <1>5, <1>6, <1>7, <1>8, <1>9 DEF Next, Adapter

LEMMA InvInit == Init => Inv
<1> SUFFICES ASSUME Init PROVE Inv
  OBVIOUS
<1>1. TypeOK
  <2>1. FlagsOK
    BY DEF Init, FlagsOK
  <2> QED
    BY <2>1, EntriesAssumption, TimeAssumption DEF Init, TypeOK, Locations
<1>2. AgentOwned /\ CleanedWhenGone /\ LockInHand
  BY DEF Init, AgentOwned, AgentReaped, CleanedWhenGone, LeavesAfterCleanup, LockInHand, Gone, Left
<1> QED
  BY <1>1, <1>2 DEF Inv

LEMMA InvStep == Inv /\ [Next]_vars => Inv'
  BY TypeStep, OwnedStep, CleanedStep, InHandStep DEF Inv

(* The invariant is inductive, and so holds in every reachable state.       *)
THEOREM Invariance == Spec => []Inv
  BY InvInit, InvStep, PTL DEF Spec

(* The types of the module's variables hold in every behaviour.             *)
THEOREM TypeCorrect == Spec => []TypeOK
  BY Invariance, PTL DEF Inv

(* No caller leaves close() before the directory is cleaned up, however     *)
(* often it is cancelled, and none without an error while the adapter runs. *)
THEOREM CallersWait == Spec => []LeavesAfterCleanup
<1>1. Inv => LeavesAfterCleanup
  BY DEF Inv, CleanedWhenGone
<1> QED
  BY <1>1, Invariance, PTL

(* The adapter reaps its agent however it ends, but for SIGKILL and a       *)
(* SIGTERM between two statements outside its try.                          *)
THEOREM ExitReapsAgent == Spec => []AgentReaped
<1>1. Inv => AgentReaped
  BY DEF Inv, AgentOwned
<1> QED
  BY <1>1, Invariance, PTL

(* An adapter that ends by itself leaves no record locked.                  *)
THEOREM EndUnlocks == Spec => []QuietEndUnlocks
<1>1. Inv => QuietEndUnlocks
  BY DEF Inv, LockInHand, QuietEndUnlocks, Gone
<1> QED
  BY <1>1, Invariance, PTL

-----------------------------------------------------------------------------
(* Keys are renewed in time.                                                *)

LEMMA PerEntryNat == PerEntry \in Nat
  BY TimeAssumption DEF PerEntry

(* The time of loading several entries, one after the other.                *)
LEMMA LoadSums ==
  ASSUME NEW j \in Nat, NEW k \in Nat
  PROVE  /\ Load(j) \in Nat
         /\ Load(0) = 0
         /\ Load(j + 1) = Load(j) + PerEntry
         /\ Load(j) + Load(k) = Load(j + k)
         /\ j <= k => Load(j) <= Load(k)
<1> USE PerEntryNat DEF Load
<1>1. Load(j) \in Nat /\ Load(0) = 0
  OBVIOUS
<1>2. Load(j + 1) = Load(j) + PerEntry
  OBVIOUS
<1>3. Load(j) + Load(k) = Load(j + k)
  OBVIOUS
<1>4. j <= k => Load(j) <= Load(k)
  OBVIOUS
<1> QED
  BY <1>1, <1>2, <1>3, <1>4

(* How long the adapter stays where it is, in each place.                   *)
LEMMA Limits ==
  /\ adapter = "lock" => Limit = MaxLock
  /\ adapter \in {"held", "list"} => Limit = MaxCommand
  /\ adapter \in {"publish", "release"} => Limit = MaxPublish
  /\ adapter = "wait" => Limit = Interval
  /\ adapter \notin Loading \cup {"wait"} => Limit = 0
  BY DEF Limit, Loading

(* Where the adapter is in its entry's time, and how much of it is left.    *)
LEMMA SlotFits ==
  ASSUME adapter \in Loading, NEW t \in Nat, t <= Limit
  PROVE  /\ Before \in Nat
         /\ adapter # "list" => Before + t <= PerEntry
         /\ adapter = "list" => Before + t <= PerEntry + MaxCommand
  BY Limits, TimeAssumption DEF Before, Loading, PerEntry

(* Whatever a pass is at, no identity is older than Longest.                *)
LEMMA BoundFits ==
  ASSUME NEW n \in 1 .. Entries, NEW i \in 1 .. Entries,
         adapter \in Loading, adapter = "list" => n = Entries,
         NEW t \in Nat, t <= Limit, NEW a \in Nat
  PROVE  /\ i <= n /\ a + MaxLock + MaxCommand <= Load(n - i) + Before + t => a <= Longest
         /\ i >= n /\ adapter # "list"
              /\ a <= Load(Entries - i) + MaxPublish + MaxCommand + Interval
                       + Load(n - 1) + Before + t
              => a <= Longest
<1> USE EntriesAssumption, TimeAssumption, IntervalFits, PerEntryNat
<1>1. Load(Entries) \in Nat
  BY LoadSums
<1>2. ASSUME i <= n, a + MaxLock + MaxCommand <= Load(n - i) + Before + t
      PROVE  a <= Longest
  <2>1. n - i \in Nat /\ n - i <= Entries
    BY <1>2
  <2>2. Load(n - i) \in Nat /\ Load(n - i) <= Load(Entries)
    BY <2>1, LoadSums
  <2> QED
    BY <1>1, <1>2, <2>2, SlotFits DEF Longest, PerEntry
<1>3. ASSUME i >= n, adapter # "list",
             a <= Load(Entries - i) + MaxPublish + MaxCommand + Interval
                  + Load(n - 1) + Before + t
      PROVE  a <= Longest
  <2>1. /\ Entries - i \in Nat /\ n - 1 \in Nat /\ i - 1 \in Nat /\ n - 1 <= i - 1
        /\ Entries - 1 \in Nat /\ (Entries - i) + (i - 1) = Entries - 1
        /\ (Entries - 1) + 1 = Entries
    BY <1>3
  <2>2. /\ Load(Entries - i) \in Nat /\ Load(n - 1) \in Nat /\ Load(i - 1) \in Nat
        /\ Load(n - 1) <= Load(i - 1)
    BY <2>1, LoadSums
  <2>3. Load(Entries - i) + Load(i - 1) = Load(Entries - 1) /\ Load(Entries - 1) \in Nat
    <3>1. Load(Entries - i) + Load(i - 1) = Load((Entries - i) + (i - 1))
      BY <2>1, LoadSums
    <3> QED
      BY <2>1, <3>1, LoadSums
  <2>4. Load(Entries) = Load(Entries - 1) + PerEntry
    BY <2>1, LoadSums
  <2>5. Before \in Nat /\ Before + t <= PerEntry
    BY <1>3, SlotFits
  <2> QED
    BY <1>1, <1>3, <2>2, <2>3, <2>4, <2>5 DEF Longest
<1> QED
  BY <1>2, <1>3

(* Nor is it while the adapter waits for the next pass.                     *)
LEMMA WaitFits ==
  ASSUME NEW i \in 1 .. Entries, NEW t \in Nat, t <= Interval
  PROVE  /\ Load(Entries - i) \in Nat
         /\ Load(Entries - i) + MaxPublish + MaxCommand + t <= Longest
<1> USE EntriesAssumption, TimeAssumption, IntervalFits
<1>1. Entries - i \in Nat /\ Entries - i <= Entries
  OBVIOUS
<1>2. Load(Entries - i) \in Nat /\ Load(Entries) \in Nat /\ Load(Entries - i) <= Load(Entries)
  BY <1>1, LoadSums
<1> QED
  BY <1>2 DEF Longest

(* The clock of the pass, and where it stands.                              *)
PassInTime ==
    /\ adapter \in {"spawn", "spawned", "announce"} => spent = 0
    /\ adapter \in {"spawn", "spawned"} => next = 1
    /\ adapter \in Loading \cup {"wait"} => spent <= Limit
    /\ adapter = "list" => next = Entries

(* The times, by what is said of the pass and of every identity.            *)
LEMMA TimelyParts ==
  Timely <=> (closing = "none" => PassInTime /\ \A i \in 1 .. Entries : AgeBounded(i))
  BY DEF Timely, PassInTime

(* A scope that is open now was open before.                                *)
LEMMA StillOpen ==
  ASSUME [Next]_vars, closing' = "none"
  PROVE  closing = "none"
  BY DEF Next, Adapter, Signals, Closer, Tick, Spawn, EnterTry, LockAuthority, LockBusy, LockFails,
         AddKey, AddKeyFails, Publish, PublishFails, List, ListFails, Announce, Renew, SeeEof, Reap,
         Exit, Interrupt, Killed, TimesOut, CleanUp, Abandon, Reserve, Rotate, Close, Cancel, Return,
         BlueReturn, GreenReturn, RedReturn, Leave, vars, loop

(* The adapter comes to a place with its clock at zero.                     *)
LEMMA FreshClock ==
  ASSUME spent' = 0
  PROVE  adapter' \in Loading \cup {"wait"} => spent' <= Limit'
<1>1. Limit' \in Nat
  BY TimeAssumption, IntervalFits DEF Limit
<1> QED
  BY <1>1

(* The pass keeps to its time.                                              *)
LEMMA PassStep ==
  ASSUME TypeOK, PassInTime, [Next]_vars, closing' = "none"
  PROVE  PassInTime'
<1> USE EntriesAssumption, TimeAssumption, IntervalFits DEF PassInTime
<1>1. CASE Tick
  <2>1. /\ spent' = spent + 1 /\ spent < Limit /\ adapter' = adapter /\ next' = next
        /\ Limit' = Limit
    BY <1>1 DEF Tick, Limit
  <2>2. Limit \in Nat
    BY DEF Limit
  <2> QED
    BY <2>1, <2>2, Limits DEF TypeOK, Loading
<1>2. CASE \/ Spawn \/ EnterTry \/ LockAuthority \/ LockBusy \/ LockFails \/ AddKey \/ AddKeyFails
           \/ PublishFails \/ List \/ ListFails \/ Announce \/ Renew \/ SeeEof \/ Reap \/ Exit
           \/ Publish
  <2>1. spent' = 0
    BY <1>2 DEF Spawn, EnterTry, LockAuthority, LockBusy, LockFails, AddKey, AddKeyFails, Publish,
           PublishFails, List, ListFails, Announce, Renew, SeeEof, Reap, Exit, Step
  <2>2. adapter' \in {"spawn", "spawned"} => next' = 1
    BY <1>2 DEF Spawn, EnterTry, LockAuthority, LockBusy, LockFails, AddKey, AddKeyFails, Publish,
           PublishFails, List, ListFails, Announce, Renew, SeeEof, Reap, Exit, Step, pass
  <2>3. adapter' = "list" => next' = Entries
    BY <1>2 DEF Spawn, EnterTry, LockAuthority, LockBusy, LockFails, AddKey, AddKeyFails, Publish,
           PublishFails, List, ListFails, Announce, Renew, SeeEof, Reap, Exit, Step, pass, TypeOK
  <2> QED
    BY <2>1, <2>2, <2>3, FreshClock
<1>5. CASE Signals
  BY <1>5 DEF Signals, Interrupt, Killed, Unguarded, Loading
<1>6. CASE UNCHANGED <<adapter, clock>>
  <2>1. adapter' = adapter /\ spent' = spent /\ next' = next /\ Limit' = Limit
    BY <1>6 DEF clock, pass, Limit
  <2> QED
    BY <2>1
<1>7. CASE Closer \/ UNCHANGED vars
  BY <1>6, <1>7 DEF Closer, TimesOut, CleanUp, Abandon, vars
<1>8. ASSUME NEW i \in 1 .. Entries, Reserve(i) \/ Rotate(i) PROVE PassInTime'
  BY <1>6, <1>8 DEF Reserve, Rotate
<1>9. ASSUME NEW c \in Callers, Close(c) \/ Cancel(c) \/ Return(c) PROVE PassInTime'
  <2>1. UNCHANGED <<adapter, clock>>
    BY <1>9, StillOpen DEF Close, Cancel, Return, BlueReturn, GreenReturn, RedReturn, Leave, clock,
                           pass
  <2> QED
    BY <1>6, <2>1
<1> QED
  BY <1>1, <1>2, <1>5, <1>7, <1>8, <1>9 DEF Next, Adapter

(* A bound that grows bounds what it bounded.                               *)
LEMMA Weaker ==
  ASSUME NEW a \in Nat, NEW l \in Nat, NEW b \in Nat, NEW t \in Nat, NEW c \in Nat, NEW u \in Nat,
         a <= l + b + t, b + t <= c + u
  PROVE  a <= l + c + u
  OBVIOUS

(* No identity grows older than the pass allows.                            *)
LEMMA AgeStep ==
  ASSUME TypeOK, PassInTime, [Next]_vars, closing' = "none",
         NEW i \in 1 .. Entries, AgeBounded(i)
  PROVE  AgeBounded(i)'
<1> USE EntriesAssumption, TimeAssumption, IntervalFits, PerEntryNat
<1>a. /\ next \in Nat /\ spent \in Nat /\ age[i] \in Nat /\ next \in 1 .. Entries
      /\ Entries - i \in Nat /\ next - 1 \in Nat /\ i \in Nat /\ Longest \in Nat
      /\ adapter \in Loading \cup {"wait"} => spent <= Limit
  <2>1. Load(Entries) \in Nat
    BY LoadSums
  <2> QED
    BY <2>1 DEF TypeOK, PassInTime, Longest
<1>b. /\ Load(Entries - i) \in Nat /\ Load(next - 1) \in Nat /\ Load(0) = 0
      /\ i <= next => next - i \in Nat /\ Load(next - i) \in Nat
  <2>1. i <= next => next - i \in Nat
    BY <1>a
  <2> QED
    BY <1>a, <2>1, LoadSums
<1>1. CASE Tick
  <2>1. /\ age'[i] = age[i] + 1 /\ spent' = spent + 1 /\ spent' <= Limit
        /\ age'[i] \in Nat /\ spent' \in Nat
        /\ adapter' = adapter /\ next' = next /\ Before' = Before
    <3>1. Limit \in Nat
      BY DEF Limit
    <3> QED
      BY <1>1, <1>a, <3>1 DEF Tick, TypeOK, Before
  <2>2. CASE adapter \in Loading
    <3>1. IF Added(i) THEN age'[i] + MaxLock + MaxCommand <= Load(next - i) + Before + spent'
          ELSE age'[i] <= Load(Entries - i) + MaxPublish + MaxCommand + Interval
                          + Load(next - 1) + Before + spent'
      <4>1. Before \in Nat
        BY <1>a, <2>2, SlotFits
      <4> QED
        BY <1>a, <1>b, <2>1, <2>2, <4>1 DEF AgeBounded, Added
    <3>2. age'[i] <= Longest
      <4>1. adapter = "list" => next = Entries
        BY DEF PassInTime
      <4>2. CASE Added(i)
        <5>1. i <= next /\ age'[i] + MaxLock + MaxCommand <= Load(next - i) + Before + spent'
          BY <1>a, <3>1, <4>2 DEF Added
        <5> QED
          BY <1>a, <2>1, <2>2, <4>1, <5>1, BoundFits
      <4>3. CASE ~Added(i)
        BY <1>a, <2>1, <2>2, <3>1, <4>1, <4>3, BoundFits DEF Added
      <4> QED
        BY <4>2, <4>3
    <3> QED
      BY <2>1, <2>2, <3>1, <3>2 DEF AgeBounded, Added, Loading, Longest
  <2>3. CASE adapter = "wait"
    <3>1. spent' <= Interval
      BY <2>1, <2>3, Limits
    <3>2. age'[i] <= Load(Entries - i) + MaxPublish + MaxCommand + spent'
      BY <1>a, <1>b, <2>1, <2>3 DEF AgeBounded
    <3>3. age'[i] <= Longest
      BY <1>a, <1>b, <2>1, <3>1, <3>2, WaitFits
    <3> QED
      BY <2>1, <2>3, <3>2, <3>3 DEF AgeBounded, Loading, Longest
  <2>4. CASE adapter \notin Loading \cup {"wait"}
    BY <1>a, <2>1, <2>4, Limits
  <2> QED
    BY <2>2, <2>3, <2>4
<1>2. CASE LockAuthority \/ AddKeyFails \/ AddKey
  <2>1. /\ \/ adapter = "lock" /\ adapter' = "held"
           \/ adapter = "held" /\ adapter' \in {"release", "publish"}
        /\ next' = next /\ spent' = 0
    BY <1>2 DEF LockAuthority, AddKeyFails, AddKey, Step, pass
  <2>2. Before \in Nat /\ Before' \in Nat /\ Before + spent <= Before' + spent'
    BY <1>a, <2>1, Limits DEF Before, Loading
  <2>3. ASSUME age'[i] = age[i], Added(i)' <=> Added(i)
        PROVE  AgeBounded(i)'
    <3>1. CASE Added(i)
      <4>1. i <= next /\ age[i] + MaxLock + MaxCommand <= Load(next - i) + Before + spent
        BY <1>a, <2>1, <3>1 DEF AgeBounded, Loading, Added
      <4>2. age[i] + MaxLock + MaxCommand <= Load(next - i) + Before' + spent'
        <5> DEFINE a == age[i] + MaxLock + MaxCommand  l == Load(next - i)
        <5>1. l \in Nat /\ a \in Nat /\ spent \in Nat /\ spent' \in Nat
          BY <1>a, <1>b, <2>1, <4>1
        <5> HIDE DEF a, l
        <5>2. a <= l + Before + spent
          BY <4>1 DEF a, l
        <5>3. a <= l + Before' + spent'
          BY <2>2, <5>1, <5>2, Weaker
        <5> QED
          BY <5>3 DEF a, l
      <4>3. age[i] <= Longest
        BY <2>1 DEF AgeBounded, Loading
      <4> QED
        BY <1>a, <2>1, <2>2, <2>3, <3>1, <4>1, <4>2, <4>3 DEF AgeBounded, Loading, Longest
    <3>2. CASE ~Added(i)
      <4>1. age[i] <= Load(Entries - i) + MaxPublish + MaxCommand + Interval
                      + Load(next - 1) + Before + spent
        BY <2>1, <3>2 DEF AgeBounded, Loading
      <4>2. age[i] <= Load(Entries - i) + MaxPublish + MaxCommand + Interval
                      + Load(next - 1) + Before' + spent'
        <5> DEFINE l == Load(Entries - i) + MaxPublish + MaxCommand + Interval + Load(next - 1)
        <5>1. l \in Nat /\ age[i] \in Nat /\ spent \in Nat /\ spent' \in Nat
          BY <1>a, <1>b, <2>1
        <5> HIDE DEF l
        <5>2. age[i] <= l + Before + spent
          BY <4>1 DEF l
        <5>3. age[i] <= l + Before' + spent'
          BY <2>2, <5>1, <5>2, Weaker
        <5> QED
          BY <5>3 DEF l
      <4>3. age[i] <= Longest
        BY <2>1 DEF AgeBounded, Loading
      <4> QED
        BY <1>a, <2>1, <2>2, <2>3, <3>2, <4>2, <4>3 DEF AgeBounded, Loading, Longest
    <3> QED
      BY <3>1, <3>2
  <2>4. CASE AddKey /\ i = next
    <3>1. age'[i] = 0 /\ adapter' = "publish" /\ Before' = MaxLock + MaxCommand
      BY <2>4 DEF AddKey, Step, TypeOK, Before
    <3> QED
      BY <1>a, <1>b, <2>1, <2>4, <3>1 DEF AgeBounded, Loading, Longest, Added
  <2>5. CASE ~(AddKey /\ i = next)
    <3>1. age'[i] = age[i]
      BY <1>2, <2>5 DEF LockAuthority, AddKeyFails, AddKey, pass, TypeOK
    <3>2. Added(i)' <=> Added(i)
      BY <1>2, <2>1, <2>5 DEF Added, LockAuthority, AddKeyFails, AddKey, Step
    <3> QED
      BY <2>3, <3>1, <3>2
  <2> QED
    BY <2>4, <2>5
<1>3. CASE Spawn \/ EnterTry
  <2>1. /\ age'[i] = 0 /\ next' = 1 /\ spent' = 0 /\ adapter' \in {"spawned", "lock"}
    BY <1>3 DEF Spawn, EnterTry, Step, pass, AgeBounded, PassInTime
  <2>2. Before' \in Nat /\ ~Added(i)'
    BY <1>a, <2>1 DEF Before, Added
  <2>3. next' - 1 = 0
    BY <2>1
  <2> QED
    BY <1>a, <1>b, <2>1, <2>2, <2>3 DEF AgeBounded, Loading, Longest
<1>5. CASE Publish
  <2>1. CASE adapter = "publish" /\ next < Entries
    <3>1. adapter' = "lock" /\ next' = next + 1 /\ spent' = 0 /\ age' = age
      BY <1>5, <2>1 DEF Publish, Step
    <3>2. spent <= MaxPublish /\ Before = MaxLock + MaxCommand /\ Before' = 0
      BY <1>a, <2>1, <3>1, Limits DEF Before, Loading
    <3>3. CASE i <= next
      <4>1. Load(next' - i) = Load(next - i) + PerEntry /\ Added(i) /\ Added(i)'
        <5>1. next' - i = (next - i) + 1
          BY <1>a, <3>1
        <5> QED
          BY <1>a, <1>b, <2>1, <3>1, <3>3, <5>1, LoadSums DEF Added
      <4> QED
        BY <1>a, <1>b, <2>1, <3>1, <3>2, <3>3, <4>1 DEF AgeBounded, Loading, Longest, PerEntry
    <3>4. CASE ~(i <= next)
      <4>1. /\ Load(next' - 1) = Load(next - 1) + PerEntry
            /\ ~Added(i) /\ ~Added(i)'
        <5>1. next' - 1 = (next - 1) + 1
          BY <1>a, <3>1
        <5> QED
          BY <1>a, <1>b, <2>1, <3>1, <3>4, <5>1, LoadSums DEF Added
      <4> QED
        BY <1>a, <1>b, <2>1, <3>1, <3>2, <4>1 DEF AgeBounded, Loading, Longest, PerEntry
    <3> QED
      BY <3>3, <3>4
  <2>2. CASE adapter = "publish" /\ ~(next < Entries)
    <3>1. adapter' = "list" /\ next' = next /\ spent' = 0 /\ age' = age /\ next = Entries
      BY <1>5, <1>a, <2>2 DEF Publish, Step
    <3>2. spent <= MaxPublish /\ Before = MaxLock + MaxCommand /\ Before' = PerEntry
      BY <1>a, <2>2, <3>1, Limits DEF Before, Loading
    <3>3. Added(i) /\ Added(i)'
      BY <1>a, <2>2, <3>1 DEF Added
    <3> QED
      BY <1>a, <1>b, <2>2, <3>1, <3>2, <3>3 DEF AgeBounded, Loading, Longest, PerEntry
  <2>3. CASE adapter = "release"
    BY <1>5, <2>3 DEF Publish, Step, AgeBounded, Loading, Longest
  <2> QED
    BY <1>5, <2>1, <2>2, <2>3 DEF Publish, Step
<1>6. CASE List
  <2>1. /\ adapter = "list" /\ next = Entries /\ spent <= MaxCommand /\ Added(i)
        /\ Before = PerEntry /\ age' = age /\ spent' = 0 /\ adapter' \in {"wait", "announce"}
    BY <1>6, <1>a, Limits DEF List, Step, pass, PassInTime, Added, Before, Loading
  <2> QED
    BY <1>a, <1>b, <2>1 DEF AgeBounded, Loading, Longest, PerEntry
<1>7. CASE Announce
  BY <1>7, <1>a DEF Announce, Step, pass, AgeBounded, PassInTime, Loading, Longest
<1>8. CASE Renew
  <2>1. /\ adapter = "wait" /\ adapter' = "lock" /\ next' = 1 /\ spent' = 0 /\ age' = age
        /\ spent = Interval /\ ~Added(i)' /\ Before' = 0
    BY <1>8, <1>a DEF Renew, Step, Added, Before
  <2>2. Load(next' - 1) = 0
    BY <2>1, <1>b
  <2> QED
    BY <1>a, <1>b, <2>1, <2>2 DEF AgeBounded, Loading, Longest
<1>9. CASE LockBusy \/ LockFails \/ PublishFails \/ ListFails \/ SeeEof \/ Reap \/ Exit
  <2>1. adapter' \in {"reap", "reaping", "gone"} /\ age' = age
    BY <1>9 DEF LockBusy, LockFails, PublishFails, ListFails, SeeEof, Reap, Exit, Step, pass
  <2> QED
    BY <2>1 DEF AgeBounded, Loading, Longest
<1>10. CASE Signals
  <2>1. adapter' \in {"reap", "gone"} /\ age' = age
    BY <1>10 DEF Signals, Interrupt, Killed, Unguarded, clock, pass
  <2> QED
    BY <2>1 DEF AgeBounded, Loading, Longest
<1>11. CASE UNCHANGED <<adapter, clock>>
  BY <1>11 DEF clock, pass, Added, AgeBounded, Before, Longest
<1>12. CASE Closer \/ UNCHANGED vars
  BY <1>11, <1>12 DEF Closer, TimesOut, CleanUp, Abandon, vars
<1>13. ASSUME NEW j \in 1 .. Entries, Reserve(j) \/ Rotate(j) PROVE AgeBounded(i)'
  BY <1>11, <1>13 DEF Reserve, Rotate
<1>14. ASSUME NEW c \in Callers, Close(c) \/ Cancel(c) \/ Return(c) PROVE AgeBounded(i)'
  <2>1. UNCHANGED <<adapter, clock>>
    BY <1>14, StillOpen DEF Close, Cancel, Return, BlueReturn, GreenReturn, RedReturn, Leave, clock,
                            pass
  <2> QED
    BY <1>11, <2>1
<1> QED
  BY <1>1, <1>2, <1>3, <1>5, <1>6, <1>7, <1>8, <1>9, <1>10, <1>12, <1>13, <1>14
  DEF Next, Adapter

(* In an open scope no key was added longer ago than half a lifetime, one   *)
(* pass, a listing and a release take, whatever fails and who rotates.      *)
THEOREM RenewalPeriod == Spec => []RenewedInTime
<1>1. Init => Timely
  <2>1. Load(Entries) \in Nat
    BY EntriesAssumption, LoadSums
  <2> QED
    BY <2>1, EntriesAssumption, TimeAssumption, IntervalFits
    DEF Init, Timely, AgeBounded, Loading, Longest
<1>2. TypeOK /\ Timely /\ [Next]_vars => Timely'
  <2> SUFFICES ASSUME TypeOK, Timely, [Next]_vars, closing' = "none"
               PROVE  PassInTime' /\ \A i \in 1 .. Entries : AgeBounded(i)'
    BY DEF Timely, PassInTime
  <2>1. PassInTime /\ \A i \in 1 .. Entries : AgeBounded(i)
    BY TimelyParts, StillOpen
  <2> QED
    BY <2>1, PassStep, AgeStep
<1>3. Timely => RenewedInTime
  BY DEF Timely, AgeBounded, RenewedInTime, Open, Longest, Interval, Load
<1> QED
  BY <1>1, <1>2, <1>3, TypeCorrect, PTL DEF Spec

-----------------------------------------------------------------------------
(* The endpoint agent: EndpointAgent.                                       *)

Unassignment(a) == [by |-> a, type |-> "unassign", node |-> None]
Assignment(a) == [by |-> a, type |-> "assign", node |-> target[a]]

(* Only an agent with a target moves the address, and only the last one.    *)
Alone ==
    \A a \in Agents :
        /\ pc[a] # "done" => outcome[a].status = "none"
        /\ pc[a] \notin {"idle", "read", "done"} \/ outcome[a].status = "assigned" => target[a] # None
        /\ pc[a] = "idle" => target[a] = None
        /\ target[a] # None /\ pc[a] # "done" => last = a

(* What is under way while the agent a that started last, with nothing left *)
(* to be carried out, is where it is.                                       *)
Settled(a) ==
    /\ pc[a] = "read" => actions = {}
    /\ pc[a] = "unassign" => actions = {} /\ assignee # None
    /\ pc[a] = "confirm-free" =>
           actions = {} \/ (actions = {Unassignment(a)} /\ assignee # None)
    /\ pc[a] = "assign" => actions = {} /\ assignee = None
    /\ pc[a] = "confirm" =>
           actions = {} \/ (actions = {Assignment(a)} /\ assignee = None)
    /\ pc[a] = "done" /\ outcome[a].status = "assigned" => actions = {} /\ assignee = target[a]

EndpointInv ==
    /\ EndpointTypeOK
    /\ Alone
    /\ \A a \in Agents \ unsettled : last = a /\ target[a] # None => Settled(a)

-----------------------------------------------------------------------------

LEMMA EndpointInvInit == EndpointInit => EndpointInv
<1> SUFFICES ASSUME EndpointInit PROVE EndpointInv
  OBVIOUS
<1>1. last \in Agents \cup {None} /\ unsettled \subseteq Agents /\ faulty \in BOOLEAN
  BY DEF EndpointInit
<1>2. /\ pc \in [Agents -> EndpointLocations] /\ target \in [Agents -> Nodes \cup {None}]
      /\ outcome \in [Agents -> Outcomes]
  BY DEF EndpointInit, EndpointLocations, Outcomes
<1>3. EndpointTypeOK
  BY <1>1, <1>2 DEF EndpointInit, EndpointTypeOK
<1>4. \A a \in Agents : pc[a] = "idle" /\ target[a] = None /\ outcome[a].status = "none"
  BY DEF EndpointInit
<1> QED
  BY <1>3, <1>4 DEF EndpointInv, Alone

(* What an agent's step leaves alone.                                       *)
LEMMA FinishEffect ==
  ASSUME EndpointTypeOK, NEW a \in Agents, NEW status \in {"present", "assigned", "error"},
         NEW node \in Nodes \cup {None}, Finish(a, status, node)
  PROVE  /\ pc' \in [Agents -> EndpointLocations] /\ outcome' \in [Agents -> Outcomes]
         /\ pc'[a] = "done" /\ outcome'[a].status = status
         /\ \A b \in Agents \ {a} : pc'[b] = pc[b] /\ outcome'[b] = outcome[b]
  BY DEF EndpointTypeOK, Finish, Goto, EndpointLocations, Outcomes

(* A step of one agent moves no other agent.                                *)
LEMMA GotoEffect ==
  ASSUME EndpointTypeOK, NEW a \in Agents, NEW label \in EndpointLocations, Goto(a, label)
  PROVE  /\ pc' \in [Agents -> EndpointLocations] /\ pc'[a] = label
         /\ \A b \in Agents \ {a} : pc'[b] = pc[b]
  BY DEF EndpointTypeOK, Goto

LEMMA EndpointTypeStep == EndpointTypeOK /\ [EndpointNext]_endpointVars => EndpointTypeOK'
<1> SUFFICES ASSUME EndpointTypeOK, [EndpointNext]_endpointVars PROVE EndpointTypeOK'
  OBVIOUS
<1> USE FinishEffect, GotoEffect DEF EndpointLocations
<1>1. ASSUME NEW a \in Agents, StartStatus(a) PROVE EndpointTypeOK'
  BY <1>1 DEF StartStatus, EndpointTypeOK
<1>2. ASSUME NEW a \in Agents, Start(a) PROVE EndpointTypeOK'
  <2>1. target' \in [Agents -> Nodes \cup {None}]
    BY <1>2 DEF Start, EndpointTypeOK
  <2>2. last' \in Agents \cup {None} /\ unsettled' \subseteq Agents
    BY <1>2 DEF Start, EndpointTypeOK
  <2> QED
    BY <1>2, <2>1, <2>2 DEF Start, EndpointTypeOK
<1>3. ASSUME NEW a \in Agents, Read(a) PROVE EndpointTypeOK'
  <2>1. assignee \in Nodes \cup {None}
    BY DEF EndpointTypeOK
  <2>2. CASE Goto(a, IF assignee = None THEN "assign" ELSE "unassign") /\ UNCHANGED outcome
    BY <1>3, <2>2 DEF Read, EndpointTypeOK
  <2>3. CASE Finish(a, "present", assignee) \/ Finish(a, "assigned", assignee)
    BY <1>3, <2>1, <2>3 DEF Read, EndpointTypeOK
  <2> QED
    BY <1>3, <2>2, <2>3 DEF Read
<1>4. ASSUME NEW a \in Agents, Unassign(a) \/ Assign(a) \/ ConfirmFree(a) PROVE EndpointTypeOK'
  <2>1. target[a] \in Nodes \cup {None}
    BY DEF EndpointTypeOK
  <2>2. CASE Unassign(a)
    BY <2>2 DEF Unassign, Post, EndpointTypeOK, Actions
  <2>3. CASE Assign(a)
    BY <2>1, <2>3 DEF Assign, Post, EndpointTypeOK, Actions
  <2>4. CASE ConfirmFree(a)
    BY <2>4 DEF ConfirmFree, EndpointTypeOK
  <2> QED
    BY <1>4, <2>2, <2>3, <2>4
<1>5. ASSUME NEW a \in Agents, Confirm(a) \/ GiveUp(a) PROVE EndpointTypeOK'
  <2>1. assignee \in Nodes \cup {None}
    BY DEF EndpointTypeOK
  <2> QED
    BY <1>5, <2>1 DEF Confirm, GiveUp, EndpointTypeOK
<1>6. ASSUME NEW a \in Agents, GiveUpAccepted(a) PROVE EndpointTypeOK'
  <2>1. target[a] \in Nodes \cup {None}
    BY DEF EndpointTypeOK
  <2>2. actions' \subseteq Actions
    BY <1>6, <2>1 DEF GiveUpAccepted, EndpointTypeOK, Actions
  <2> QED
    BY <1>6, <2>2 DEF GiveUpAccepted, EndpointTypeOK
<1>7. ASSUME NEW action \in Actions, Complete(action) \/ Errored(action) PROVE EndpointTypeOK'
  BY <1>7 DEF Complete, Errored, EndpointTypeOK, Actions
<1>8. CASE UNCHANGED endpointVars
  BY <1>8 DEF endpointVars, EndpointTypeOK
<1> QED
  BY <1>1, <1>2, <1>3, <1>4, <1>5, <1>6, <1>7, <1>8 DEF EndpointNext, Agent, Provider

-----------------------------------------------------------------------------
(* The agent takes a step of its own, after it started.                     *)
Steps(a) == Agent(a) \/ GiveUp(a) \/ GiveUpAccepted(a)

(* What the steps of an agent leave alone once it has started.              *)
LEMMA StepsEffect ==
  ASSUME EndpointTypeOK, NEW a \in Agents, Steps(a)
  PROVE  /\ pc[a] \notin {"idle", "done"}
         /\ pc'[a] \notin {"idle", "read"}
         /\ target' = target /\ last' = last /\ unsettled' = unsettled
         /\ \A b \in Agents \ {a} : pc'[b] = pc[b] /\ outcome'[b] = outcome[b]
         /\ pc'[a] # "done" => outcome'[a] = outcome[a]
         /\ target[a] = None =>
                pc[a] # "read" \/ (pc'[a] = "done" /\ outcome'[a].status # "assigned"
                                   /\ actions' = actions /\ assignee' = assignee)
  BY DEF EndpointTypeOK, Steps, Agent, Read, Unassign, ConfirmFree, Assign, Confirm, GiveUp,
         GiveUpAccepted,
         Post, Goto, Finish, EndpointLocations, Outcomes

(* An agent without a target reads, and leaves the address alone.           *)
LEMMA AloneStep ==
  ASSUME EndpointTypeOK, Alone, [EndpointNext]_endpointVars
  PROVE  Alone'
<1>1. ASSUME NEW a \in Agents, StartStatus(a) PROVE Alone'
  BY <1>1 DEF StartStatus, Goto, EndpointTypeOK, Alone
<1>2. ASSUME NEW a \in Agents, Start(a) PROVE Alone'
  BY <1>2, NoneAssumption DEF Start, Goto, EndpointTypeOK, Alone
<1>3. ASSUME NEW a \in Agents, Steps(a) PROVE Alone'
  <2>1. /\ pc'[a] # "done" => outcome'[a].status = "none"
        /\ pc'[a] \notin {"idle", "read", "done"} \/ outcome'[a].status = "assigned"
               => target'[a] # None
        /\ pc'[a] # "idle"
        /\ target'[a] # None /\ pc'[a] # "done" => last' = a
    BY <1>3, StepsEffect DEF Alone
  <2> QED
    BY <1>3, <2>1, StepsEffect DEF Alone
<1>4. CASE UNCHANGED endpointVars \/ Provider
  BY <1>4 DEF endpointVars, Provider, Complete, Errored, Alone
<1> QED
  BY <1>1, <1>2, <1>3, <1>4 DEF EndpointNext, Steps

(* The last agent's own steps.                                              *)
LEMMA SettledStep ==
  ASSUME EndpointTypeOK, Alone, NEW a \in Agents, target[a] # None, Settled(a), Steps(a)
  PROVE  Settled(a)'
<1>a. pc \in [Agents -> EndpointLocations] /\ outcome \in [Agents -> Outcomes] /\ target[a] \in Nodes
      /\ (outcome[a].status # "assigned" \/ pc[a] = "done")
  BY DEF EndpointTypeOK, Alone
<1>1. CASE Read(a)
  BY <1>1, <1>a DEF Read, Goto, Finish, Settled
<1>2. CASE Unassign(a)
  BY <1>2, <1>a DEF Unassign, Post, Goto, Settled, Unassignment
<1>3. CASE ConfirmFree(a)
  BY <1>3, <1>a DEF ConfirmFree, Goto, Settled
<1>4. CASE Assign(a)
  BY <1>4, <1>a DEF Assign, Post, Goto, Settled, Assignment
<1>5. CASE Confirm(a)
  BY <1>5, <1>a, NoneAssumption DEF Confirm, Goto, Finish, Settled
<1>6. CASE GiveUp(a) \/ GiveUpAccepted(a)
  BY <1>6, <1>a DEF GiveUp, GiveUpAccepted, Goto, Finish, Settled
<1> QED
  BY <1>1, <1>2, <1>3, <1>4, <1>5, <1>6 DEF Steps, Agent

(* The provider carries out, or drops, what the last agent asked for.       *)
LEMMA ProviderStep ==
  ASSUME EndpointTypeOK, NEW a \in Agents, target[a] # None, Settled(a),
         NEW action \in Actions, Complete(action) \/ Errored(action)
  PROVE  Settled(a)'
<1>1. action \in actions /\ actions' = actions \ {action} /\ UNCHANGED <<pc, target, outcome>>
      /\ assignee' \in {assignee, action.node}
  BY DEF Complete, Errored
<1>2. CASE pc[a] = "confirm-free"
  BY <1>1, <1>2 DEF Settled, Unassignment, Assignment
<1>3. CASE pc[a] = "confirm"
  BY <1>1, <1>3 DEF Settled, Unassignment, Assignment
<1>4. CASE pc[a] \notin {"confirm-free", "confirm"}
  BY <1>1, <1>4 DEF Settled
<1> QED
  BY <1>2, <1>3, <1>4

LEMMA EndpointInvStep == EndpointInv /\ [EndpointNext]_endpointVars => EndpointInv'
<1> SUFFICES ASSUME EndpointInv, [EndpointNext]_endpointVars PROVE EndpointInv'
  OBVIOUS
<1>a. EndpointTypeOK /\ Alone
  BY DEF EndpointInv
<1>b. EndpointTypeOK' /\ Alone'
  BY <1>a, EndpointTypeStep, AloneStep
<1> SUFFICES ASSUME NEW a \in Agents \ unsettled', last' = a, target'[a] # None
             PROVE  Settled(a)'
  BY <1>b DEF EndpointInv
<1>1. ASSUME NEW b \in Agents, StartStatus(b) PROVE Settled(a)'
  <2>1. a # b
    BY <1>a, <1>1 DEF StartStatus, Alone
  <2>2. Settled(a)
    BY <1>1 DEF StartStatus, EndpointInv
  <2> QED
    BY <1>1, <1>a, <2>1, <2>2 DEF StartStatus, Goto, EndpointTypeOK, Settled, Unassignment, Assignment
<1>2. ASSUME NEW b \in Agents, Start(b) PROVE Settled(a)'
  BY <1>2, <1>a DEF Start, Goto, EndpointTypeOK, Settled
<1>3. ASSUME NEW b \in Agents, Steps(b) PROVE Settled(a)'
  <2>1. target' = target /\ last' = last /\ unsettled' = unsettled
    BY <1>3, <1>a, StepsEffect
  <2>2. Settled(a) /\ target[a] # None /\ last = a
    BY <2>1 DEF EndpointInv
  <2>3. CASE b = a
    BY <1>3, <1>a, <2>2, <2>3, SettledStep
  <2>4. CASE b # a
    <3>1. target[b] = None
      BY <1>3, <1>a, <2>2, <2>4, StepsEffect DEF Alone
    <3>2. pc[b] = "read"
      BY <1>3, <1>a, <3>1, StepsEffect DEF Alone
    <3> QED
      BY <1>3, <1>a, <2>1, <2>2, <2>4, <3>1, <3>2, StepsEffect DEF Settled, Unassignment, Assignment
  <2> QED
    BY <2>3, <2>4
<1>4. ASSUME NEW action \in Actions, Complete(action) \/ Errored(action) PROVE Settled(a)'
  <2>1. Settled(a) /\ target[a] # None
    BY <1>4 DEF Complete, Errored, EndpointInv
  <2> QED
    BY <1>4, <1>a, <2>1, ProviderStep
<1>5. CASE UNCHANGED endpointVars
  BY <1>5 DEF endpointVars, EndpointInv, Settled, Unassignment, Assignment
<1> QED
  BY <1>1, <1>2, <1>3, <1>4, <1>5 DEF EndpointNext, Steps, Provider

-----------------------------------------------------------------------------

(* The inductive invariant holds in every state of every behaviour.         *)
THEOREM EndpointInvariance == EndpointSpec => []EndpointInv
  BY EndpointInvInit, EndpointInvStep, PTL DEF EndpointSpec

(* Every variable keeps to its type.                                        *)
THEOREM EndpointTypeCorrect == EndpointSpec => []EndpointTypeOK
<1>1. EndpointInv => EndpointTypeOK
  BY DEF EndpointInv
<1> QED
  BY <1>1, EndpointInvariance, PTL

(* Once the last agent has answered "assigned" the address stays where it   *)
(* confirmed it, though agents before it gave up half way and the provider  *)
(* takes its time.                                                          *)
THEOREM AssignmentHolds == EndpointSpec => []AssignedHolds
<1>1. EndpointInv => AssignedHolds
  BY DEF EndpointInv, AssignedHolds, Alone, Settled
<1> QED
  BY <1>1, EndpointInvariance, PTL

=============================================================================
