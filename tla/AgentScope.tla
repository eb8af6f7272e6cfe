----------------------------- MODULE AgentScope -----------------------------
(***************************************************************************)
(* The life of one scoped SSH agent: the caller's side in one of the three *)
(* ports (start_agent and the closer it makes: a task of Blue's event      *)
(* loop, a future of Green's, a promise of Red's), the adapter that loads  *)
(* the identities and renews them while its pipe is open, the ssh-agent    *)
(* the adapter owns, and the records it loads from, which others rotate.   *)
(* Time is counted in ticks while the scope is open; after that a wait of  *)
(* the closer may time out whenever the process it waits for still runs.   *)
(***************************************************************************)
EXTENDS Naturals

CONSTANTS
    Callers,   \* tasks or threads that close the scope: start_agent's own, the scope's
    Entries,   \* how many identities the scope holds
    Lifetime,  \* ticks an added identity lives in the agent
    MaxLock,   \* ticks the commands may take that read and lock a record,
    MaxPublish,  \* those that publish it,
    MaxCommand,  \* and ssh-add: 2, 1 and 1 timeouts for S3, 5, 3 and 1 for GCS
    Rotations, \* TRUE: other sessions rotate the identities
    Faults     \* TRUE: commands of a load fail

ASSUME EntriesAssumption == Entries \in Nat \ {0}
ASSUME TimeAssumption ==
    Lifetime \in Nat \ {0} /\ MaxLock \in Nat /\ MaxPublish \in Nat /\ MaxCommand \in Nat
ASSUME SwitchAssumption == Rotations \in BOOLEAN /\ Faults \in BOOLEAN

VARIABLES
    port,      \* whose caller it is: "blue", "green", "red"
    adapter,   \* where the adapter process is
    next,      \* the entry it loads
    spent,     \* ticks since it came to where it is
    age,       \* entry -> ticks since it was added
    holder,    \* entry -> whose lock token its record carries: "free", "mine", "other"
    rotated,   \* entries that the scope's passphrases do not open any more
    uncertain, \* whether a write of the load it is in has failed
    agent,     \* "none", "running" or "gone"
    signal,    \* "none", "term", "kill": the strongest signal sent
    missed,    \* history: whether SIGTERM fell between two statements
    ready,     \* whether it has announced its socket
    stdin,     \* whether the caller's pipe is open
    closing,   \* the one cleanup task: the wait it is in, or how it ended
    caller     \* task -> what it does, or how it left

pass == <<next, age>>
clock == <<spent, pass>>
records == <<holder, rotated>>
process == <<port, agent, signal, missed, ready>>
loop == <<stdin, closing, caller>>
vars == <<adapter, clock, records, uncertain, process, loop>>

Ports == {"blue", "green", "red"}

Loading == {"lock", "held", "publish", "release", "list"}
Locations == Loading \cup {"spawn", "spawned", "announce", "wait", "reap", "reaping", "gone"}

Init ==
    /\ port \in Ports
    /\ adapter = "spawn"
    /\ next = 1 /\ spent = 0 /\ age = [i \in 1 .. Entries |-> 0]
    /\ holder = [i \in 1 .. Entries |-> "free"] /\ rotated = {}
    /\ uncertain = FALSE
    /\ agent = "none" /\ signal = "none" /\ missed = FALSE /\ ready = FALSE
    /\ stdin = TRUE /\ closing = "none"
    /\ caller = [c \in Callers |-> "none"]

-----------------------------------------------------------------------------
(* The adapter: agent_session and the renewal loop of main.                 *)

Step(from, to) == adapter = from /\ adapter' = to /\ spent' = 0

WholeInterval == Lifetime    \* mutant: the next load starts when keys expire

Interval == Lifetime \div 2

(* Commands end within their timeouts, and select returns after Interval.   *)
Limit ==
    CASE adapter = "lock" -> MaxLock
      [] adapter \in {"held", "list"} -> MaxCommand
      [] adapter \in {"publish", "release"} -> MaxPublish
      [] adapter = "wait" -> Interval
      [] OTHER -> 0

Tick ==
    /\ closing = "none"
    /\ spent < Limit
    /\ spent' = spent + 1
    /\ age' = [i \in 1 .. Entries |-> age[i] + 1]
    /\ UNCHANGED <<adapter, next, records, uncertain, process, loop>>

Spawn ==
    /\ Step("spawn", "spawned")
    /\ agent' = "running"
    /\ UNCHANGED <<pass, records, uncertain, port, signal, missed, ready, loop>>

EnterTry ==
    /\ Step("spawned", "lock")
    /\ UNCHANGED <<pass, records, uncertain, process, loop>>

Hold(who) == holder' = [holder EXCEPT ![next] = who]

(* locked() reserves the record of the entry for this load.                 *)
LockAuthority ==
    /\ Step("lock", "held")
    /\ holder[next] = "free" /\ Hold("mine")
    /\ UNCHANGED <<pass, rotated, uncertain, process, loop>>

(* "SSH resource busy or interrupted": the load does not wait, it fails.    *)
LockBusy ==
    /\ Step("lock", "reap")
    /\ holder[next] # "free"
    /\ UNCHANGED <<pass, records, uncertain, process, loop>>

LockFails ==
    /\ Faults
    /\ Step("lock", "reap")
    /\ holder[next] = "free" /\ (Hold("free") \/ Hold("mine"))
    /\ uncertain' = TRUE
    /\ UNCHANGED <<pass, rotated, process, loop>>

(* ssh-add unlocks the key with the passphrase the adapter started with.    *)
AddKey ==
    /\ Step("held", "publish")
    /\ next \notin rotated
    /\ age' = [age EXCEPT ![next] = 0]
    /\ UNCHANGED <<next, records, uncertain, process, loop>>

LeaveLocked ==    \* mutant: a failed load leaves its lock behind
    /\ Faults \/ next \in rotated
    /\ Step("held", "reap")
    /\ UNCHANGED <<pass, records, uncertain, process, loop>>

AddKeyFails ==
    /\ Faults \/ next \in rotated
    /\ Step("held", "release")
    /\ UNCHANGED <<pass, records, uncertain, process, loop>>

(* A failed load publishes too: only an interrupted one keeps the lock.     *)
Publish ==
    /\ \/ Step("publish", IF next < Entries THEN "lock" ELSE "list")
          /\ next' = IF next < Entries THEN next + 1 ELSE next
       \/ Step("release", "reap") /\ UNCHANGED next
    /\ Hold("free")
    /\ UNCHANGED <<age, rotated, uncertain, process, loop>>

PublishFails ==
    /\ Faults
    /\ Step("publish", "reap") \/ Step("release", "reap")
    /\ Hold("mine") \/ Hold("free")
    /\ uncertain' = TRUE
    /\ UNCHANGED <<pass, rotated, process, loop>>

(* ssh-add -l must show what was loaded.                                    *)
List ==
    /\ Step("list", IF ready THEN "wait" ELSE "announce")
    /\ UNCHANGED <<pass, records, uncertain, process, loop>>

ListFails ==
    /\ Faults
    /\ Step("list", "reap")
    /\ UNCHANGED <<pass, records, uncertain, process, loop>>

Announce ==
    /\ Step("announce", "wait")
    /\ ready' = TRUE
    /\ UNCHANGED <<pass, records, uncertain, port, agent, signal, missed, loop>>

(* select times out while the pipe is open: load everything again.          *)
Renew ==
    /\ stdin
    /\ spent = Interval
    /\ Step("wait", "lock")
    /\ next' = 1
    /\ UNCHANGED <<age, records, uncertain, process, loop>>

SeeEof ==
    /\ ~stdin
    /\ Step("wait", "reap")
    /\ UNCHANGED <<pass, records, uncertain, process, loop>>

ForgetAgent ==    \* mutant: the adapter exits without terminating its agent
    /\ Step("reap", "reaping")
    /\ UNCHANGED <<pass, records, uncertain, process, loop>>

(* finally: agent.terminate(), wait, and kill if it takes 5 seconds.        *)
Reap ==
    /\ Step("reap", "reaping")
    /\ agent' = "gone"
    /\ UNCHANGED <<pass, records, uncertain, port, signal, missed, ready, loop>>

Exit ==
    /\ Step("reaping", "gone")
    /\ UNCHANGED <<pass, records, uncertain, process, loop>>

(* SIGTERM raises KeyboardInterrupt wherever the adapter is.  Outside the   *)
(* try, or at the head of its finally, nothing reaps the agent any more.    *)
Unguarded == {"spawned", "reap"}

Interrupt ==
    /\ signal = "term"
    /\ adapter \notin {"reaping", "gone"}
    /\ adapter' = IF adapter \in Unguarded \cup {"spawn"} THEN "gone" ELSE "reap"
    /\ missed' = (adapter \in Unguarded)
    /\ \/ UNCHANGED holder
       \/ adapter = "lock" /\ holder[next] = "free" /\ Hold("mine")
       \/ adapter \in {"publish", "release"} /\ Hold("free")
    /\ signal' = "none"
    /\ UNCHANGED <<clock, rotated, uncertain, port, agent, ready, loop>>

Killed ==
    /\ signal = "kill"
    /\ adapter # "gone"
    /\ adapter' = "gone"
    /\ UNCHANGED <<clock, records, uncertain, process, loop>>

-----------------------------------------------------------------------------
(* Another session rotates an identity: under its lock, to a passphrase     *)
(* that the scope has not got or back to the one it has.  It begins while   *)
(* the scope is open: later there is at most one load left to disturb.      *)

Reserve(i) ==
    /\ Rotations /\ closing = "none"
    /\ holder[i] = "free"
    /\ holder' = [holder EXCEPT ![i] = "other"]
    /\ UNCHANGED <<adapter, clock, rotated, uncertain, process, loop>>

Rotate(i) ==
    /\ holder[i] = "other"
    /\ holder' = [holder EXCEPT ![i] = "free"]
    /\ rotated' \in {rotated \cup {i}, rotated \ {i}}
    /\ UNCHANGED <<adapter, clock, uncertain, process, loop>>

-----------------------------------------------------------------------------
(* The caller's side.  The task waits for the process to end by itself, by  *)
(* SIGTERM, by SIGKILL; it always cleans up.                                *)

Gone == adapter = "gone"

Waits == {"eof", "term", "kill"}
CleanedUp == closing \in {"cleaned", "abandoned"}

(* The first call starts the one task; every call waits for it, shielded.   *)
(* From here on time is not counted, and the clocks are put back to zero.   *)
Close(c) ==
    /\ caller[c] = "none"
    /\ caller' = [caller EXCEPT ![c] = "waiting"]
    /\ IF closing = "none"
       THEN /\ closing' = "eof" /\ stdin' = FALSE
            /\ spent' = 0 /\ age' = [i \in 1 .. Entries |-> 0]
       ELSE UNCHANGED <<closing, stdin, spent, age>>
    /\ UNCHANGED <<adapter, next, records, uncertain, process>>

CancelTask(c) ==    \* mutant: close() awaits the task without a shield
    /\ port # "red" /\ caller[c] = "waiting"
    /\ caller' = [caller EXCEPT ![c] = "raised"]
    /\ UNCHANGED <<adapter, clock, records, uncertain, process, stdin, closing>>

(* A task is cancelled, a thread interrupted; a promise of Red's cannot be. *)
Cancel(c) ==
    /\ port # "red" /\ caller[c] = "waiting"
    /\ caller' = [caller EXCEPT ![c] = "cancelled"]
    /\ UNCHANGED <<adapter, clock, records, uncertain, process, stdin, closing>>

NeverKills ==    \* mutant: the closer terminates, and waits for good
    /\ ~Gone
    /\ closing = "eof"
    /\ closing' = "term"
    /\ signal' = "term"
    /\ UNCHANGED <<adapter, clock, records, uncertain, port, agent, missed, ready, stdin, caller>>

TimesOut ==
    /\ ~Gone
    /\ closing \in {"eof", "term"}
    /\ closing' = IF closing = "eof" THEN "term" ELSE "kill"
    /\ signal' = closing'
    /\ UNCHANGED <<adapter, clock, records, uncertain, port, agent, missed, ready, stdin, caller>>

CleanUp ==
    /\ Gone
    /\ closing \in Waits
    /\ closing' = "cleaned"
    /\ UNCHANGED <<adapter, clock, records, uncertain, process, stdin, caller>>

(* "SSH adapter did not terminate": five seconds after SIGKILL the task     *)
(* fails, having cleaned up.                                                *)
Abandon ==
    /\ ~Gone
    /\ closing = "kill"
    /\ closing' = "abandoned"
    /\ UNCHANGED <<adapter, clock, records, uncertain, process, stdin, caller>>

(* The error of the task comes before a cancellation that was held back.    *)
Leave(c, whenCancelled) ==
    /\ CleanedUp
    /\ caller[c] \in {"waiting", "cancelled"}
    /\ caller' = [caller EXCEPT ![c] = IF closing = "abandoned" THEN "failed"
                                       ELSE IF @ = "waiting" THEN "returned" ELSE whenCancelled]
    /\ UNCHANGED <<adapter, clock, records, uncertain, process, stdin, closing>>

(* Blue raises the cancellation it held back, Green sets the flag again.    *)
BlueReturn(c) == port = "blue" /\ Leave(c, "raised")

GreenReturn(c) == port = "green" /\ Leave(c, "interrupted")

RedReturn(c) == port = "red" /\ Leave(c, "raised")

Return(c) == BlueReturn(c) \/ GreenReturn(c) \/ RedReturn(c)

Adapter ==
    \/ Tick \/ Spawn \/ EnterTry \/ LockAuthority \/ LockBusy \/ LockFails \/ AddKey \/ AddKeyFails
    \/ Publish \/ PublishFails \/ List \/ ListFails \/ Announce \/ Renew \/ SeeEof \/ Reap \/ Exit

Signals == Interrupt \/ Killed

Closer == TimesOut \/ CleanUp \/ Abandon

Next ==
    \/ Adapter \/ Signals \/ Closer
    \/ \E i \in 1 .. Entries : Reserve(i) \/ Rotate(i)
    \/ \E c \in Callers : Close(c) \/ Cancel(c) \/ Return(c)

Spec == Init /\ [][Next]_vars

(* Signals are delivered, waits end, and the event loop or the threads run; *)
(* of the adapter nothing is assumed.                                       *)
FairSpec ==
    /\ Spec
    /\ WF_vars(Signals) /\ WF_vars(Closer)
    /\ \A c \in Callers : WF_vars(Return(c))

-----------------------------------------------------------------------------
(* Properties.                                                              *)

FlagsOK == uncertain \in BOOLEAN /\ missed \in BOOLEAN /\ ready \in BOOLEAN /\ stdin \in BOOLEAN

(* How a caller left: close() came back, the cancellation it held back went *)
(* on, or its thread is interrupted again; or the task had failed.          *)
Left == {"returned", "raised", "interrupted", "failed"}

(* Every variable keeps to its type.                                        *)
TypeOK ==
    /\ port \in Ports /\ adapter \in Locations
    /\ next \in 1 .. Entries /\ spent \in Nat
    /\ age \in [1 .. Entries -> Nat]
    /\ holder \in [1 .. Entries -> {"free", "mine", "other"}] /\ rotated \subseteq 1 .. Entries
    /\ FlagsOK
    /\ agent \in {"none", "running", "gone"} /\ signal \in {"none", "term", "kill"}
    /\ closing \in {"none", "cleaned", "abandoned"} \cup Waits
    /\ caller \in [Callers -> {"none", "waiting", "cancelled"} \cup Left]

(* No caller leaves close(), cancelled or not, before the directory is      *)
(* cleaned up; who leaves while the adapter still runs has an error for it, *)
(* and the adapter has its SIGKILL.                                         *)
LeavesAfterCleanup ==
    \A c \in Callers :
        caller[c] \in Left =>
            /\ CleanedUp
            /\ Gone \/ (caller[c] = "failed" /\ signal = "kill")

(* The adapter "exits on pipe EOF or SIGTERM and reaps the owned agent.     *)
(* SIGKILL cannot run cleanup": whatever it was doing, except when SIGTERM  *)
(* falls between two of its statements outside the try.                     *)
AgentReaped == Gone /\ signal # "kill" /\ ~missed => agent # "running"

(* An adapter that ends by itself leaves no record locked, also when it met *)
(* a rotation or a load failed: only a failed write and a signal may strand *)
(* a lock.                                                                  *)
QuietEndUnlocks ==
    Gone /\ ~uncertain /\ closing \in {"none", "eof"} => \A i \in 1 .. Entries : holder[i] # "mine"

Open == ready /\ closing = "none" /\ agent = "running"

(* The contract: the adapter "renews loaded identities before their         *)
(* lifetime expires", so the agent of an open scope never lacks a key.      *)
KeysStayLoaded == Open => \A i \in 1 .. Entries : age[i] <= Lifetime

PerEntry == MaxLock + MaxCommand + MaxPublish

(* What the code does ensure: in an open scope every key was added no       *)
(* longer ago than half its lifetime, one pass over all the entries, the    *)
(* listing between two passes, and the release of a lock when a renewal     *)
(* fails.                                                                   *)
RenewedInTime ==
    Open => \A i \in 1 .. Entries :
                age[i] <= (Lifetime \div 2) + Entries * PerEntry + MaxCommand + MaxPublish

(* Every close() comes back, whatever the adapter is busy with and however  *)
(* often its callers are cancelled.                                         *)
CloseReturns ==
    \A c \in Callers : caller[c] = "waiting" ~> caller[c] \in Left

(* The contract: "concurrent rotation therefore serializes key loading;     *)
(* already loaded identities continue working": without faults the agent of *)
(* an open scope lives.                                                     *)
RotationSparesScope == ready /\ closing = "none" => agent = "running"

=============================================================================
