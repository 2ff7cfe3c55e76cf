---------------------------- MODULE SemaphoreSet ----------------------------
(***************************************************************************)
(* The System V semaphore set of src/internal/semaphore.rs: one semaphore  *)
(* per record (per stripe of StripeSize records in a large table) and one  *)
(* for the table.  semget makes them with value 0 and create then raises   *)
(* each to 1; a lock takes 1 off and its guard gives it back, both with    *)
(* SEM_UNDO, so that the kernel reverts what a process that dies has done. *)
(***************************************************************************)
EXTENDS Integers, FiniteSets

CONSTANTS
  Proc,
  Creator,     \* the process in SemaphoreSet::create; the others opened it
  NumRecords,  \* num_records: the table's capacity, 0 for an index
  StripeSize,  \* STRIPE_SIZE
  Word16,      \* 2^16: semaphore numbers are cast to u16
  Positions    \* the records that get locked

ASSUME SemaphoreSetAssumption ==
  /\ Creator \in Proc
  /\ NumRecords \in Nat
  /\ StripeSize \in Nat \ {0}
  /\ Word16 \in Nat \ {0}
  /\ Positions \subseteq 0 .. NumRecords - 1

VARIABLES
  sem,     \* the values of the semaphores
  made,    \* how many semaphores create has raised so far
  removed, \* whether destroy has removed the set
  undo,    \* undo[p][s]: what the kernel adds to s when p dies
  pc,      \* where each process stands
  want,    \* the semaphore number it passes to semop
  result   \* how its last attempt to lock ended

vars == <<sem, made, removed, undo, pc, want, result>>

-----------------------------------------------------------------------------
(* The layout of the set.                                                  *)

Stripe == IF NumRecords < StripeSize THEN 1 ELSE StripeSize

CeilDiv(a, b) == (a + b - 1) \div b

Stripes == CeilDiv(NumRecords, Stripe) + 1

Sems == 0 .. Stripes - 1

(* get_index and the cast in try_lock. *)
RecordSem(i) == (i \div Stripe) % Word16

(* lock_table passes num_records whatever the stripe size. *)
TableSem == NumRecords % Word16

-----------------------------------------------------------------------------
(* One process creates the set while others may already have opened it.    *)

Init ==
  /\ sem = [s \in Sems |-> 0]
  /\ made = 0
  /\ removed = FALSE
  /\ undo = [p \in Proc |-> [s \in Sems |-> 0]]
  /\ pc = [p \in Proc |-> IF p = Creator THEN "creating" ELSE "idle"]
  /\ want = [p \in Proc |-> 0]
  /\ result = [p \in Proc |-> "none"]

Goto(p, here, there) ==
  /\ pc[p] = here
  /\ pc' = [pc EXCEPT ![p] = there]

Give(s) == sem' = [sem EXCEPT ![s] = @ + 1]

(* Mutation of Reset: raises the value by two.                             *)
ResetToTwo ==
  /\ pc[Creator] = "creating" /\ made < Stripes /\ ~removed
  /\ sem' = [sem EXCEPT ![made] = 2]
  /\ made' = made + 1
  /\ UNCHANGED <<removed, undo, pc, want, result>>

(* sem_reset, semaphore by semaphore, without SEM_UNDO.                    *)
Reset ==
  /\ pc[Creator] = "creating" /\ made < Stripes /\ ~removed
  /\ Give(made)
  /\ made' = made + 1
  /\ UNCHANGED <<removed, undo, pc, want, result>>

(* A process that opened the set early has destroyed it: create returns an *)
(* error and its caller takes no further part.                             *)
ResetFails ==
  /\ made < Stripes /\ removed
  /\ Goto(Creator, "creating", "dead")
  /\ UNCHANGED <<sem, made, removed, undo, want, result>>

Created ==
  /\ made = Stripes
  /\ Goto(Creator, "creating", "idle")
  /\ UNCHANGED <<sem, made, removed, undo, want, result>>

(* lock_record and lock_table up to the system call.                       *)
Attempt(p, s) ==
  /\ Goto(p, "idle", "waiting")
  /\ want' = [want EXCEPT ![p] = s]
  /\ result' = [result EXCEPT ![p] = "none"]
  /\ UNCHANGED <<sem, made, removed, undo>>

LockRecord(p) == \E i \in Positions : Attempt(p, RecordSem(i))

LockTable(p) == Attempt(p, TableSem)

(* Mutation of Acquire: without SEM_UNDO.                                  *)
AcquireNoUndo(p) ==
  LET s == want[p] IN
  /\ ~removed /\ s \in Sems /\ sem[s] > 0
  /\ Goto(p, "waiting", "held")
  /\ sem' = [sem EXCEPT ![s] = @ - 1]
  /\ result' = [result EXCEPT ![p] = "ok"]
  /\ UNCHANGED <<made, removed, undo, want>>

Acquire(p) ==
  LET s == want[p] IN
  /\ ~removed /\ s \in Sems /\ sem[s] > 0
  /\ Goto(p, "waiting", "held")
  /\ sem' = [sem EXCEPT ![s] = @ - 1]
  /\ undo' = [undo EXCEPT ![p][s] = @ + 1]
  /\ result' = [result EXCEPT ![p] = "ok"]
  /\ UNCHANGED <<made, removed, want>>

(* semop fails: a signal while it waits, a set that is gone, a number      *)
(* beyond the set.                                                         *)
Fails(p, errno) ==
  /\ Goto(p, "waiting", "idle")
  /\ result' = [result EXCEPT ![p] = errno]
  /\ UNCHANGED <<sem, made, removed, undo, want>>

Interrupted(p) == ~removed /\ want[p] \in Sems /\ sem[want[p]] = 0 /\ Fails(p, "EINTR")

SetGone(p) == removed /\ Fails(p, "EIDRM")

OutOfRange(p) == ~removed /\ want[p] \notin Sems /\ Fails(p, "EFBIG")

(* Mutation of Release: the guard gives back without SEM_UNDO.             *)
ReleaseNoUndo(p) ==
  /\ Goto(p, "held", "idle")
  /\ IF removed THEN UNCHANGED sem ELSE Give(want[p])
  /\ UNCHANGED <<made, removed, undo, want, result>>

(* The guard is dropped; if the set is gone this prints a message.         *)
Release(p) ==
  /\ Goto(p, "held", "idle")
  /\ IF removed
     THEN UNCHANGED <<sem, undo>>
     ELSE /\ Give(want[p])
          /\ undo' = [undo EXCEPT ![p][want[p]] = @ - 1]
  /\ UNCHANGED <<made, removed, want, result>>

(* destroy asks nobody, neither holders of a guard nor the creator.        *)
Destroy(p) ==
  /\ pc[p] = "idle" /\ ~removed
  /\ removed' = TRUE
  /\ UNCHANGED <<sem, made, undo, pc, want, result>>

(* A process ends, wherever it is; the kernel applies its adjustments.     *)
Die(p) ==
  /\ pc[p] # "dead"
  /\ pc' = [pc EXCEPT ![p] = "dead"]
  /\ sem' = [s \in Sems |-> sem[s] + undo[p][s]]
  /\ undo' = [undo EXCEPT ![p] = [s \in Sems |-> 0]]
  /\ UNCHANGED <<made, removed, want, result>>

Next ==
  \/ Reset \/ ResetFails \/ Created
  \/ \E p \in Proc :
       \/ LockRecord(p) \/ LockTable(p)
       \/ Acquire(p) \/ Interrupted(p) \/ SetGone(p) \/ OutOfRange(p)
       \/ Release(p) \/ Destroy(p) \/ Die(p)

Spec == Init /\ [][Next]_vars

(* Guards are dropped when their scope ends, system calls that can return  *)
(* do, and the kernel serves the waiters of a semaphore in turn.           *)
FairSpec ==
  /\ Spec
  /\ \A p \in Proc : /\ WF_vars(Release(p))
                     /\ WF_vars(SetGone(p) \/ OutOfRange(p))
                     /\ SF_vars(Acquire(p))

-----------------------------------------------------------------------------
(* Properties.                                                             *)

Holds(p, s) == pc[p] = "held" /\ want[p] = s

(* Semaphores are binary (semaphore.rs, create raises each once).          *)
TypeOK ==
  /\ sem \in [Sems -> {0, 1}]
  /\ made \in 0 .. Stripes
  /\ removed \in BOOLEAN
  /\ undo \in [Proc -> [Sems -> {0, 1}]]
  /\ pc \in [Proc -> {"creating", "idle", "waiting", "held", "dead"}]
  /\ want \in [Proc -> Nat]
  /\ result \in [Proc -> {"none", "ok", "EINTR", "EIDRM", "EFBIG"}]

(* No two processes hold the same semaphore, whoever died, was interrupted *)
(* or destroyed the set in between (semaphore.rs, Locker).                 *)
MutualExclusion ==
  \A p, q \in Proc, s \in Sems : Holds(p, s) /\ Holds(q, s) => p = q

(* A semaphore that create has raised is free or held by a living process: *)
(* neither a death nor a failed call loses it (semaphore.rs, SEM_UNDO in   *)
(* try_lock and in drop).                                                  *)
NoneLost ==
  \A s \in Sems : ~removed /\ s < made /\ sem[s] = 0 => \E p \in Proc : Holds(p, s)

(* Whoever waits for a semaphore that create has raised gets an answer     *)
(* (semaphore.rs, try_lock blocks in semop).                               *)
WaitsEnd ==
  \A p \in Proc : (pc[p] = "waiting" /\ want[p] < made) ~> pc[p] # "waiting"

(* The lock on the table is never refused for its semaphore's number       *)
(* (table.rs:497, "The call blocks until exclusive access is granted").    *)
TableLockInRange ==
  \A p \in Proc : result[p] = "EFBIG" => want[p] # TableSem
=============================================================================
