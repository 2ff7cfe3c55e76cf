----------------------------- MODULE Lifecycle -----------------------------
(***************************************************************************)
(* create, open and destroy of the tables of one name (src/table.rs over   *)
(* block.rs, semaphore.rs and index.rs).  A table consists of two halves,  *)
(* the records and the primary-key index, and each half of a shared memory *)
(* object and a semaphore set.  Every system call and every initialization *)
(* is a step, any process may die or start a call between two of them, and *)
(* system calls fail.                                                      *)
(*                                                                         *)
(* An object is known by the number of the create call that made it.  A    *)
(* shared memory object outlives its name as long as somebody has mapped   *)
(* it; a semaphore set is gone when it is removed.  All tables of the name *)
(* have one capacity.                                                      *)
(***************************************************************************)
EXTENDS Integers, FiniteSets

CONSTANTS
  Proc,
  MaxCreates,  \* how many calls of create there are
  MaxFaults,   \* how many system calls fail for want of memory or the like
  MaxDeaths    \* how many processes die

ASSUME LifecycleAssumption ==
  MaxCreates \in Nat /\ MaxFaults \in Nat /\ MaxDeaths \in Nat

VARIABLES
  shm,      \* shm[h]: the object with the name of half h in /dev/shm, 0 if none
  sem,      \* sem[h]: the set with the IPC key of half h, 0 if none
  content,  \* content[h][n]: what the object of creation n holds
  raised,   \* raised[h][n]: whether all semaphores of its set were raised from 0
  creates,  \* how many creations have begun
  pc,       \* where each process stands
  half,     \* the half it is busy with
  mine,     \* the objects its handle, finished or not, leads to
  out,      \* what its last call returned
  faults,
  tidy      \* history: no destroy has overlapped another call, gone through a
            \* handle whose table is not the one with the names, or been cut short

vars == <<shm, sem, content, raised, creates, pc, half, mine, out, faults, tidy>>

Half == {"table", "index"}
Creation == 1 .. MaxCreates
None == 0
Nothing == [shm |-> [h \in Half |-> None], sem |-> [h \in Half |-> None]]

-----------------------------------------------------------------------------
(* error.rs: what becomes of an errno.                                     *)

FromShmError(errno) ==
  CASE errno = "EEXIST" -> "ShmAlreadyExists"
    [] errno \in {"EACCES", "EPERM"} -> "ShmPermissionDenied"
    [] errno = "EINVAL" -> "InvalidName"
    [] errno = "ENOSPC" -> "ShmNoSpace"
    [] errno = "ENOMEM" -> "ShmOutOfMemory"
    [] errno = "EBADF" -> "ShmBadFileDescriptor"
    [] OTHER -> "ShmError"

FromFtruncateError(errno) ==
  CASE errno = "EFBIG" -> "ShmTooLarge"
    [] errno = "ENOSPC" -> "ShmNoSpace"
    [] OTHER -> "ShmError"

FromSemgetError(errno) ==
  CASE errno = "EEXIST" -> "SemaphoreAlreadyExists"
    [] errno = "ENOSPC" -> "SemaphoreLimitReached"
    [] errno \in {"EACCES", "EPERM"} -> "SemaphorePermissionDenied"
    [] errno = "EINVAL" -> "SemaphoreInvalidParams"
    [] errno = "ENOMEM" -> "SemaphoreOutOfMemory"
    [] errno = "ENOENT" -> "SemaphoreNotExists"
    [] OTHER -> "SemaphoreError"

FromSemopError(errno) ==
  CASE errno = "EIDRM" -> "SemaphoreRemoved"
    [] errno \in {"EINVAL", "EFBIG"} -> "SemaphoreInvalidIndex"
    [] OTHER -> "SemaphoreOperationFailed"

-----------------------------------------------------------------------------
(* What steps are made of.                                                 *)

Init ==
  /\ shm = [h \in Half |-> None]
  /\ sem = [h \in Half |-> None]
  /\ content = [h \in Half |-> [n \in Creation |-> "none"]]
  /\ raised = [h \in Half |-> [n \in Creation |-> FALSE]]
  /\ creates = 0
  /\ pc = [p \in Proc |-> "idle"]
  /\ half = [p \in Proc |-> "table"]
  /\ mine = [p \in Proc |-> Nothing]
  /\ out = [p \in Proc |-> "none"]
  /\ faults = 0
  /\ tidy = TRUE

Goto(p, here, there) == pc[p] = here /\ pc' = [pc EXCEPT ![p] = there]
Return(p, r) == pc' = [pc EXCEPT ![p] = "idle"] /\ out' = [out EXCEPT ![p] = r]

(* The creation whose objects p makes, or holds. *)
Number(p) == mine[p].shm["table"]

Fill(p, h, what) == content' = [content EXCEPT ![h][mine[p].shm[h]] = what]
IsHalf(p, h) == half[p] = h

Fault == faults < MaxFaults /\ faults' = faults + 1

Names == <<shm, sem>>
Ghosts == <<creates, faults, tidy>>

InCall(q) == pc[q] \notin {"idle", "dead"}
InDestroy(q) == pc[q] \in {"unlink", "rmid"}
Holds(p) == pc[p] = "idle" /\ out[p] \in {"created", "opened"}

Begin(p, there) ==
  /\ Goto(p, "idle", there)
  /\ half' = [half EXCEPT ![p] = "table"]
  /\ out' = [out EXCEPT ![p] = "none"]
  /\ UNCHANGED <<Names, content, faults>>

-----------------------------------------------------------------------------
(* Table::create_with_size: Block::new, the header, Slots::new,            *)
(* SemaphoreSet::create, and the same again, without a header, for the     *)
(* index.                                                                  *)

Create(p) ==
  /\ ~Holds(p) /\ creates < MaxCreates
  /\ Begin(p, "shm_new")
  /\ creates' = creates + 1
  /\ mine' = [mine EXCEPT ![p] = [Nothing EXCEPT !.shm["table"] = creates + 1]]
  /\ tidy' = (tidy /\ \A q \in Proc : ~InDestroy(q))

(* Mutation of Taken: without O_EXCL.                                      *)
NeverTaken(h) == FALSE

Taken(h) == shm[h] # None

(* shm_open with O_CREAT and O_EXCL; its errno is not looked at.           *)
ShmNew(p) ==
  LET h == half[p] IN
  /\ IF Taken(h)
     THEN /\ pc[p] = "shm_new" /\ Return(p, "ShmError")
          /\ UNCHANGED <<shm, mine, content>>
     ELSE /\ Goto(p, "shm_new", "truncate")
          /\ shm' = [shm EXCEPT ![h] = Number(p)]
          /\ mine' = [mine EXCEPT ![p].shm[h] = Number(p)]
          /\ content' = [content EXCEPT ![h][Number(p)] = "empty"]
          /\ UNCHANGED out
  /\ UNCHANGED <<sem, half, Ghosts>>

(* Mutation of Abandon: leaves the name behind.                            *)
AbandonNamed(p, r) == Return(p, r) /\ UNCHANGED shm

(* Block::new gives up: whatever has the name loses it.                    *)
Abandon(p, r) ==
  /\ Return(p, r)
  /\ shm' = [shm EXCEPT ![half[p]] = None]

Truncate(p) ==
  /\ pc[p] = "truncate"
  /\ \/ /\ Goto(p, "truncate", "map")
        /\ Fill(p, half[p], "zero")
        /\ UNCHANGED <<shm, out, faults>>
     \/ /\ Fault
        /\ \E errno \in {"EFBIG", "ENOSPC"} : Abandon(p, FromFtruncateError(errno))
        /\ UNCHANGED content
  /\ UNCHANGED <<sem, half, mine, creates, tidy>>

Map(p) ==
  /\ pc[p] = "map"
  /\ \/ /\ Goto(p, "map", IF IsHalf(p, "table") THEN "header" ELSE "slots")
        /\ UNCHANGED <<shm, out, faults>>
     \/ Fault /\ Abandon(p, "ShmMappingFailed")
  /\ UNCHANGED <<sem, content, half, mine, creates, tidy>>

Header(p) ==
  /\ Goto(p, "header", "slots")
  /\ Fill(p, "table", "header")
  /\ UNCHANGED <<Names, half, mine, out, Ghosts>>

(* The buckets of the index need nothing: the zeros of a block are nones.  *)
Slots(p) ==
  /\ Goto(p, "slots", "semget")
  /\ Fill(p, half[p], "ready")
  /\ UNCHANGED <<Names, half, mine, out, Ghosts>>

(* semget with IPC_CREAT and IPC_EXCL.  Nothing that exists by now is      *)
(* removed when it fails.                                                  *)
Semget(p) ==
  LET h == half[p] IN
  /\ pc[p] = "semget"
  /\ \/ /\ sem[h] = None
        /\ Goto(p, "semget", "raise")
        /\ sem' = [sem EXCEPT ![h] = Number(p)]
        /\ mine' = [mine EXCEPT ![p].sem[h] = Number(p)]
        /\ UNCHANGED <<out, faults>>
     \/ /\ sem[h] # None
        /\ Return(p, FromSemgetError("EEXIST"))
        /\ UNCHANGED <<sem, mine, faults>>
     \/ /\ sem[h] = None /\ Fault
        /\ Return(p, FromSemgetError("ENOSPC"))
        /\ UNCHANGED <<sem, mine>>
  /\ UNCHANGED <<shm, content, half, creates, tidy>>

(* Mutation of RaiseAll: the loop stops before the last semaphore.         *)
RaiseAllButOne(h) == UNCHANGED raised

RaiseAll(h) == raised' = [raised EXCEPT ![h][sem[h]] = TRUE]

(* sem_reset raises the semaphores, one after the other, from the 0 that   *)
(* semget left; it fails if the set is gone.  Then on to the other half.   *)
(* Until this step, and for ever if p dies before it, some are at 0.       *)
Raise(p) ==
  LET h == half[p] IN
  /\ pc[p] = "raise"
  /\ \/ /\ sem[h] = mine[p].sem[h] /\ h = "table"
        /\ RaiseAll(h)
        /\ Goto(p, "raise", "shm_new")
        /\ half' = [half EXCEPT ![p] = "index"]
        /\ UNCHANGED out
     \/ /\ sem[h] = mine[p].sem[h] /\ h = "index"
        /\ RaiseAll(h)
        /\ Return(p, "created")
        /\ UNCHANGED half
     \/ /\ sem[h] # mine[p].sem[h]
        /\ \E errno \in {"EIDRM", "EINVAL"} : Return(p, FromSemopError(errno))
        /\ UNCHANGED <<half, raised>>
  /\ UNCHANGED <<Names, content, mine, Ghosts>>

-----------------------------------------------------------------------------
(* Table::open: Block::open, the magic number, SemaphoreSet::open, and     *)
(* Index::open, which does the same without a header.                      *)

Open(p) ==
  /\ ~Holds(p)
  /\ Begin(p, "shm_open")
  /\ mine' = [mine EXCEPT ![p] = Nothing]
  /\ tidy' = (tidy /\ \A q \in Proc : ~InDestroy(q))
  /\ UNCHANGED creates

(* Mutation of ShmOpen: an object that does not exist is used.             *)
ShmOpenUnchecked(p) ==
  /\ Goto(p, "shm_open", "map_open")
  /\ mine' = [mine EXCEPT ![p].shm[half[p]] = shm[half[p]]]
  /\ UNCHANGED <<Names, content, half, out, Ghosts>>

ShmOpen(p) ==
  LET h == half[p] IN
  /\ pc[p] = "shm_open"
  /\ \/ /\ shm[h] # None
        /\ Goto(p, "shm_open", "map_open")
        /\ mine' = [mine EXCEPT ![p].shm[h] = shm[h]]
        /\ UNCHANGED out
     \/ /\ shm[h] = None
        /\ Return(p, FromShmError("ENOENT"))
        /\ UNCHANGED mine
  /\ UNCHANGED <<Names, content, half, Ghosts>>

(* An object that has no size yet cannot be mapped.                        *)
MapOpen(p) ==
  LET h == half[p] IN
  /\ pc[p] = "map_open"
  /\ \/ /\ content[h][mine[p].shm[h]] # "empty"
        /\ Goto(p, "map_open", IF h = "table" THEN "check" ELSE "sem_open")
        /\ UNCHANGED <<out, faults>>
     \/ /\ IF content[h][mine[p].shm[h]] = "empty" THEN UNCHANGED faults ELSE Fault
        /\ Return(p, "ShmMappingFailed")
  /\ UNCHANGED <<Names, content, half, mine, creates, tidy>>

IsValid(p) == content["table"][Number(p)] \in {"header", "ready"}

Check(p) ==
  /\ pc[p] = "check"
  /\ IF IsValid(p)
     THEN Goto(p, "check", "sem_open") /\ UNCHANGED out
     ELSE Return(p, "NotInitialized")
  /\ UNCHANGED <<Names, content, half, mine, Ghosts>>

SemOpen(p) ==
  LET h == half[p] IN
  /\ pc[p] = "sem_open"
  /\ \/ /\ sem[h] # None
        /\ mine' = [mine EXCEPT ![p].sem[h] = sem[h]]
        /\ IF h = "table"
           THEN /\ Goto(p, "sem_open", "shm_open")
                /\ half' = [half EXCEPT ![p] = "index"]
                /\ UNCHANGED out
           ELSE Return(p, "opened") /\ UNCHANGED half
     \/ /\ sem[h] = None
        /\ Return(p, FromSemgetError("ENOENT"))
        /\ UNCHANGED <<mine, half>>
  /\ UNCHANGED <<Names, content, Ghosts>>

-----------------------------------------------------------------------------
(* Table::destroy, through a handle that create or open returned.          *)

Stale(p) == shm # mine[p].shm \/ sem # mine[p].sem

Destroy(p) ==
  /\ Holds(p)
  /\ Begin(p, "unlink")
  /\ tidy' = (tidy /\ ~Stale(p) /\ \A q \in Proc : ~InCall(q))
  /\ UNCHANGED <<mine, creates>>

(* shm_unlink removes the name, of whatever object it is by now.           *)
Unlink(p) ==
  LET h == half[p] IN
  /\ pc[p] = "unlink"
  /\ IF shm[h] # None
     THEN Goto(p, "unlink", "rmid") /\ UNCHANGED out
     ELSE Return(p, "ShmError")
  /\ shm' = [shm EXCEPT ![h] = None]
  /\ UNCHANGED <<sem, content, half, mine, Ghosts>>

(* Mutation of Removed: forgets the set of the index.                      *)
RemovedTableOnly(h) == IF h = "table" THEN [sem EXCEPT ![h] = None] ELSE sem

Removed(h) == [sem EXCEPT ![h] = None]

(* The set is removed by its identifier.                                   *)
Rmid(p) ==
  LET h == half[p] IN
  /\ pc[p] = "rmid"
  /\ IF sem[h] # mine[p].sem[h]
     THEN Return(p, "SemaphoreError") /\ UNCHANGED <<sem, half>>
     ELSE /\ sem' = Removed(h)
          /\ IF h = "table"
             THEN /\ Goto(p, "rmid", "unlink")
                  /\ half' = [half EXCEPT ![p] = "index"]
                  /\ UNCHANGED out
             ELSE Return(p, "destroyed") /\ UNCHANGED half
  /\ UNCHANGED <<shm, content, mine, Ghosts>>

(* A handle that goes out of scope unmaps its blocks and removes nothing.  *)
Drop(p) ==
  /\ Holds(p)
  /\ out' = [out EXCEPT ![p] = "none"]
  /\ mine' = [mine EXCEPT ![p] = Nothing]
  /\ UNCHANGED <<Names, content, pc, half, Ghosts>>

Die(p) ==
  /\ InCall(p)
  /\ Cardinality({q \in Proc : pc[q] = "dead"}) < MaxDeaths
  /\ pc' = [pc EXCEPT ![p] = "dead"]
  /\ tidy' = (tidy /\ ~InDestroy(p))
  /\ UNCHANGED <<Names, content, half, mine, out, creates, faults>>

Rest(p) ==
  \/ Create(p) \/ ShmNew(p) \/ Truncate(p) \/ Map(p) \/ Header(p) \/ Slots(p) \/ Semget(p)
  \/ Open(p) \/ ShmOpen(p) \/ MapOpen(p) \/ Check(p) \/ SemOpen(p)
  \/ Destroy(p) \/ Unlink(p) \/ Rmid(p) \/ Drop(p) \/ Die(p)

Next == \E p \in Proc : Raise(p) \/ (Rest(p) /\ UNCHANGED raised)

Spec == Init /\ [][Next]_vars

-----------------------------------------------------------------------------
(* Properties.                                                             *)

Errors ==
  {"InvalidName", "ShmAlreadyExists", "ShmPermissionDenied", "ShmNoSpace",
   "ShmTooLarge", "ShmOutOfMemory", "ShmMappingFailed", "ShmBadFileDescriptor",
   "ShmError", "SemaphoreAlreadyExists", "SemaphoreLimitReached",
   "SemaphorePermissionDenied", "SemaphoreInvalidParams", "SemaphoreOutOfMemory",
   "SemaphoreOperationFailed", "SemaphoreRemoved", "SemaphoreInvalidIndex",
   "SemaphoreNotExists", "SemaphoreError", "NotInitialized"}

PCs == {"idle", "dead", "shm_new", "truncate", "map", "header", "slots", "semget",
        "raise", "shm_open", "map_open", "check", "sem_open", "unlink", "rmid"}

Objects == [Half -> {None} \cup Creation]

(* Every variable keeps its type, errors are members of the enum of        *)
(* error.rs, and whoever works on an object has one.                       *)
TypeOK ==
  /\ shm \in Objects /\ sem \in Objects
  /\ content \in [Half -> [Creation -> {"none", "empty", "zero", "header", "ready"}]]
  /\ raised \in [Half -> [Creation -> BOOLEAN]]
  /\ creates \in 0 .. MaxCreates
  /\ pc \in [Proc -> PCs]
  /\ half \in [Proc -> Half]
  /\ mine \in [Proc -> [shm : Objects, sem : Objects]]
  /\ out \in [Proc -> Errors \cup {"none", "created", "opened", "destroyed"}]
  /\ faults \in 0 .. MaxFaults /\ tidy \in BOOLEAN
  /\ \A p \in Proc :
       InCall(p) /\ pc[p] \notin {"shm_new", "shm_open"} => mine[p].shm[half[p]] # None

(* The creator of table n stands before raising the set of its index, or   *)
(* died there: while destroys are tidy nobody else has that set, has come  *)
(* to the index and is in "raise" or dead.                                 *)
IndexUnraised(n) ==
  \E q \in Proc : /\ mine[q].sem["index"] = n
                  /\ half[q] = "index" /\ pc[q] \in {"raise", "dead"}

(* A handle leads to the parts of one table: the blocks are initialized,   *)
(* although open looks at the header of the records only and before their  *)
(* slots are made, and the semaphores of the records are raised, although  *)
(* open never looks at one.  Those of the index are raised, too, in a      *)
(* handle from create; in one from open they may be at 0, but only while   *)
(* the creator is in its last step or if it died there: create makes the   *)
(* set of the index last of all.  Creations and openings may overlap, fail *)
(* and die as they like; once a destroy overlaps them it no longer holds   *)
(* (table.rs:313, open; semaphore.rs:102 and 116).                         *)
OpenedWhole ==
  tidy => \A p \in Proc : Holds(p) =>
    LET n == Number(p) IN
    /\ \A h \in Half : /\ mine[p].shm[h] = n /\ mine[p].sem[h] = n
                       /\ content[h][n] = "ready"
    /\ raised["table"][n]
    /\ raised["index"][n] \/ (out[p] = "opened" /\ IndexUnraised(n))

(* A destroy that succeeds has removed all four objects of its table,      *)
(* whatever others did to the names in between (table.rs:414).             *)
LeavesNothing ==
  \A p \in Proc : out[p] = "destroyed" =>
    \A h \in Half : shm[h] # mine[p].shm[h] /\ sem[h] # mine[p].sem[h]

(* A block that is not initialized has a name only while its creator is at *)
(* work on it or died at that: a create that fails over its block takes    *)
(* the name back (block.rs:73 and 81).                                     *)
HalfMadeHasMaker ==
  \A h \in Half : shm[h] # None /\ content[h][shm[h]] # "ready" =>
    \E p \in Proc : /\ mine[p].shm[h] = shm[h]
                    /\ pc[p] \in {"truncate", "map", "header", "slots", "dead"}

(* Between calls the four names lead to one whole table, its semaphores    *)
(* raised, or to nothing, if no system call failed, nobody died and        *)
(* destroys kept to themselves: a create that is refused disturbs nothing, *)
(* a destroy forgets nothing (table.rs, create_with_size and destroy).     *)
WholeOrNothing ==
  tidy /\ faults = 0 /\ (\A p \in Proc : pc[p] = "idle") =>
    \E n \in {None} \cup Creation : \A h \in Half :
      shm[h] = n /\ sem[h] = n /\ (n # None => raised[h][n])
=============================================================================
