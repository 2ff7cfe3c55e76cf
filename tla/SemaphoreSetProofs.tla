------------------------ MODULE SemaphoreSetProofs ------------------------
(***************************************************************************)
(* Proofs about module SemaphoreSet, for any number of processes, any size *)
(* of the table and any stripe size.                                       *)
(***************************************************************************)
EXTENDS SemaphoreSet, TLAPS

(* What the kernel remembers of a process is what it holds; once the set   *)
(* is removed it may remember more.                                        *)
UndoCoversHeld == \A p \in Proc, s \in Sems : Holds(p, s) => undo[p][s] = 1

HeldCoversUndo ==
  ~removed => \A p \in Proc, s \in Sems : undo[p][s] = 1 => Holds(p, s)

(* A remembered lock took the semaphore's one unit, and there is but one.  *)
UndoIsTheUnit ==
  \A p \in Proc, s \in Sems : undo[p][s] = 1 => sem[s] = 0 /\ s < made

UndoOnce ==
  \A p, q \in Proc, s \in Sems : undo[p][s] = 1 /\ undo[q][s] = 1 => p = q

(* Semaphores create has not reached are down.                             *)
RestDown == \A s \in Sems : s >= made => sem[s] = 0

HeldInRange == \A p \in Proc : pc[p] = "held" => want[p] \in Sems

IInv == /\ TypeOK
        /\ UndoCoversHeld
        /\ HeldCoversUndo
        /\ UndoIsTheUnit
        /\ UndoOnce
        /\ RestDown
        /\ HeldInRange
        /\ NoneLost

-----------------------------------------------------------------------------
(* The layout.                                                             *)

(* At least one record shares a semaphore.                                 *)
LEMMA StripeType == Stripe \in Nat \ {0}
BY SemaphoreSetAssumption DEF Stripe

(* div_ceil of naturals is a natural.                                      *)
LEMMA StripesType == Stripes \in Nat \ {0}
<1>1. NumRecords + Stripe - 1 \in Nat
  BY StripeType, SemaphoreSetAssumption
<1>2. \A a \in Nat, b \in Nat \ {0} : a \div b \in Nat
  OBVIOUS
<1>3. CeilDiv(NumRecords, Stripe) \in Nat
  BY <1>1, <1>2, StripeType DEF CeilDiv
<1>4. QED
  BY <1>3 DEF Stripes

(* The numbers passed to semop are natural numbers.                        *)
LEMMA NumbersAreNatural ==
  TableSem \in Nat /\ \A i \in Positions : RecordSem(i) \in Nat
<1>1. \A a \in Nat, b \in Nat \ {0} : a \div b \in Nat /\ a % b \in Nat
  OBVIOUS
<1>2. \A i \in Positions : i \in Nat
  BY SemaphoreSetAssumption
<1>3. QED
  BY <1>1, <1>2, StripeType, SemaphoreSetAssumption DEF TableSem, RecordSem

(* Below STRIPE_SIZE records every record has a semaphore of its own and   *)
(* the table one more, all of them in the set (semaphore.rs, create,       *)
(* lock_table and lock_record; the comment at 179 counts from 1).          *)
THEOREM SmallTableLayout ==
  ASSUME NumRecords < StripeSize, StripeSize <= Word16
  PROVE  /\ TableSem = NumRecords
         /\ TableSem \in Sems
         /\ \A i \in 0 .. NumRecords - 1 : /\ RecordSem(i) = i
                                           /\ RecordSem(i) \in Sems
                                           /\ RecordSem(i) # TableSem
<1>1. Stripe = 1
  BY DEF Stripe
<1>2. \A a \in Nat : a \div 1 = a
  OBVIOUS
<1>3. \A a \in Nat, b \in Nat \ {0} : a < b => a % b = a
  OBVIOUS
<1>4. Stripes = NumRecords + 1
  BY <1>1, <1>2, SemaphoreSetAssumption DEF Stripes, CeilDiv
<1>5. TableSem = NumRecords
  BY <1>3, SemaphoreSetAssumption DEF TableSem
<1>6. \A i \in 0 .. NumRecords - 1 : RecordSem(i) = i
  BY <1>1, <1>2, <1>3, SemaphoreSetAssumption DEF RecordSem
<1>7. QED
  BY <1>4, <1>5, <1>6, SemaphoreSetAssumption DEF Sems

(* What lock_table comes to in a table from STRIPE_SIZE records on.  The    *)
(* number it passes is the capacity, cut to 16 bits, in a set of           *)
(* CeilDiv(NumRecords, StripeSize) + 1 semaphores.  If the cut leaves more *)
(* than that, which it does at every capacity below 2^16, no insertion can *)
(* ever lock the table.  Beyond, the number may be one of the set again;   *)
(* then it is the last one, or the lock is that of some record             *)
(* (semaphore.rs:174).                                                     *)
THEOREM TableLockOfLargeTable ==
  ASSUME NumRecords >= StripeSize, Stripes <= Word16
  PROVE  /\ NumRecords % Word16 > CeilDiv(NumRecords, StripeSize) => TableSem \notin Sems
         /\ NumRecords < Word16 /\ StripeSize > 2 => TableSem \notin Sems
         /\ NumRecords % Word16 <= CeilDiv(NumRecords, StripeSize) =>
              /\ TableSem \in Sems
              /\ \/ TableSem = Stripes - 1
                 \/ \E i \in 0 .. NumRecords - 1 : TableSem = RecordSem(i)
<1> DEFINE n == NumRecords
           d == StripeSize
           t == TableSem
           c == CeilDiv(NumRecords, StripeSize)
<1>1. n \in Nat /\ d \in Nat \ {0} /\ Stripe = d /\ n >= d
  BY SemaphoreSetAssumption DEF Stripe
<1>2. t \in Nat /\ t = n % Word16 /\ t < Word16 /\ Word16 \in Nat
  BY SemaphoreSetAssumption DEF TableSem
<1>3. c \in Nat /\ Stripes = c + 1 /\ c = (n + d - 1) \div d
  <2>1. Stripes = c + 1 /\ c = (n + d - 1) \div d
    BY <1>1 DEF Stripes, CeilDiv
  <2>2. \A a \in Nat, b \in Nat \ {0} : a \div b \in Nat
    OBVIOUS
  <2>3. n + d - 1 \in Nat
    BY <1>1
  <2>4. QED
    BY <1>1, <2>1, <2>2, <2>3
<1>4. t \in Sems <=> t <= c
  BY <1>2, <1>3 DEF Sems
<1>5. n < Word16 /\ d > 2 => t > c
  <2>1. \A a \in Nat, b \in Nat \ {0} : a < b => a % b = a
    OBVIOUS
  <2>2. \A a \in Nat, b \in Nat : b > 2 /\ a >= b => (a + b - 1) \div b < a
    OBVIOUS
  <2>3. n < Word16 => t = n
    BY <1>1, <1>2, <2>1
  <2>4. d > 2 => c < n
    BY <1>1, <1>3, <2>2
  <2>5. QED
    BY <1>1, <1>2, <1>3, <2>3, <2>4
<1>6. ASSUME t < c PROVE \E i \in 0 .. n - 1 : t = RecordSem(i)
  <2>1. t * d \in Nat /\ t * d < n
    <3>1. (t + 1) * d <= n + d - 1
      <4>1. \A a \in Nat, b \in Nat \ {0}, e \in Nat : e <= a \div b => e * b <= a
        <5>1. \A a \in Nat, b \in Nat \ {0} : a \div b \in Nat /\ (a \div b) * b <= a
          OBVIOUS
        <5>2. \A x \in Nat, y \in Nat, b \in Nat : x <= y => x * b <= y * b
          OBVIOUS
        <5>3. SUFFICES ASSUME NEW a \in Nat, NEW b \in Nat \ {0}, NEW e \in Nat, e <= a \div b
                       PROVE  e * b <= a
          OBVIOUS
        <5>4. e * b <= (a \div b) * b /\ (a \div b) * b <= a
          BY <5>1, <5>2, <5>3
        <5>5. QED
          BY <5>1, <5>4
      <4>2. n + d - 1 \in Nat /\ t + 1 \in Nat /\ t + 1 <= (n + d - 1) \div d
        BY <1>1, <1>2, <1>3, <1>6
      <4>3. QED
        BY <1>1, <4>1, <4>2
    <3>2. (t + 1) * d = t * d + d /\ t * d \in Nat
      BY <1>1, <1>2
    <3>3. QED
      BY <1>1, <3>1, <3>2
  <2>2. (t * d) \div d = t
    BY <1>1, <1>2
  <2>3. t % Word16 = t
    BY <1>2, SemaphoreSetAssumption
  <2>4. t = RecordSem(t * d)
    BY <1>1, <2>2, <2>3 DEF RecordSem
  <2>5. QED
    BY <1>1, <2>1, <2>4
<1>7. ASSUME t <= c PROVE t = Stripes - 1 \/ \E i \in 0 .. n - 1 : t = RecordSem(i)
  BY <1>2, <1>3, <1>6, <1>7
<1>8. /\ n % Word16 > c => t \notin Sems
      /\ n < Word16 /\ d > 2 => t \notin Sems
      /\ n % Word16 <= c => t \in Sems
  BY <1>2, <1>3, <1>4, <1>5
<1>9. QED
  BY <1>2, <1>7, <1>8

(* With the constants of the code: from 1024 to 65_535 records there is no *)
(* lock on the table, from 65_536 to 65_601 it is that of the records of   *)
(* one of the first stripes or, at last, one of its own, and from 65_602   *)
(* to 131_071, where the table of 100_000 records of README.md:347 lies,   *)
(* there is none again (semaphore.rs:76 and 174).                          *)
THEOREM WhichLargeTablesLock ==
  ASSUME StripeSize = 1024, Word16 = 65536, 1024 <= NumRecords, NumRecords < 131072
  PROVE  TableSem \in Sems <=> 65536 <= NumRecords /\ NumRecords <= 65601
<1>1. NumRecords \in Nat
  BY SemaphoreSetAssumption
<1>2. Stripes = (NumRecords + 1023) \div 1024 + 1
  BY <1>1 DEF Stripes, Stripe, CeilDiv
<1>3. TableSem = IF NumRecords < 65536 THEN NumRecords ELSE NumRecords - 65536
  BY <1>1 DEF TableSem
<1>4. QED
  BY <1>1, <1>2, <1>3 DEF Sems

-----------------------------------------------------------------------------
(* The invariant.                                                          *)

(* Striped or not, every record's semaphore is in the set and differs from *)
(* the last one, which is nobody's (semaphore.rs:157).                     *)
THEOREM RecordLocksInRange ==
  ASSUME Stripes <= Word16, NEW i \in 0 .. NumRecords - 1
  PROVE  RecordSem(i) \in Sems /\ RecordSem(i) # Stripes - 1
<1> DEFINE n == NumRecords
           d == Stripe
<1>1. n \in Nat /\ i \in Nat /\ i < n /\ d \in Nat \ {0}
  BY StripeType, SemaphoreSetAssumption
<1>2. \A a \in Nat, b \in Nat \ {0} : a \div b \in Nat /\ (a < b => a % b = a)
  OBVIOUS
<1>3. i \div d < (n + d - 1) \div d
  <2>1. (i + d) \div d = i \div d + 1
    BY <1>1
  <2>2. \A a \in Nat, c \in Nat : a <= c => a \div d <= c \div d
    BY <1>1
  <2>3. QED
    BY <1>1, <1>2, <2>1, <2>2
<1>4. Stripes = (n + d - 1) \div d + 1 /\ i \div d < Stripes - 1
  BY <1>1, <1>2, <1>3 DEF Stripes, CeilDiv
<1>5. (i \div d) % Word16 = i \div d
  BY <1>1, <1>2, <1>4, StripesType, SemaphoreSetAssumption
<1>6. QED
  BY <1>1, <1>2, <1>4, <1>5, StripesType DEF RecordSem, Sems

(* Initial states satisfy the invariant.                                   *)
LEMMA InitIInv == Init => IInv
<1> SUFFICES ASSUME Init PROVE IInv
  OBVIOUS
<1>1. /\ \A s \in Sems : sem[s] = 0 /\ s \in Nat
      /\ \A p \in Proc, s \in Sems : undo[p][s] = 0
      /\ \A p \in Proc : pc[p] # "held"
      /\ made = 0
  BY DEF Init, Sems
<1>2. TypeOK
  <2>1. [s \in Sems |-> 0] \in [Sems -> {0, 1}]
    OBVIOUS
  <2>2. undo \in [Proc -> [Sems -> {0, 1}]]
    BY <2>1 DEF Init
  <2>3. sem \in [Sems -> {0, 1}] /\ made \in 0 .. Stripes /\ removed \in BOOLEAN
    <3>1. sem \in [Sems -> {0, 1}]
      BY DEF Init
    <3>2. made \in 0 .. Stripes
      BY StripesType DEF Init
    <3>3. removed \in BOOLEAN
      BY Zenon DEF Init
    <3>4. QED
      BY <3>1, <3>2, <3>3, Zenon
  <2>4. /\ pc \in [Proc -> {"creating", "idle", "waiting", "held", "dead"}]
        /\ want \in [Proc -> Nat]
        /\ result \in [Proc -> {"none", "ok", "EINTR", "EIDRM", "EFBIG"}]
    BY DEF Init
  <2>5. QED
    BY <2>2, <2>3, <2>4 DEF TypeOK
<1>3. QED
  BY <1>1, <1>2
  DEF IInv, UndoCoversHeld, HeldCoversUndo, UndoIsTheUnit, UndoOnce,
      RestDown, HeldInRange, NoneLost, Holds

(* A step that leaves the semaphores and the undo values alone, and nobody *)
(* newly holding or ceasing to hold, preserves the invariant.              *)
LEMMA QuietStep ==
  ASSUME IInv, TypeOK', UNCHANGED <<sem, made, undo>>, removed => removed',
         \A p \in Proc : pc'[p] = "held" <=> pc[p] = "held",
         \A p \in Proc : pc[p] = "held" => want'[p] = want[p]
  PROVE  IInv'
<1>1. \A p \in Proc, s \in Sems : Holds(p, s)' <=> Holds(p, s)
  BY DEF Holds
<1>2. UndoCoversHeld' /\ HeldCoversUndo'
  BY <1>1 DEF IInv, UndoCoversHeld, HeldCoversUndo
<1>3. UndoIsTheUnit' /\ UndoOnce' /\ RestDown'
  BY DEF IInv, UndoIsTheUnit, UndoOnce, RestDown
<1>4. HeldInRange'
  BY DEF IInv, HeldInRange
<1>5. NoneLost'
  BY <1>1 DEF IInv, NoneLost
<1>6. QED
  BY <1>2, <1>3, <1>4, <1>5 DEF IInv

(* create raises a semaphore nobody can have taken yet.                    *)
LEMMA ResetIInv == IInv /\ Reset => IInv'
<1> SUFFICES ASSUME IInv, Reset PROVE IInv'
  OBVIOUS
<1>1. /\ made \in Sems /\ made \in Nat
      /\ sem \in [Sems -> {0, 1}]
      /\ sem[made] = 0
      /\ sem' = [sem EXCEPT ![made] = 1]
      /\ made' = made + 1 /\ made' \in 0 .. Stripes
  <2>1. made \in Nat /\ made < Stripes /\ sem \in [Sems -> {0, 1}]
    BY StripesType DEF IInv, TypeOK, Reset
  <2>2. made \in Sems
    BY <2>1, StripesType DEF Sems
  <2>3. sem[made] = 0
    BY <2>1, <2>2 DEF IInv, RestDown
  <2>4. sem' = [sem EXCEPT ![made] = sem[made] + 1] /\ made' = made + 1
    BY DEF Reset, Give
  <2>5. sem[made] + 1 = 1
    BY <2>3
  <2>6. made' \in 0 .. Stripes
    BY <2>1, <2>4, StripesType
  <2>7. QED
    BY <2>1, <2>2, <2>3, <2>4, <2>5, <2>6
<1>2. UNCHANGED <<removed, undo, pc, want, result>>
  BY DEF Reset
<1>3. \A s \in Sems : s \in Int
  BY DEF Sems
<1>4. \A p \in Proc, s \in Sems : Holds(p, s)' <=> Holds(p, s)
  BY <1>2 DEF Holds
<1>5. TypeOK'
  BY <1>1, <1>2 DEF IInv, TypeOK
<1>6. UndoCoversHeld' /\ HeldCoversUndo' /\ UndoOnce' /\ HeldInRange'
  BY <1>2, <1>4
  DEF IInv, UndoCoversHeld, HeldCoversUndo, UndoOnce, HeldInRange
<1>7. UndoIsTheUnit'
  BY <1>1, <1>2, <1>3 DEF IInv, UndoIsTheUnit
<1>8. RestDown'
  BY <1>1, <1>3 DEF IInv, RestDown
<1>9. NoneLost'
  <2> SUFFICES ASSUME NEW s \in Sems, ~removed', s < made', sem'[s] = 0
               PROVE  \E p \in Proc : Holds(p, s)'
    BY DEF NoneLost
  <2>1. s # made /\ s < made /\ sem[s] = 0
    BY <1>1, <1>3
  <2>2. QED
    BY <1>2, <1>4, <2>1 DEF IInv, NoneLost
<1>10. QED
  BY <1>5, <1>6, <1>7, <1>8, <1>9 DEF IInv

(* A semaphore that is up is held by nobody, and taking it leaves 0.       *)
LEMMA AcquireIInv == ASSUME IInv, NEW p \in Proc, Acquire(p) PROVE IInv'
<1>0. PICK s \in Sems : s = want[p]
  BY DEF Acquire
<1>1. /\ s \in Sems /\ sem[s] = 1 /\ ~removed
      /\ pc[p] = "waiting" /\ pc' = [pc EXCEPT ![p] = "held"]
      /\ sem' = [sem EXCEPT ![s] = 0]
      /\ UNCHANGED <<made, removed, want>>
      /\ result' = [result EXCEPT ![p] = "ok"]
  <2>1. /\ s \in Sems /\ sem[s] > 0 /\ ~removed
        /\ pc[p] = "waiting" /\ pc' = [pc EXCEPT ![p] = "held"]
        /\ sem' = [sem EXCEPT ![s] = sem[s] - 1]
        /\ UNCHANGED <<made, removed, want>>
        /\ result' = [result EXCEPT ![p] = "ok"]
    BY <1>0 DEF Acquire, Goto
  <2>2. sem[s] = 1 /\ sem[s] - 1 = 0
    BY <2>1 DEF IInv, TypeOK
  <2>3. QED
    BY <2>1, <2>2
<1>2. \A q \in Proc : undo[q][s] = 0
  BY <1>1 DEF IInv, TypeOK, UndoIsTheUnit
<1>3. undo' = [undo EXCEPT ![p][s] = 1]
  <2>1. undo' = [undo EXCEPT ![p][s] = undo[p][s] + 1]
    BY <1>0, Zenon DEF Acquire
  <2>2. undo[p][s] + 1 = 1
    BY <1>2
  <2>3. QED
    BY <2>1, <2>2, Zenon
<1>4. /\ sem \in [Sems -> {0, 1}] /\ undo \in [Proc -> [Sems -> {0, 1}]]
      /\ pc \in [Proc -> {"creating", "idle", "waiting", "held", "dead"}]
  BY DEF IInv, TypeOK
<1>5. /\ undo'[p][s] = 1
      /\ \A q \in Proc, t \in Sems : q # p \/ t # s => undo'[q][t] = undo[q][t]
  BY <1>1, <1>3, <1>4
<1>6. /\ sem'[s] = 0
      /\ \A t \in Sems : t # s => sem'[t] = sem[t]
  BY <1>1, <1>4
<1>7. /\ Holds(p, s)'
      /\ \A q \in Proc, t \in Sems :
           q # p \/ t # s => (Holds(q, t)' <=> Holds(q, t))
  BY <1>0, <1>1, <1>4 DEF Holds
<1>8. s < made
  BY <1>1 DEF IInv, RestDown, TypeOK, Sems
<1>9. TypeOK'
  <2>1. undo' \in [Proc -> [Sems -> {0, 1}]]
    BY <1>1, <1>3, <1>4
  <2>2. QED
    BY <1>1, <1>4, <2>1 DEF IInv, TypeOK
<1>10. UndoCoversHeld'
  BY <1>5, <1>7 DEF IInv, UndoCoversHeld
<1>11. HeldCoversUndo'
  <2> SUFFICES ASSUME NEW q \in Proc, NEW t \in Sems, undo'[q][t] = 1
               PROVE  Holds(q, t)'
    BY DEF HeldCoversUndo
  <2>1. CASE q = p /\ t = s
    BY <1>7, <2>1
  <2>2. CASE q # p \/ t # s
    <3>1. Holds(q, t)
      BY <1>1, <1>5, <2>2 DEF IInv, HeldCoversUndo
    <3>2. QED
      BY <1>7, <2>2, <3>1
  <2>3. QED
    BY <2>1, <2>2
<1>12. UndoIsTheUnit'
  BY <1>1, <1>5, <1>6, <1>8 DEF IInv, UndoIsTheUnit
<1>13. UndoOnce'
  BY <1>2, <1>5 DEF IInv, UndoOnce
<1>14. RestDown'
  BY <1>1, <1>6 DEF IInv, RestDown
<1>15. HeldInRange'
  BY <1>0, <1>1, <1>4 DEF IInv, HeldInRange
<1>16. NoneLost'
  <2> SUFFICES ASSUME NEW t \in Sems, t < made', sem'[t] = 0
               PROVE  \E q \in Proc : Holds(q, t)'
    BY DEF NoneLost
  <2>1. CASE t = s
    BY <1>7, <2>1
  <2>2. CASE t # s
    <3>1. PICK q \in Proc : Holds(q, t)
      BY <1>1, <1>6, <2>2 DEF IInv, NoneLost
    <3>2. Holds(q, t)'
      BY <1>7, <2>2, <3>1
    <3>3. QED
      BY <3>2
  <2>3. QED
    BY <2>1, <2>2
<1>17. QED
  BY <1>9, <1>10, <1>11, <1>12, <1>13, <1>14, <1>15, <1>16 DEF IInv

(* Giving back what one holds raises the semaphore from 0 to 1.            *)
LEMMA ReleaseIInv == ASSUME IInv, NEW p \in Proc, Release(p), ~removed PROVE IInv'
<1>0. PICK s \in Sems : s = want[p]
  BY DEF IInv, HeldInRange, Release, Goto
<1>1. /\ pc[p] = "held" /\ s \in Sems /\ Holds(p, s)
      /\ pc' = [pc EXCEPT ![p] = "idle"]
      /\ UNCHANGED <<made, removed, want, result>>
  BY <1>0 DEF Release, Goto, Holds
<1>2. undo[p][s] = 1 /\ sem[s] = 0 /\ s < made
  BY <1>1 DEF IInv, UndoCoversHeld, UndoIsTheUnit
<1>3. /\ sem \in [Sems -> {0, 1}] /\ undo \in [Proc -> [Sems -> {0, 1}]]
      /\ pc \in [Proc -> {"creating", "idle", "waiting", "held", "dead"}]
  BY DEF IInv, TypeOK
<1>4. sem' = [sem EXCEPT ![s] = 1] /\ undo' = [undo EXCEPT ![p][s] = 0]
  BY <1>0, <1>1, <1>2, <1>3 DEF Release, Give
<1>5. /\ undo'[p][s] = 0
      /\ \A q \in Proc, t \in Sems : q # p \/ t # s => undo'[q][t] = undo[q][t]
  BY <1>1, <1>3, <1>4
<1>6. /\ sem'[s] = 1
      /\ \A t \in Sems : t # s => sem'[t] = sem[t]
  BY <1>1, <1>3, <1>4
<1>7. /\ ~Holds(p, s)' /\ s \in Int
      /\ \A q \in Proc, t \in Sems :
           q # p \/ t # s => (Holds(q, t)' <=> Holds(q, t))
  BY <1>0, <1>1, <1>3 DEF Holds, Sems
<1>8. \A q \in Proc : undo[q][s] = 1 => q = p
  BY <1>1, <1>2 DEF IInv, UndoOnce
<1>9. \A q \in Proc : pc'[q] = "held" => pc[q] = "held"
  BY <1>1, <1>3
<1>10. TypeOK'
  <2>1. undo' \in [Proc -> [Sems -> {0, 1}]]
    BY <1>1, <1>3, <1>4
  <2>2. QED
    BY <1>1, <1>3, <1>4, <2>1 DEF IInv, TypeOK
<1>11. UndoCoversHeld' /\ HeldCoversUndo'
  <2>1. ASSUME NEW q \in Proc, NEW t \in Sems
        PROVE  (Holds(q, t)' => undo'[q][t] = 1) /\ (undo'[q][t] = 1 => Holds(q, t)')
    <3>1. CASE q = p /\ t = s
      BY <1>5, <1>7, <3>1
    <3>2. CASE q # p \/ t # s
      <4>1. (Holds(q, t) => undo[q][t] = 1) /\ (undo[q][t] = 1 => Holds(q, t))
        BY DEF IInv, UndoCoversHeld, HeldCoversUndo
      <4>2. QED
        BY <1>5, <1>7, <3>2, <4>1
    <3>3. QED
      BY <3>1, <3>2
  <2>2. QED
    BY <2>1 DEF UndoCoversHeld, HeldCoversUndo
<1>12. UndoIsTheUnit'
  BY <1>1, <1>5, <1>6, <1>8 DEF IInv, UndoIsTheUnit
<1>13. UndoOnce'
  BY <1>5 DEF IInv, UndoOnce
<1>14. RestDown'
  BY <1>1, <1>2, <1>6, <1>7 DEF IInv, RestDown, TypeOK
<1>15. HeldInRange'
  BY <1>1, <1>9 DEF IInv, HeldInRange
<1>16. NoneLost'
  BY <1>1, <1>6, <1>7 DEF IInv, NoneLost
<1>17. QED
  BY <1>10, <1>11, <1>12, <1>13, <1>14, <1>15, <1>16 DEF IInv

(* When the set is gone the guard changes nothing but its process.         *)
LEMMA ReleaseGoneIInv ==
  ASSUME IInv, NEW p \in Proc, Release(p), removed
  PROVE  IInv'
<1>1. /\ UNCHANGED <<sem, made, removed, undo, want, result>>
      /\ pc' = [pc EXCEPT ![p] = "idle"]
  BY DEF Release, Goto
<1>2. pc \in [Proc -> {"creating", "idle", "waiting", "held", "dead"}]
  BY DEF IInv, TypeOK
<1>3. \A q \in Proc : pc'[q] = "held" => pc[q] = "held"
  BY <1>1, <1>2
<1>4. TypeOK'
  BY <1>1, <1>2 DEF IInv, TypeOK
<1>5. \A q \in Proc, t \in Sems : Holds(q, t)' => Holds(q, t)
  BY <1>1, <1>3 DEF Holds
<1>6. UndoCoversHeld'
  BY <1>1, <1>5 DEF IInv, UndoCoversHeld
<1>7. HeldCoversUndo' /\ NoneLost'
  BY <1>1 DEF HeldCoversUndo, NoneLost
<1>8. UndoIsTheUnit' /\ UndoOnce' /\ RestDown'
  BY <1>1 DEF IInv, UndoIsTheUnit, UndoOnce, RestDown
<1>9. HeldInRange'
  BY <1>1, <1>3 DEF IInv, HeldInRange
<1>10. QED
  BY <1>4, <1>6, <1>7, <1>8, <1>9 DEF IInv

(* The kernel gives back what a dead process held, and only that.          *)
LEMMA DieIInv == ASSUME IInv, NEW p \in Proc, Die(p) PROVE IInv'
<1>1. /\ pc' = [pc EXCEPT ![p] = "dead"]
      /\ sem' = [s \in Sems |-> sem[s] + undo[p][s]]
      /\ undo' = [undo EXCEPT ![p] = [s \in Sems |-> 0]]
      /\ UNCHANGED <<made, removed, want, result>>
  BY DEF Die
<1>2. /\ sem \in [Sems -> {0, 1}] /\ undo \in [Proc -> [Sems -> {0, 1}]]
      /\ pc \in [Proc -> {"creating", "idle", "waiting", "held", "dead"}]
  BY DEF IInv, TypeOK
<1>3. \A s \in Sems : sem'[s] = IF undo[p][s] = 1 THEN 1 ELSE sem[s]
  BY <1>1, <1>2 DEF IInv, UndoIsTheUnit
<1>4. /\ \A s \in Sems : undo'[p][s] = 0
      /\ \A q \in Proc, s \in Sems : q # p => undo'[q][s] = undo[q][s]
  BY <1>1, <1>2
<1>5. /\ pc'[p] = "dead"
      /\ \A q \in Proc : q # p => pc'[q] = pc[q]
  BY <1>1, <1>2
<1>6. /\ \A s \in Sems : ~Holds(p, s)'
      /\ \A q \in Proc, s \in Sems : q # p => (Holds(q, s)' <=> Holds(q, s))
  BY <1>1, <1>5 DEF Holds
<1>7. TypeOK'
  <2>1. \A s \in Sems : sem'[s] \in {0, 1}
    BY <1>2, <1>3
  <2>2. sem' \in [Sems -> {0, 1}]
    BY <1>1, <2>1
  <2>3. [s \in Sems |-> 0] \in [Sems -> {0, 1}]
    OBVIOUS
  <2>4. undo' \in [Proc -> [Sems -> {0, 1}]]
    BY <1>1, <1>2, <2>3
  <2>5. pc' \in [Proc -> {"creating", "idle", "waiting", "held", "dead"}]
    BY <1>1, <1>2
  <2>6. QED
    BY <1>1, <2>2, <2>4, <2>5 DEF IInv, TypeOK
<1>8. UndoCoversHeld'
  <2> SUFFICES ASSUME NEW q \in Proc, NEW s \in Sems, Holds(q, s)'
               PROVE  undo'[q][s] = 1
    BY DEF UndoCoversHeld
  <2>1. q # p /\ Holds(q, s)
    BY <1>6
  <2>2. QED
    BY <1>4, <2>1 DEF IInv, UndoCoversHeld
<1>9. HeldCoversUndo'
  <2> SUFFICES ASSUME ~removed', NEW q \in Proc, NEW s \in Sems, undo'[q][s] = 1
               PROVE  Holds(q, s)'
    BY DEF HeldCoversUndo
  <2>1. q # p /\ undo[q][s] = 1
    BY <1>4
  <2>2. Holds(q, s)
    BY <1>1, <2>1 DEF IInv, HeldCoversUndo
  <2>3. QED
    BY <1>6, <2>1, <2>2
<1>10. UndoIsTheUnit'
  <2> SUFFICES ASSUME NEW q \in Proc, NEW s \in Sems, undo'[q][s] = 1
               PROVE  sem'[s] = 0 /\ s < made'
    BY DEF UndoIsTheUnit
  <2>1. q # p /\ undo[q][s] = 1
    BY <1>4
  <2>2. undo[p][s] # 1
    BY <2>1 DEF IInv, UndoOnce
  <2>3. QED
    BY <1>1, <1>3, <2>1, <2>2 DEF IInv, UndoIsTheUnit
<1>11. UndoOnce'
  <2> SUFFICES ASSUME NEW q \in Proc, NEW r \in Proc, NEW s \in Sems,
                      undo'[q][s] = 1, undo'[r][s] = 1
               PROVE  q = r
    BY DEF UndoOnce
  <2>1. undo[q][s] = 1 /\ undo[r][s] = 1
    BY <1>4
  <2>2. QED
    BY <2>1 DEF IInv, UndoOnce
<1>12. RestDown'
  <2> SUFFICES ASSUME NEW s \in Sems, s >= made' PROVE sem'[s] = 0
    BY DEF RestDown
  <2>1. sem[s] = 0
    BY <1>1 DEF IInv, RestDown
  <2>2. s \in Int /\ made \in Int
    BY DEF IInv, TypeOK, Sems
  <2>3. undo[p][s] # 1
    BY <1>1, <2>2 DEF IInv, UndoIsTheUnit
  <2>4. QED
    BY <1>3, <2>1, <2>3
<1>13. HeldInRange'
  <2> SUFFICES ASSUME NEW q \in Proc, pc'[q] = "held" PROVE want'[q] \in Sems
    BY DEF HeldInRange
  <2>1. q # p /\ pc[q] = "held"
    BY <1>5
  <2>2. QED
    BY <1>1, <2>1 DEF IInv, HeldInRange
<1>14. NoneLost'
  <2> SUFFICES ASSUME NEW s \in Sems, ~removed', s < made', sem'[s] = 0
               PROVE  \E q \in Proc : Holds(q, s)'
    BY DEF NoneLost
  <2>1. sem[s] = 0 /\ undo[p][s] # 1
    BY <1>2, <1>3
  <2>2. PICK q \in Proc : Holds(q, s)
    BY <1>1, <2>1 DEF IInv, NoneLost
  <2>3. q # p
    BY <2>1, <2>2 DEF IInv, UndoCoversHeld
  <2>4. QED
    BY <1>6, <2>2, <2>3
<1>15. QED
  BY <1>7, <1>8, <1>9, <1>10, <1>11, <1>12, <1>13, <1>14 DEF IInv

(* Every step preserves the invariant.                                     *)
LEMMA NextIInv == IInv /\ [Next]_vars => IInv'
<1> SUFFICES ASSUME IInv, [Next]_vars PROVE IInv'
  OBVIOUS
<1>1. /\ pc \in [Proc -> {"creating", "idle", "waiting", "held", "dead"}]
      /\ want \in [Proc -> Nat]
      /\ result \in [Proc -> {"none", "ok", "EINTR", "EIDRM", "EFBIG"}]
  BY DEF IInv, TypeOK
<1>2. CASE Reset
  BY <1>2, ResetIInv
<1>3. CASE Created \/ ResetFails
  <2>1. PICK there \in {"idle", "dead"} :
          /\ UNCHANGED <<sem, made, removed, undo, want, result>>
          /\ pc' = [pc EXCEPT ![Creator] = there] /\ pc[Creator] = "creating"
    BY <1>3 DEF Created, ResetFails, Goto
  <2>2. \A q \in Proc : pc'[q] = "held" <=> pc[q] = "held"
    BY <1>1, <2>1
  <2>3. TypeOK'
    BY <1>1, <2>1 DEF IInv, TypeOK
  <2>4. QED
    BY <2>1, <2>2, <2>3, QuietStep
<1>4. ASSUME NEW p \in Proc, LockRecord(p) \/ LockTable(p) PROVE IInv'
  <2>1. PICK s \in Nat : Attempt(p, s)
    BY <1>4, NumbersAreNatural DEF LockRecord, LockTable
  <2>2. /\ UNCHANGED <<sem, made, removed, undo>> /\ pc[p] = "idle"
        /\ pc' = [pc EXCEPT ![p] = "waiting"]
        /\ want' = [want EXCEPT ![p] = s]
        /\ result' = [result EXCEPT ![p] = "none"]
    BY <2>1 DEF Attempt, Goto
  <2>3. \A q \in Proc : pc'[q] = "held" <=> pc[q] = "held"
    BY <1>1, <2>2
  <2>4. \A q \in Proc : pc[q] = "held" => want'[q] = want[q]
    BY <1>1, <2>2
  <2>5. TypeOK'
    BY <1>1, <2>2 DEF IInv, TypeOK
  <2>6. QED
    BY <2>2, <2>3, <2>4, <2>5, QuietStep
<1>5. ASSUME NEW p \in Proc, Acquire(p) PROVE IInv'
  BY <1>5, AcquireIInv
<1>6. ASSUME NEW p \in Proc, NEW errno \in {"EINTR", "EIDRM", "EFBIG"}, Fails(p, errno)
      PROVE  IInv'
  <2>1. /\ UNCHANGED <<sem, made, removed, undo, want>> /\ pc[p] = "waiting"
        /\ pc' = [pc EXCEPT ![p] = "idle"]
        /\ result' = [result EXCEPT ![p] = errno]
    BY <1>6 DEF Fails, Goto
  <2>2. \A q \in Proc : pc'[q] = "held" <=> pc[q] = "held"
    BY <1>1, <2>1
  <2>3. TypeOK'
    BY <1>1, <2>1 DEF IInv, TypeOK
  <2>4. QED
    BY <2>1, <2>2, <2>3, QuietStep
<1>7. ASSUME NEW p \in Proc, Release(p) PROVE IInv'
  BY <1>7, ReleaseIInv, ReleaseGoneIInv
<1>8. ASSUME NEW p \in Proc, Destroy(p) PROVE IInv'
  <2>1. UNCHANGED <<sem, made, undo, pc, want, result>> /\ removed'
    BY <1>8, Zenon DEF Destroy
  <2>2. removed' \in BOOLEAN
    BY <1>8, Zenon DEF Destroy
  <2>3. TypeOK'
    BY <2>1, <2>2 DEF IInv, TypeOK
  <2>4. QED
    BY <2>1, <2>3, QuietStep
<1>9. ASSUME NEW p \in Proc, Die(p) PROVE IInv'
  BY <1>9, DieIInv
<1>10. CASE UNCHANGED vars
  <2>1. UNCHANGED <<sem, made, removed, undo, pc, want, result>>
    BY <1>10 DEF vars
  <2>2. TypeOK'
    BY <2>1 DEF IInv, TypeOK
  <2>3. QED
    BY <2>1, <2>2, QuietStep
<1>11. QED
  BY <1>2, <1>3, <1>4, <1>5, <1>6, <1>7, <1>8, <1>9, <1>10
  DEF Next, Interrupted, SetGone, OutOfRange

(* What a process holds is its own: its undo value is the witness.         *)
LEMMA InvariantExcludes == IInv => MutualExclusion
BY DEF IInv, UndoCoversHeld, UndoOnce, MutualExclusion

(* The inductive invariant holds in every reachable state (semaphore.rs,   *)
(* every call and every death).                                            *)
THEOREM Invariant == Spec => []IInv
  BY InitIInv, NextIInv, PTL DEF Spec

(* Semaphores stay binary and undo values with them (semaphore.rs).        *)
THEOREM TypeCorrect == Spec => []TypeOK
  BY Invariant, PTL DEF IInv

(* No two processes ever hold the same semaphore (semaphore.rs, Locker).   *)
THEOREM LocksExclude == Spec => []MutualExclusion
  BY Invariant, InvariantExcludes, PTL

(* A death, a signal or a failed call never loses a semaphore (SEM_UNDO).  *)
THEOREM NoSemaphoreLost == Spec => []NoneLost
  BY Invariant, PTL DEF IInv
=============================================================================
