---------------------------- MODULE StoreProofs ----------------------------
(***************************************************************************)
(* Proof that a shared table keeps the promise of module KVStore: every    *)
(* call takes effect at one instant between its start and its return.      *)
(***************************************************************************)
EXTENDS TableProofs, SequenceTheorems

-----------------------------------------------------------------------------
(* What the mapping needs beside the invariant of TableProofs.             *)

(* A call that is under way has no result, one that returned has.          *)
Waits(p) == /\ pc[p] = "idle" => out[p] # Pending
            /\ pc[p] \notin {"idle", "unlock"} => out[p] = Pending

(* A key has one record, and none while it is being inserted.              *)
Single ==
  /\ \A k \in Key : Len(entries[k]) <= 1
  /\ \A p \in Proc : IsOp(p, "insert") /\ pc[p] \notin {"idle", "lookup", "unlock"}
                       => entries[KeyOf(p)] = <<>>

(* The insertions that are counted and not yet published, and whether a    *)
(* removal is counted and still published.                                 *)
Placed == {p \in Proc : Unpublished(p)}
Leaving == \E p \in Proc : IsOp(p, "remove") /\ pc[p] = "index"

(* count is the number of records, but for those on their way.             *)
Numbered ==
  /\ IsFiniteSet(Placed)
  /\ header.count + Ticks(Leaving) = Cardinality(Published) + Cardinality(Placed)

(* The values a call has read and is about to write.                       *)
Valued(p) ==
  /\ IsOp(p, "insert") /\ pc[p] \in Writing \cup {"index"}
       => local[p].hi.val = call[p].val
  /\ IsOp(p, "update") /\ pc[p] \in Writing
       => local[p].hi.val = slot[Idx(p)].hi.val + 1
  /\ IsOp(p, "update") \/ IsOp(p, "iter")
       => /\ pc[p] = "rd_lo" => local[p].tmp = slot[Idx(p)].size
          /\ pc[p] = "rd_hi" => local[p].lo = slot[Idx(p)].lo

(* The keys an iteration has yielded are those of the records it passed.   *)
Listing(p) ==
  IsOp(p, "iter") /\ pc[p] # "idle"
    => {local[p].seen[j] : j \in DOMAIN local[p].seen}
         = {slot[i].lo.key : i \in Passed(Idx(p))}

SInv ==
  /\ \A p \in Proc : Waits(p)
  /\ Single
  /\ Numbered
  /\ dead \subseteq scenario.mortal
  /\ \A p \in Proc \ dead : Valued(p) /\ Listing(p)


-----------------------------------------------------------------------------
(* Steps and their results.                                                *)

(* p takes a step of its own.                                              *)
Acts(p) ==
  (Begin(p) \/ Step(p) \/ LockInterrupted(p)) /\ UNCHANGED <<scenario, dead>>

(* Such a step is one of the flat steps.                                   *)
LEMMA ActsMove ==
  ASSUME IInv, Workable(scenario), NEW p \in Proc \ dead, Acts(p)
  PROVE  Moves(p)
  BY CallSteps, InsertSteps, WriteSteps, ReadSteps, OtherSteps
  DEF IInv, Acts, Step, Moves, Private, Heading, Storing, Indexing

(* No result is the absence of one.                                        *)
LEMMA Results ==
  /\ Store!Ok # Pending /\ Store!Error # Pending /\ Store!TableFull # Pending
  /\ Store!RecordDuplicated # Pending /\ Store!RecordSizeTooBig # Pending
  /\ Store!NotFound # Pending
  /\ \A n : /\ Store!Found(n) # Pending /\ Store!Updated(n) # Pending
            /\ Store!Counted(n) # Pending
  /\ \A s, n : Store!Yielded(s, n) # Pending
  /\ [kind |-> "undecodable"] # Pending
  /\ \A l, h : [kind |-> "wrong", lo |-> l, hi |-> h] # Pending
  BY DEF Pending, Store!Pending, Store!Ok, Store!Error, Store!TableFull,
     Store!RecordDuplicated, Store!RecordSizeTooBig, Store!NotFound, Store!Found,
     Store!Updated, Store!Counted, Store!Yielded

(* A call that returns has a result.                                       *)
LEMMA ReturnsResult ==
  ASSUME IInv, NEW p \in Proc, Acts(p), pc'[p] = "idle"
  PROVE  out'[p] # Pending
<1>t. /\ pc = [q \in Proc |-> pc[q]] /\ out = [q \in Proc |-> out[q]]
  BY DEF IInv, Typing
<1>r. ASSUME NEW r, Return(p, r), r # Pending PROVE out'[p] # Pending
  BY <1>t, <1>r DEF Return, Finish
<1>1. CASE Begin(p)
  BY <1>t, <1>1 DEF Begin, Goto
<1>2. CASE LookupHit(p)
  BY <1>t, <1>r, <1>2, Results DEF LookupHit
<1>3. CASE LookupMiss(p)
  <2>1. CASE IsOp(p, "insert") /\ Goto(p, "lookup", "lock")
    BY <1>t, <2>1 DEF Goto
  <2>2. CASE pc' = pc /\ pc[p] = "lookup"
    BY <2>2
  <2>3. \/ Return(p, Store!NotFound) \/ Return(p, Store!Ok)
        \/ Return(p, Store!Updated(call[p].found))
        \/ IsOp(p, "insert") /\ Goto(p, "lookup", "lock")
        \/ pc' = pc /\ pc[p] = "lookup"
    BY <1>3 DEF LookupMiss
  <2>4. QED
    BY <1>r, <2>1, <2>2, <2>3, Results
<1>4. CASE LockInterrupted(p) \/ ReadCount(p) \/ IterTest(p)
  BY <1>t, <1>r, <1>4, Results DEF LockInterrupted, ReadCount, IterTest, ReturnSeen, Goto
<1>5. CASE Unlock(p)
  BY <1>t, <1>5 DEF Unlock, Goto
<1>6. CASE RdState(p) \/ RdLo(p) \/ RdHi(p)
  <2>1. CASE Undecodable(p)
    <3>1. \A r : ~(Abort(p, r))
      BY <1>t DEF Abort
    <3>2. IsOp(p, "find") \/ IsOp(p, "iter") \/ IsOp(p, "update")
      BY <1>6 DEF IInv, Control, Stands, RdState, RdLo, RdHi, Goto, Writing, Counting,
         Freeing
    <3>3. QED
      BY <1>r, <2>1, <3>1, <3>2, Results DEF Undecodable, ReturnSeen
  <2>2. CASE ~Undecodable(p)
    <3>1. \A r : ~(Abort(p, r))
      BY <1>t DEF Abort
    <3>2. \A a, b : Goto(p, a, b) => b = "idle"
      BY <1>t DEF Goto
    <3>3. QED
      BY <1>6, <1>r, <2>2, <3>1, <3>2, Results DEF RdState, RdLo, RdHi
  <2>3. QED
    BY <2>1, <2>2
<1>l. CASE Lock(p)
  <2>1. IsOp(p, "insert") \/ IsOp(p, "update") \/ IsOp(p, "remove")
    BY <1>l DEF IInv, Control, Stands, Lock, Goto, Reading
  <2>2. QED
    BY <1>t, <1>l, <2>1 DEF Lock, Goto
<1>7. CASE \/ InsFull(p) \/ Index(p) \/ InsFirst(p) \/ InsNext(p)
           \/ InsSetFirst(p) \/ LoadCount(p) \/ StoreCount(p)
           \/ WrState(p) \/ WrSize(p) \/ WrLo(p) \/ WrHi(p) \/ RdSize(p)
           \/ IterSkip(p) \/ RmFirst(p) \/ RmState(p) \/ RmSize(p) \/ RmSetFirst(p)
  BY <1>t, <1>7 DEF InsFull, Index, InsFirst, InsNext, InsSetFirst, LoadCount,
     StoreCount, WrState, WrSize, WrLo, WrHi, RdSize, IterSkip, RmFirst, RmState,
     RmSize, RmSetFirst, Goto, Abort
<1>8. QED
  BY <1>1, <1>2, <1>3, <1>4, <1>5, <1>6, <1>l, <1>7 DEF Acts, Step

(* A call waits for its result until it has one.                           *)
LEMMA WaitsStep ==
  ASSUME IInv, Workable(scenario), NEW p \in Proc \ dead, Acts(p), Waits(p)
  PROVE  Waits(p)'
<1>1. Moves(p)
  BY ActsMove
<1>2. pc'[p] \notin {"idle", "unlock"} => out'[p] = Pending
  BY <1>1 DEF Moves, Private, Heading, Storing, Indexing, From, Began, Returned,
     Hit, Missed, Skipped, Locked, Unlocked, Aborted, Entered, TookHead, SawLink,
     Strayed, SawCount, SawState, SawSize, SawLo, Passes, Applied, Tested, Stepped,
     Stopped, Overran, SawFirst, Popped, CountedUp, CountedDown, Pushed, WroteState,
     WroteSize, WroteLo, Filled, Rewrote, WroteFree, WroteLink, Indexed, Unindexed,
     Waits, Same, Looks
<1>3. pc'[p] = "idle" => out'[p] # Pending
  BY ReturnsResult
<1>4. Pending' = Pending
  BY DEF Pending, Store!Pending
<1>5. QED
  BY <1>2, <1>3, <1>4 DEF Waits

-----------------------------------------------------------------------------
(* Who works on which key.                                                 *)

(* The key at hand is one the scenario has p ask for.                      *)
LEMMA KeyAsked ==
  ASSUME IInv, NEW p \in Proc, pc[p] \notin {"idle", "unlock"},
         IsOp(p, "insert") \/ IsOp(p, "find") \/ IsOp(p, "update") \/ IsOp(p, "remove")
  PROVE  /\ KeyOf(p) \in Key /\ Tail(call[p].keys) \in Seq(Key)
         /\ \E c \in scenario.calls[p] :
              /\ IsRequest(c) /\ c.op = call[p].op
              /\ \E j \in DOMAIN c.keys : c.keys[j] = KeyOf(p)
              /\ c.op # "update" => KeyOf(p) = Head(c.keys)
<1>1. call[p].keys # <<>>
  BY DEF IInv, Control, Keyed
<1>2. /\ KeyOf(p) \in Key /\ Tail(call[p].keys) \in Seq(Key)
      /\ 1 \in DOMAIN call[p].keys /\ KeyOf(p) = call[p].keys[1]
  BY <1>1, KeyOfKey DEF IInv
<1>3. PICK c \in scenario.calls[p] :
        /\ c.op = call[p].op
        /\ \A i \in DOMAIN call[p].keys : \E j \in DOMAIN c.keys :
             c.keys[j] = call[p].keys[i]
  BY DEF IInv, Control, Asked
<1>4. IsRequest(c)
  BY <1>3, TableAssumption DEF IInv, Typing
<1>5. PICK j \in DOMAIN c.keys : c.keys[j] = KeyOf(p)
  BY <1>2, <1>3
<1>6. c.op # "update" => KeyOf(p) = Head(c.keys)
  <2>1. SUFFICES ASSUME c.op # "update" PROVE KeyOf(p) = Head(c.keys)
    OBVIOUS
  <2>2. c.keys \in Seq(Key) /\ Len(c.keys) = 1
    BY <1>3, <1>4, <2>1 DEF IsRequest, IsOp
  <2>3. j = 1
    BY <2>2
  <2>4. QED
    BY <1>5, <2>2, <2>3
<1>7. QED
  BY <1>2, <1>3, <1>4, <1>5, <1>6

(* Two processes insert keys of their own.                                 *)
LEMMA InsertersApart ==
  ASSUME IInv, Orderly(scenario), NEW p \in Proc, NEW q \in Proc \ {p},
         IsOp(p, "insert"), pc[p] \notin {"idle", "unlock"},
         IsOp(q, "insert"), pc[q] \notin {"idle", "unlock"}
  PROVE  KeyOf(p) # KeyOf(q)
<1>1. PICK c \in scenario.calls[p] : c.op = "insert" /\ KeyOf(p) = Head(c.keys)
  BY KeyAsked DEF IsOp
<1>2. PICK d \in scenario.calls[q] : d.op = "insert" /\ KeyOf(q) = Head(d.keys)
  BY KeyAsked DEF IsOp
<1>3. QED
  BY <1>1, <1>2 DEF Orderly

(* Nobody else updates what a process updates that may die.                *)
LEMMA UpdatersApart ==
  ASSUME IInv, Orderly(scenario), NEW p \in scenario.mortal, NEW q \in Proc \ {p},
         p \in Proc, IsOp(p, "update"), pc[p] \notin {"idle", "unlock"},
         IsOp(q, "update"), pc[q] \notin {"idle", "unlock"}
  PROVE  KeyOf(p) # KeyOf(q)
<1>1. PICK c \in scenario.calls[p] :
        c.op = "update" /\ \E j \in DOMAIN c.keys : c.keys[j] = KeyOf(p)
  BY KeyAsked DEF IsOp
<1>2. PICK d \in scenario.calls[q] :
        d.op = "update" /\ \E j \in DOMAIN d.keys : d.keys[j] = KeyOf(q)
  BY KeyAsked DEF IsOp
<1>3. QED
  BY <1>1, <1>2 DEF Orderly

(* A step leaves the index alone, or adds or drops one entry.              *)
LEMMA IndexWays ==
  ASSUME IInv, NEW p \in Proc \ dead, Moves(p)
  PROVE  \/ entries' = entries
         \/ /\ Indexed(p) /\ KeyOf(p) \in Key
            /\ entries' = [entries EXCEPT ![KeyOf(p)] = Append(entries[KeyOf(p)], Idx(p))]
         \/ /\ Unindexed(p) /\ KeyOf(p) \in Key /\ entries[KeyOf(p)] # <<>>
            /\ entries' = [entries EXCEPT ![KeyOf(p)] = Tail(entries[KeyOf(p)])]
<1>1. ~Indexing(p) => entries' = entries
  BY MovesOwn DEF Moves, Quiet
<1>2. ASSUME Indexed(p)
      PROVE  /\ KeyOf(p) \in Key
             /\ entries' = [entries EXCEPT ![KeyOf(p)] = Append(entries[KeyOf(p)], Idx(p))]
  BY <1>2, PublishNext DEF Indexed, PK!Added
<1>3. ASSUME Unindexed(p)
      PROVE  /\ KeyOf(p) \in Key /\ entries[KeyOf(p)] # <<>>
             /\ entries' = [entries EXCEPT ![KeyOf(p)] = Tail(entries[KeyOf(p)])]
  BY <1>3, UnpublishNext DEF Unindexed, PK!Dropped, PK!Has
<1>4. QED
  BY <1>1, <1>2, <1>3 DEF Indexing

(* A key keeps one record, and none while it is being inserted.            *)
LEMMA SingleStep ==
  ASSUME IInv, Workable(scenario), Orderly(scenario), Single,
         NEW p \in Proc \ dead, Acts(p)
  PROVE  Single'
<1>m. Moves(p) /\ Own(p)
  BY ActsMove, MovesOwn
<1>t. entries \in [Key -> Seq(Indices)] /\ Idx(p) \in 0 .. Capacity
  BY DEF IInv, Typing, Locals, Idx
<1>1. ASSUME NEW k \in Key PROVE Len(entries'[k]) <= 1
  <2>1. CASE entries' = entries
    BY <2>1 DEF Single
  <2>2. CASE /\ Indexed(p) /\ KeyOf(p) \in Key
             /\ entries' = [entries EXCEPT ![KeyOf(p)] = Append(entries[KeyOf(p)], Idx(p))]
    <3>1. entries[KeyOf(p)] = <<>>
      BY <2>2 DEF Indexed, From, Single
    <3>2. Len(Append(<<>>, Idx(p))) = 1
      OBVIOUS
    <3>3. QED
      BY <1>t, <2>2, <3>1, <3>2 DEF Single
  <2>3. CASE /\ Unindexed(p) /\ KeyOf(p) \in Key /\ entries[KeyOf(p)] # <<>>
             /\ entries' = [entries EXCEPT ![KeyOf(p)] = Tail(entries[KeyOf(p)])]
    <3>1. /\ entries[KeyOf(p)] \in Seq(Indices) /\ Len(entries[KeyOf(p)]) <= 1
          /\ entries[KeyOf(p)] # <<>>
      BY <1>t, <2>3 DEF Single
    <3>2. Len(Tail(entries[KeyOf(p)])) <= 1
      BY <3>1
    <3>3. QED
      BY <1>t, <2>3, <3>2 DEF Single
  <2>4. QED
    BY <1>m, <2>1, <2>2, <2>3, IndexWays
<1>2. ASSUME NEW q \in Proc, IsOp(q, "insert")', pc'[q] \notin {"idle", "lookup", "unlock"}
      PROVE  entries'[KeyOf(q)'] = <<>>
  <2>1. CASE q # p
    <3>1. /\ IsOp(q, "insert") /\ pc[q] \notin {"idle", "lookup", "unlock"}
          /\ KeyOf(q)' = KeyOf(q)
      BY <1>m, <1>2, <2>1, Others DEF IsOp
    <3>2. KeyOf(q) \in Key /\ entries[KeyOf(q)] = <<>>
      BY <3>1, KeyAsked DEF Single
    <3>3. ~Unindexed(p)
      <4>1. SUFFICES ASSUME Unindexed(p) PROVE FALSE
        OBVIOUS
      <4>2. pc[q] = "idle"
        BY <2>1, <4>1, Solo DEF Unindexed, From, IInv
      <4>3. QED
        BY <3>1, <4>2
    <3>4. Indexed(p) => KeyOf(p) # KeyOf(q)
      BY <2>1, <3>1, InsertersApart DEF Indexed, From
    <3>5. QED
      BY <1>m, <1>t, <3>1, <3>2, <3>3, <3>4, IndexWays
  <2>2. CASE q = p
    <3>1. CASE IsOp(p, "insert") /\ pc[p] \notin {"idle", "lookup", "unlock"}
      <4>1. call'[p] = call[p]
        <5>1. ~Returned(p)
          BY <1>2, <2>2 DEF Returned
        <5>2. QED
          BY <1>m, <3>1, <5>1, CallWays DEF Began, Skipped, Rewrote, IsOp
      <4>2. entries' = entries
        BY <1>2, <1>m, <2>2, <3>1, IndexWays DEF Indexed, Unindexed, From
      <4>3. QED
        BY <2>2, <3>1, <4>1, <4>2 DEF Single, KeyOf
    <3>2. CASE ~(IsOp(p, "insert") /\ pc[p] \notin {"idle", "lookup", "unlock"})
      <4>1. Missed(p)
        <5>1. call'[p].op = "insert"
          BY <1>2, <2>2 DEF IsOp
        <5>2. Began(p) => pc'[p] \in {"count", "it_test", "lookup"} /\
                          (call'[p].op = "insert" => pc'[p] = "lookup")
          BY DEF Began
        <5>3. call[p].op = "insert" /\ pc[p] \in {"idle", "lookup", "unlock"}
          <6>1. CASE call'[p] = call[p]
            BY <3>2, <5>1, <6>1 DEF IsOp
          <6>2. CASE call'[p] # call[p]
            BY <1>2, <1>m, <2>2, <5>1, <5>2, <6>2, CallWays DEF Returned
          <6>3. QED
            BY <6>1, <6>2
        <5>4. QED
          BY <1>2, <1>m, <2>2, <5>2, <5>3 DEF Moves, Private, Heading, Storing, Indexing,
             From, Returned, Hit, Skipped, Locked, Unlocked, Aborted, Entered, TookHead,
             SawLink, Strayed, SawCount, SawState, SawSize, SawLo, Passes, Applied,
             Tested, Stepped, Stopped, Overran, SawFirst, Popped, CountedUp,
             CountedDown, Pushed, WroteState, WroteSize, WroteLo, Filled, Rewrote,
             WroteFree, WroteLink, Indexed, Unindexed, IsOp, Counting, Reading
      <4>2. pc[p] = "lookup" /\ pc'[p] = "lock" /\ IsOp(p, "insert")
        BY <4>1 DEF Missed, From
      <4>3. LookupMiss(p)
        BY <4>2 DEF Acts, Step, LockInterrupted, LookupHit, Lock, Unlock, InsFull,
           InsFirst, InsNext, InsSetFirst, LoadCount, StoreCount, WrState, WrSize,
           WrLo, WrHi, Index, RdState, RdSize, RdLo, RdHi, ReadCount, IterTest,
           IterSkip, RmFirst, RmState, RmSize, RmSetFirst, Goto, Begin, Return,
           RefusesDuplicate, IInv, Typing
      <4>4. entries[KeyOf(p)] = <<>>
        BY <4>3 DEF LookupMiss, PK!Has
      <4>5. entries' = entries /\ KeyOf(p)' = KeyOf(p)
        BY <4>1 DEF Missed, Keeps, Quiet, Same, KeyOf
      <4>6. QED
        BY <2>2, <4>4, <4>5
    <3>3. QED
      BY <3>1, <3>2
  <2>3. QED
    BY <2>1, <2>2
<1>3. QED
  BY <1>1, <1>2 DEF Single

-----------------------------------------------------------------------------
(* What count counts.                                                      *)

(* Counting an insertion places it, publishing it ends that.               *)
LEMMA PlacedWays ==
  ASSUME IInv, NEW p \in Proc \ dead, Moves(p)
  PROVE  /\ \A q \in Proc \ {p} : Unpublished(q)' <=> Unpublished(q)
         /\ CountedUp(p) => ~Unpublished(p) /\ Unpublished(p)'
         /\ Indexed(p) => Unpublished(p) /\ ~Unpublished(p)'
         /\ ~CountedUp(p) /\ ~Indexed(p) => (Unpublished(p)' <=> Unpublished(p))
<1> USE DEF Unpublished, Inserting, IsOp
<1>1. \A q \in Proc \ {p} : Unpublished(q)' <=> Unpublished(q)
  BY MovesOwn DEF Own
<1>2. CountedUp(p) => ~Unpublished(p) /\ Unpublished(p)'
  BY DEF CountedUp, From, Looks
<1>3. Indexed(p) => Unpublished(p) /\ ~Unpublished(p)'
  BY DEF Indexed, From
<1>4. ASSUME ~CountedUp(p), ~Indexed(p) PROVE Unpublished(p)' <=> Unpublished(p)
  <2>s. Stands(p)
    BY DEF IInv, Control
  <2>1. CASE ~Unpublished(p)
    <3>1. pc'[p] \in {"wr_state", "wr_size", "wr_lo", "wr_hi", "index"}
            => call'[p] = call[p]
      BY CallWays DEF Began, Returned
    <3>2. QED
      BY <1>4, <2>1, <3>1 DEF Moves, Private, Heading, Storing, Indexing, From, Began,
         Returned, Hit, Missed, Skipped, Locked, Unlocked, Aborted, Entered, TookHead,
         SawLink, Strayed, SawCount, SawState, SawSize, SawLo, Passes, Applied, Tested,
         Stepped, Stopped, Overran, SawFirst, Popped, CountedDown, Pushed, WroteState,
         WroteSize, WroteLo, Filled, Rewrote, WroteFree, WroteLink, Unindexed
  <2>2. CASE Unpublished(p)
    <3>1. ~Aborted(p)
      <4>1. Taken(p)
        BY <2>2 DEF Taken, Writing
      <4>2. PK!Total(entries) < Capacity
        BY <4>1, IndexRoom
      <4>3. QED
        BY <2>2, <4>2 DEF Aborted, Reading
    <3>2. WroteState(p) \/ WroteSize(p) \/ WroteLo(p) \/ Filled(p)
      BY <1>4, <2>2, <3>1 DEF Moves, Private, Heading, Storing, Indexing, From, Began,
         Returned, Hit, Missed, Skipped, Locked, Unlocked, Entered, TookHead,
         SawLink, Strayed, SawCount, SawState, SawSize, SawLo, Passes, Applied, Tested,
         Stepped, Stopped, Overran, SawFirst, Popped, CountedDown, Pushed,
         Rewrote, WroteFree, WroteLink, Unindexed, Reading
    <3>3. QED
      BY <2>2, <3>2 DEF WroteState, WroteSize, WroteLo, Filled, From, Same
  <2>3. QED
    BY <2>1, <2>2
<1>5. QED
  BY <1>1, <1>2, <1>3, <1>4

(* Counting a removal makes it leave, unpublishing it ends that.           *)
LEMMA LeavingWays ==
  ASSUME IInv, Workable(scenario), NEW p \in Proc \ dead, Moves(p)
  PROVE  /\ CountedDown(p) => ~Leaving /\ Leaving'
         /\ Unindexed(p) => Leaving /\ ~Leaving'
         /\ ~CountedDown(p) /\ ~Unindexed(p) => (Leaving' <=> Leaving)
<1>1. \A q \in Proc \ {p} : (IsOp(q, "remove") /\ pc[q] = "index")'
                              <=> IsOp(q, "remove") /\ pc[q] = "index"
  BY MovesOwn DEF Own, IsOp
<1>2. ASSUME CountedDown(p) \/ Unindexed(p)
      PROVE  \A q \in Proc \ {p} : pc[q] # "index"
  <2>1. IsOp(p, "remove") /\ pc[p] # "idle"
    BY <1>2 DEF CountedDown, Unindexed, From
  <2>2. QED
    BY <2>1, Solo DEF IInv
<1>3. CASE CountedDown(p)
  <2>1. pc[p] # "index" /\ (IsOp(p, "remove") /\ pc[p] = "index")' /\ ~Unindexed(p)
    BY <1>3 DEF CountedDown, Unindexed, From, Same, IsOp
  <2>2. ~Leaving
    BY <1>2, <1>3, <2>1 DEF Leaving
  <2>3. Leaving'
    BY <2>1 DEF Leaving
  <2>4. QED
    BY <1>3, <2>1, <2>2, <2>3
<1>4. CASE Unindexed(p)
  <2>1. IsOp(p, "remove") /\ pc[p] = "index" /\ pc'[p] # "index" /\ ~CountedDown(p)
    BY <1>4 DEF CountedDown, Unindexed, From, Same, IsOp
  <2>2. Leaving
    BY <2>1 DEF Leaving
  <2>3. ~Leaving'
    BY <1>1, <1>2, <1>4, <2>1 DEF Leaving
  <2>4. QED
    BY <1>4, <2>1, <2>2, <2>3
<1>5. CASE ~CountedDown(p) /\ ~Unindexed(p)
  <2>1. (IsOp(p, "remove") /\ pc[p] = "index")' <=> IsOp(p, "remove") /\ pc[p] = "index"
    <3>1. pc[p] = "index" => ~IsOp(p, "remove")
      BY <1>5 DEF Moves, Private, Heading, Storing, Indexing, From, Began,
         Returned, Hit, Missed, Skipped, Locked, Unlocked, Aborted, Entered, TookHead,
         SawLink, Strayed, SawCount, SawState, SawSize, SawLo, Passes, Applied, Tested,
         Stepped, Stopped, Overran, SawFirst, Popped, CountedUp, Pushed, WroteState,
         WroteSize, WroteLo, Filled, Rewrote, WroteFree, WroteLink, Indexed, IsOp,
         Reading
    <3>2. pc'[p] = "index" => ~IsOp(p, "remove")'
      BY <1>5 DEF Moves, Private, Heading, Storing, Indexing, From, Began,
         Returned, Hit, Missed, Skipped, Locked, Unlocked, Aborted, Entered, TookHead,
         SawLink, Strayed, SawCount, SawState, SawSize, SawLo, Passes, Applied, Tested,
         Stepped, Stopped, Overran, SawFirst, Popped, CountedUp, Pushed, WroteState,
         WroteSize, WroteLo, Filled, Rewrote, WroteFree, WroteLink, Indexed, IsOp,
         Reading, Same
    <3>3. QED
      BY <3>1, <3>2
  <2>2. QED
    BY <1>1, <1>5, <2>1 DEF Leaving
<1>6. QED
  BY <1>3, <1>4, <1>5

(* Nothing else changes the number of records.                             *)
LEMMA NumberedStep ==
  ASSUME IInv, Workable(scenario), Numbered, NEW p \in Proc \ dead, Moves(p)
  PROVE  Numbered'
<1>o. Own(p)
  BY MovesOwn
<1>f. IsFiniteSet(Published) /\ IsFiniteSet(Placed)
  BY PublishedSlots, Numbers, FS_Subset DEF IInv, Numbered
<1>n. /\ Cardinality(Published) \in Nat /\ Cardinality(Placed) \in Nat
      /\ header.count \in Nat
      /\ header \in [count : 0 .. Capacity, firstFree : 0 .. Capacity]
  BY <1>f, FS_CardinalityType DEF IInv, Typing
<1>e. header.count + Ticks(Leaving) = Cardinality(Published) + Cardinality(Placed)
  BY DEF Numbered
<1>1. CASE CountedUp(p)
  <2>1. header'.count = header.count + 1 /\ Published' = Published
    <3>1. local[p].tmp = header.count
      BY <1>1 DEF CountedUp, From, IInv, Knowledge, Insertion
    <3>2. QED
      BY <1>1, <1>n, <3>1 DEF CountedUp, Published
  <2>2. Placed' = Placed \cup {p} /\ p \notin Placed
    BY <1>1, PlacedWays DEF Placed
  <2>3. IsFiniteSet(Placed') /\ Cardinality(Placed') = Cardinality(Placed) + 1
    BY <1>f, <2>2, FS_AddElement
  <2>4. Leaving' <=> Leaving
    BY <1>1, LeavingWays DEF CountedUp, CountedDown, Unindexed, From
  <2>5. QED
    BY <1>e, <1>n, <2>1, <2>3, <2>4 DEF Numbered, Ticks
<1>2. CASE Indexed(p)
  <2>1. header' = header
    BY <1>2 DEF Indexed
  <2>2. Placed' = Placed \ {p} /\ p \in Placed
    BY <1>2, PlacedWays DEF Placed
  <2>3. IsFiniteSet(Placed') /\ Cardinality(Placed') = Cardinality(Placed) - 1
    BY <1>f, <2>2, FS_RemoveElement
  <2>4. Published' = Published \cup {Idx(p)} /\ Idx(p) \notin Published
    BY <1>2, PublishNext
  <2>5. Cardinality(Published') = Cardinality(Published) + 1
    BY <1>f, <2>4, FS_AddElement
  <2>6. Leaving' <=> Leaving
    BY <1>2, LeavingWays DEF Indexed, CountedDown, Unindexed, From, IsOp
  <2>7. QED
    BY <1>e, <1>n, <2>1, <2>3, <2>5, <2>6 DEF Numbered, Ticks
<1>3. CASE CountedDown(p)
  <2>1. header'.count = header.count - 1 /\ Published' = Published
    <3>1. local[p].tmp = header.count
      BY <1>3 DEF CountedDown, From, IInv, Knowledge, Removal
    <3>2. QED
      BY <1>3, <1>n, <3>1 DEF CountedDown, Published
  <2>2. Placed' = Placed
    BY <1>3, PlacedWays DEF Placed, CountedDown, CountedUp, Indexed, From
  <2>3. ~Leaving /\ Leaving'
    BY <1>3, LeavingWays
  <2>4. QED
    BY <1>e, <1>f, <1>n, <2>1, <2>2, <2>3 DEF Numbered, Ticks
<1>4. CASE Unindexed(p)
  <2>1. header' = header
    BY <1>4 DEF Unindexed
  <2>2. Placed' = Placed
    BY <1>4, PlacedWays DEF Placed, Unindexed, CountedUp, Indexed, From, IsOp
  <2>3. Published' = Published \ {Idx(p)} /\ Idx(p) \in Published
    BY <1>4, UnpublishNext
  <2>4. Cardinality(Published') = Cardinality(Published) - 1
    BY <1>f, <2>3, FS_RemoveElement
  <2>5. Leaving /\ ~Leaving'
    BY <1>4, LeavingWays
  <2>6. QED
    BY <1>e, <1>f, <1>n, <2>1, <2>2, <2>4, <2>5 DEF Numbered, Ticks
<1>5. CASE ~CountedUp(p) /\ ~Indexed(p) /\ ~CountedDown(p) /\ ~Unindexed(p)
  <2>1. header'.count = header.count
    <3>1. CASE Popped(p) \/ Pushed(p)
      BY <1>n, <3>1 DEF Popped, Pushed
    <3>2. CASE ~Heading(p)
      BY <3>2, MovesOwn DEF Moves, Quiet
    <3>3. QED
      BY <1>5, <3>1, <3>2 DEF Heading
  <2>2. Published' = Published
    BY <1>5, IndexWays DEF Published
  <2>3. Placed' = Placed
    BY <1>5, PlacedWays DEF Placed
  <2>4. Leaving' <=> Leaving
    BY <1>5, LeavingWays
  <2>5. QED
    BY <1>e, <1>f, <2>1, <2>2, <2>3, <2>4 DEF Numbered, Ticks
<1>6. QED
  BY <1>1, <1>2, <1>3, <1>4, <1>5

-----------------------------------------------------------------------------
(* What calls under way have read.                                         *)

(* A call's own step keeps what it knows of values.                        *)
LEMMA ValuedOwn ==
  ASSUME IInv, Workable(scenario), NEW p \in Proc \ dead, Moves(p), Valued(p)
  PROVE  Valued(p)'
<1>t. /\ local[p] \in Locals /\ call[p] \in Requested /\ slot \in [Indices -> SlotType]
  BY DEF IInv, Typing
<1>s. Stands(p)
  BY DEF IInv, Control
<1> USE DEF Writing, IsOp
<1>1. CASE CountedUp(p)
  <2>1. local'[p].hi.val = call[p].val /\ call'[p] = call[p]
    BY <1>1, <1>t DEF CountedUp, Looks, Word, Locals
  <2>2. QED
    BY <1>1, <2>1 DEF CountedUp, From, Valued
<1>2. CASE Applied(p)
  <2>1. /\ local'[p].hi.val = slot[Idx(p)].hi.val + 1 /\ Idx(p)' = Idx(p)
        /\ slot' = slot /\ call'[p] = call[p]
    BY <1>2, <1>t DEF Applied, Looks, Word, Keeps, Quiet, Locals, Idx
  <2>2. QED
    BY <1>2, <2>1 DEF Applied, From, Valued
<1>3. CASE SawSize(p)
  <2>1. local'[p].tmp = slot[Idx(p)].size /\ Idx(p)' = Idx(p) /\ slot' = slot
    BY <1>3, <1>t DEF SawSize, Looks, Keeps, Quiet, Locals, Idx
  <2>2. QED
    BY <1>3, <2>1 DEF SawSize, From, Valued
<1>4. CASE SawLo(p)
  <2>1. local'[p].lo = slot[Idx(p)].lo /\ Idx(p)' = Idx(p) /\ slot' = slot
    BY <1>4, <1>t DEF SawLo, Looks, Keeps, Quiet, Locals, Idx
  <2>2. QED
    BY <1>4, <2>1 DEF SawLo, From, Valued
<1>5. CASE WroteState(p) \/ WroteSize(p) \/ WroteLo(p) \/ Filled(p)
  <2>1. /\ call'[p] = call[p] /\ local'[p] = local[p] /\ Idx(p)' = Idx(p)
        /\ pc[p] \in Writing /\ pc'[p] \in Writing \cup {"index"}
        /\ IsOp(p, "update") => pc'[p] \in Writing
    BY <1>5 DEF WroteState, WroteSize, WroteLo, Filled, Same, From, Idx
  <2>2. IsOp(p, "update") => slot'[Idx(p)].hi = slot[Idx(p)].hi
    <3>1. slot[Idx(p)] \in SlotType
      BY <1>5, <1>t DEF WroteState, WroteSize, WroteLo, Filled, Stored
    <3>2. QED
      BY <1>5, <3>1 DEF WroteState, WroteSize, WroteLo, Filled, Stored, SlotType
  <2>3. QED
    BY <2>1, <2>2 DEF Valued
<1>6. CASE ~(\/ CountedUp(p) \/ Applied(p) \/ SawSize(p) \/ SawLo(p)
             \/ WroteState(p) \/ WroteSize(p) \/ WroteLo(p) \/ Filled(p))
  <2>1. /\ pc'[p] \notin Writing \cup {"rd_lo", "rd_hi"}
        /\ pc'[p] = "index" => call'[p].op = "remove"
    BY <1>6, <1>s DEF Moves, Private, Heading, Storing, Indexing, From, Began,
       Returned, Hit, Missed, Skipped, Locked, Unlocked, Aborted, Entered, TookHead,
       SawLink, Strayed, SawCount, SawState, Passes, Tested, Stepped, Stopped, Overran,
       SawFirst, Popped, CountedDown, Pushed, Rewrote, WroteFree, WroteLink, Indexed,
       Unindexed, Same, Counting
  <2>2. QED
    BY <2>1 DEF Valued
<1>7. QED
  BY <1>1, <1>2, <1>3, <1>4, <1>5, <1>6

(* So does the step of another process.                                    *)
LEMMA ValuedOther ==
  ASSUME IInv, Workable(scenario), NEW p \in Proc \ dead, Moves(p),
         NEW q \in Proc \ dead, q # p, Valued(q)
  PROVE  Valued(q)'
<1>1. /\ pc'[q] = pc[q] /\ call'[q] = call[q] /\ local'[q] = local[q] /\ Idx(q)' = Idx(q)
  BY MovesOwn, Others
<1>2. IsOp(q, "update") /\ pc[q] \in Reading \cup Writing => slot'[Idx(q)] = slot[Idx(q)]
  BY SlotStays
<1>3. IsOp(q, "iter") /\ pc[q] \in Reading => slot' = slot
  BY BesideSolo DEF Reading
<1>4. QED
  BY <1>1, <1>2, <1>3 DEF Valued, IsOp, Reading

(* An iteration's own step keeps its list.                                 *)
LEMMA ListingOwn ==
  ASSUME IInv, Workable(scenario), NEW p \in Proc \ dead, Moves(p), Valued(p), Listing(p)
  PROVE  Listing(p)'
<1>t. /\ local[p] \in Locals /\ call[p] \in Requested /\ slot \in [Indices -> SlotType]
  BY DEF IInv, Typing
<1>s. Stands(p)
  BY DEF IInv, Control
<1> DEFINE Yields(l) == {l.seen[j] : j \in DOMAIN l.seen}
           Keys(i) == {slot[x].lo.key : x \in Passed(i)}
<1>1. CASE Began(p)
  <2>1. local'[p] = NoLocals
    BY <1>1 DEF Began, IInv, Control, Fresh
  <2>2. local'[p].seen = <<>> /\ Idx(p)' = 0
    BY <2>1 DEF NoLocals, Idx
  <2>3. Passed(Idx(p))' = {}
    BY <2>2, Numbers DEF Passed, Indices
  <2>4. QED
    BY <2>2, <2>3 DEF Listing
<1>2. CASE ~Began(p) /\ ~IsOp(p, "iter")
  <2>1. call'[p].op = call[p].op
    BY <1>2, <1>t, CallWays DEF Returned, Skipped, Rewrote, Requested
  <2>2. QED
    BY <1>2, <2>1 DEF Listing, IsOp
<1>3. CASE Passes(p)
  <2>1. /\ slot' = slot /\ local'[p].seen = Append(local[p].seen, local[p].lo.key)
        /\ Idx(p)' = Idx(p) + 1 /\ pc[p] = "rd_hi" /\ IsOp(p, "iter")
    BY <1>3, <1>t DEF Passes, Looks, Keeps, Quiet, Locals, Idx, From
  <2>2. /\ Idx(p) \in Indices /\ slot[Idx(p)].state = "Occupied"
    BY <2>1 DEF IInv, Knowledge, Iteration, Reading
  <2>3. local[p].lo = slot[Idx(p)].lo
    BY <2>1 DEF Valued
  <2>4. Passed(Idx(p) + 1) = Passed(Idx(p)) \cup {Idx(p)}
    BY <2>2, Numbers DEF Passed, Indices
  <2>5. Passed(Idx(p))' = Passed(Idx(p)) \cup {Idx(p)}
    BY <2>1, <2>4 DEF Passed
  <2>6. Yields(local[p]) = Keys(Idx(p))
    BY <2>1 DEF Listing
  <2>7. Yields(local'[p]) = Yields(local[p]) \cup {local[p].lo.key}
    <3>1. local[p].seen \in Seq(Key)
      BY <1>t DEF Locals
    <3>2. /\ DOMAIN local'[p].seen = DOMAIN local[p].seen \cup {Len(local[p].seen) + 1}
          /\ \A j \in DOMAIN local[p].seen : local'[p].seen[j] = local[p].seen[j]
          /\ local'[p].seen[Len(local[p].seen) + 1] = local[p].lo.key
      BY <2>1, <3>1
    <3>3. QED
      BY <3>2
  <2>8. {slot'[i].lo.key : i \in Passed(Idx(p))'} = Keys(Idx(p)) \cup {slot[Idx(p)].lo.key}
    BY <2>1, <2>5
  <2>9. Yields(local'[p]) = {slot'[i].lo.key : i \in Passed(Idx(p))'}
    BY <2>3, <2>6, <2>7, <2>8
  <2>10. QED
    BY <2>9 DEF Listing
<1>4. CASE Stepped(p)
  <2>1. /\ slot' = slot /\ local'[p].seen = local[p].seen /\ Idx(p)' = Idx(p) + 1
        /\ Idx(p) \in Indices /\ slot[Idx(p)].state # "Occupied"
        /\ pc[p] = "it_skip" /\ IsOp(p, "iter")
    BY <1>4, <1>t DEF Stepped, Looks, Keeps, Quiet, Locals, Idx, From
  <2>2. Passed(Idx(p) + 1) = Passed(Idx(p))
    BY <2>1, PassedNext
  <2>3. Passed(Idx(p))' = Passed(Idx(p))
    BY <2>1, <2>2 DEF Passed
  <2>4. Yields(local[p]) = Keys(Idx(p))
    BY <2>1 DEF Listing
  <2>5. QED
    BY <2>1, <2>3, <2>4 DEF Listing
<1>5. CASE Returned(p)
  BY <1>5 DEF Returned, Listing
<1>6. CASE /\ IsOp(p, "iter")
           /\ ~Began(p) /\ ~Passes(p) /\ ~Stepped(p) /\ ~Returned(p)
  <2>1. \/ SawState(p) \/ SawSize(p) \/ SawLo(p) \/ Tested(p) \/ Stopped(p) \/ Overran(p)
        \/ Unlocked(p)
    BY <1>6, <1>s DEF Moves, Private, Heading, Storing, Indexing, From, Hit, Missed,
       Skipped, Locked, Aborted, Entered, TookHead, SawLink, Strayed, SawCount, Applied,
       SawFirst, Popped, CountedUp, CountedDown, Pushed, WroteState, WroteSize, WroteLo,
       Filled, Rewrote, WroteFree, WroteLink, Indexed, Unindexed, IsOp
  <2>2. ~Unlocked(p)
    BY <1>6, <1>s DEF Unlocked, From, Stands, IsOp, Reading
  <2>3. /\ slot' = slot /\ local'[p].seen = local[p].seen /\ Idx(p)' = Idx(p)
        /\ pc[p] # "idle" /\ call'[p] = call[p]
    BY <1>t, <2>1, <2>2 DEF SawState, SawSize, SawLo, Tested, Stopped, Overran, Keeps,
       Quiet, Same, Looks, Locals, Idx, From
  <2>4. Passed(Idx(p))' = Passed(Idx(p))
    BY <2>3 DEF Passed
  <2>5. Yields(local[p]) = Keys(Idx(p))
    BY <1>6, <2>3 DEF Listing
  <2>6. QED
    BY <2>3, <2>4, <2>5 DEF Listing
<1>7. QED
  BY <1>1, <1>2, <1>3, <1>4, <1>5, <1>6

(* Beside an iteration nobody else is in a call.                           *)
LEMMA ListingOther ==
  ASSUME IInv, Workable(scenario), NEW p \in Proc \ dead, Moves(p),
         NEW q \in Proc \ dead, q # p, Listing(q)
  PROVE  Listing(q)'
<1>1. /\ pc'[q] = pc[q] /\ call'[q] = call[q] /\ local'[q] = local[q] /\ Idx(q)' = Idx(q)
  BY MovesOwn, Others
<1>2. SUFFICES ASSUME IsOp(q, "iter"), pc[q] # "idle" PROVE Listing(q)'
  BY <1>1 DEF Listing, IsOp
<1>3. slot' = slot
  BY <1>2, BesideSolo
<1>4. Passed(Idx(q))' = Passed(Idx(q))
  BY <1>1, <1>3 DEF Passed
<1>5. QED
  BY <1>1, <1>2, <1>3, <1>4 DEF Listing, IsOp

-----------------------------------------------------------------------------
(* The strengthened invariant.                                             *)

(* It holds at the start.                                                  *)
LEMMA InitSInv ==
  ASSUME Init
  PROVE  SInv
<1>i. IInv
  BY InitIInv
<1>1. \A p \in Proc : pc[p] = "idle" /\ out[p] = Store!Ok /\ IsOp(p, "none")
  BY DEF Init, IsOp
<1>2. \A p \in Proc : Waits(p)
  BY <1>1, Results DEF Waits
<1>3. Single
  <2>1. ASSUME NEW k \in Key PROVE Len(entries[k]) <= 1
    <3>1. /\ entries[k] \in Seq(Indices)
          /\ \A j \in DOMAIN entries[k] : j = 1
      BY InitEntries
    <3>2. Len(entries[k]) \in Nat /\ DOMAIN entries[k] = 1 .. Len(entries[k])
      BY <3>1
    <3>3. SUFFICES ASSUME Len(entries[k]) >= 2 PROVE FALSE
      BY <3>2
    <3>4. 2 \in DOMAIN entries[k]
      BY <3>2, <3>3
    <3>5. QED
      BY <3>1, <3>4
  <2>2. QED
    BY <1>1, <2>1 DEF Single
<1>4. Numbered
  <2> DEFINE n == Len(Preload)
  <2>1. Placed = {}
    BY <1>1 DEF Placed, Unpublished
  <2>2. ~Leaving
    BY <1>1 DEF Leaving
  <2>3. n \in 0 .. Capacity /\ \A i \in Indices : i \in Published <=> i < n
    BY InitEntries
  <2>4. Published \subseteq Indices
    BY <1>i, PublishedSlots DEF IInv
  <2>5. Published = 0 .. n - 1
    <3> HIDE DEF n
    <3>1. \A i \in 0 .. n - 1 : i \in Indices /\ i < n
      BY <2>3, Numbers DEF Indices
    <3>2. \A i \in Indices : i < n => i \in 0 .. n - 1
      BY <2>3, Numbers DEF Indices
    <3>3. QED
      BY <2>3, <2>4, <3>1, <3>2
  <2>6. Cardinality(Published) = n
    <3> HIDE DEF n
    <3>1. 0 \in Int /\ n - 1 \in Int
      BY <2>3, Numbers
    <3>2. Cardinality(0 .. n - 1) = IF 0 > n - 1 THEN 0 ELSE n - 1 - 0 + 1
      BY <3>1, FS_Interval
    <3>3. QED
      BY <2>3, <2>5, <3>2, Numbers
  <2>7. header.count = n
    BY DEF Init
  <2>8. IsFiniteSet(Placed) /\ Cardinality(Placed) = 0
    BY <2>1, FS_EmptySet
  <2>9. QED
    <3> HIDE DEF n
    <3>1. QED
      BY <2>2, <2>3, <2>6, <2>7, <2>8, Numbers DEF Numbered, Ticks
<1>5. dead \subseteq scenario.mortal
  BY DEF Init
<1>6. \A p \in Proc \ dead : Valued(p) /\ Listing(p)
  BY <1>1 DEF Valued, Listing, IsOp
<1>7. QED
  BY <1>2, <1>3, <1>4, <1>5, <1>6 DEF SInv

(* A death disturbs none of it.                                            *)
LEMMA SInvCrash ==
  ASSUME SInv, NEW p \in Proc \ dead, Crash(p)
  PROVE  SInv'
<1>1. /\ slot' = slot /\ header' = header /\ entries' = entries
      /\ pc' = pc /\ call' = call /\ local' = local /\ out' = out
      /\ scenario' = scenario /\ dead' = dead \cup {p} /\ p \in scenario.mortal
  BY DEF Crash, Shared
<1>2. \A q \in Proc : Waits(q)'
  BY <1>1 DEF SInv, Waits, Pending, Store!Pending
<1>3. Single'
  BY <1>1 DEF SInv, Single, IsOp, KeyOf
<1>4. Numbered'
  <2>1. Published' = Published
    BY <1>1 DEF Published
  <2>2. Placed' = Placed
    BY <1>1 DEF Placed, Unpublished, Inserting
  <2>3. Leaving' <=> Leaving
    BY <1>1 DEF Leaving, IsOp
  <2>4. QED
    BY <1>1, <2>1, <2>2, <2>3 DEF SInv, Numbered, Ticks
<1>5. (dead \subseteq scenario.mortal)'
  BY <1>1 DEF SInv
<1>6. ASSUME NEW q \in Proc \ dead' PROVE (Valued(q) /\ Listing(q))'
  <2>1. Valued(q) /\ Listing(q)
    BY <1>1, <1>6 DEF SInv
  <2>2. Passed(Idx(q))' = Passed(Idx(q)) /\ Idx(q)' = Idx(q)
    BY <1>1 DEF Passed, Idx
  <2>3. slot' = slot /\ pc' = pc /\ call' = call /\ local' = local
    BY <1>1
  <2>4. Valued(q)'
    BY <2>1, <2>2, <2>3 DEF Valued, IsOp
  <2>5. Listing(q)'
    BY <2>1, <2>2, <2>3, ZenonT(60) DEF Listing, IsOp
  <2>6. QED
    BY <2>4, <2>5
<1>7. QED
  BY <1>2, <1>3, <1>4, <1>5, <1>6 DEF SInv

(* Every step keeps it.                                                    *)
LEMMA SInvStep ==
  ASSUME IInv, Workable(scenario), Orderly(scenario), SInv, [Next]_vars
  PROVE  SInv'
<1>1. CASE UNCHANGED vars
  <2>1. /\ slot' = slot /\ header' = header /\ entries' = entries
        /\ pc' = pc /\ call' = call /\ local' = local /\ out' = out
        /\ scenario' = scenario /\ dead' = dead
    BY <1>1 DEF vars
  <2>2. \A q \in Proc : Waits(q)'
    BY <2>1 DEF SInv, Waits, Pending, Store!Pending
  <2>3. Single'
    BY <2>1 DEF SInv, Single, IsOp, KeyOf
  <2>4. Numbered'
    <3>1. Published' = Published
      BY <2>1 DEF Published
    <3>2. Placed' = Placed
      BY <2>1 DEF Placed, Unpublished, Inserting
    <3>3. Leaving' <=> Leaving
      BY <2>1 DEF Leaving, IsOp
    <3>4. QED
      BY <2>1, <3>1, <3>2, <3>3 DEF SInv, Numbered, Ticks
  <2>5. ASSUME NEW q \in Proc \ dead PROVE (Valued(q) /\ Listing(q))'
    <3>1. Passed(Idx(q))' = Passed(Idx(q)) /\ Idx(q)' = Idx(q)
      BY <2>1 DEF Passed, Idx
    <3>2. Valued(q) /\ Listing(q)
      BY DEF SInv
    <3>3. QED
      BY <2>1, <3>1, <3>2 DEF Valued, Listing, IsOp
  <2>6. QED
    BY <2>1, <2>2, <2>3, <2>4, <2>5 DEF SInv
<1>2. CASE Next
  <2>1. PICK p \in Proc \ dead : Acts(p) \/ Crash(p)
    BY <1>2 DEF Next, Acts
  <2>2. CASE Crash(p)
    BY <2>2, SInvCrash
  <2>3. CASE Acts(p)
    <3>1. Moves(p) /\ Own(p) /\ scenario' = scenario /\ dead' = dead
      BY <2>3, ActsMove, MovesOwn DEF Own
    <3>2. ASSUME NEW q \in Proc PROVE Waits(q)'
      <4>1. CASE q = p
        BY <2>3, <4>1, WaitsStep DEF SInv
      <4>2. CASE q # p
        BY <3>1, <4>2 DEF SInv, Own, Waits, Pending, Store!Pending
      <4>3. QED
        BY <4>1, <4>2
    <3>3. Single' /\ Numbered'
      BY <2>3, <3>1, SingleStep, NumberedStep DEF SInv
    <3>4. ASSUME NEW q \in Proc \ dead PROVE Valued(q)' /\ Listing(q)'
      <4>1. Valued(q) /\ Listing(q) /\ Valued(p) /\ Listing(p)
        BY DEF SInv
      <4>2. CASE q = p
        BY <3>1, <4>1, <4>2, ValuedOwn, ListingOwn
      <4>3. CASE q # p
        BY <3>1, <4>1, <4>3, ValuedOther, ListingOther
      <4>4. QED
        BY <4>2, <4>3
    <3>5. QED
      BY <3>1, <3>2, <3>3, <3>4 DEF SInv
  <2>4. QED
    BY <2>1, <2>2, <2>3
<1>3. QED
  BY <1>1, <1>2

-----------------------------------------------------------------------------
(* The mapping: the store as the table shows it.                           *)

(* The values of the records in the index, and the processes whose record  *)
(* is lost.                                                                *)
Vals == [k \in Key |-> IF PK!Has(entries, k) THEN slot[Head(entries[k])].hi.val ELSE -1]
Gone == {p \in dead : Unpublished(p)}

(* A key has a value when it has a record, and that is in its first slot.  *)
LEMMA Values ==
  ASSUME IInv, NEW k \in Key
  PROVE  /\ Vals[k] = -1 <=> entries[k] = <<>>
         /\ entries[k] # <<>> => /\ 1 \in DOMAIN entries[k] /\ entries[k][1] \in Indices
                                 /\ Head(entries[k]) = entries[k][1]
                                 /\ Vals[k] = slot[entries[k][1]].hi.val
                                 /\ Vals[k] \in 0 .. MaxFit
<1>t. entries[k] \in Seq(Indices) /\ slot \in [Indices -> SlotType]
  BY DEF IInv, Typing
<1>1. ASSUME entries[k] # <<>>
      PROVE  /\ 1 \in DOMAIN entries[k] /\ entries[k][1] \in Indices
             /\ Head(entries[k]) = entries[k][1]
  BY <1>t, <1>1
<1>2. ASSUME entries[k] # <<>>
      PROVE  Vals[k] = slot[entries[k][1]].hi.val
  BY <1>1, <1>2 DEF Vals, PK!Has
<1>3. ASSUME entries[k] # <<>>
      PROVE  slot[entries[k][1]].hi.val \in 0 .. MaxFit
  BY <1>1, <1>3, <1>t DEF SlotType, Words
<1>4. entries[k] = <<>> => Vals[k] = -1
  BY DEF Vals, PK!Has
<1>5. -1 \notin 0 .. MaxFit
  BY Numbers
<1>6. QED
  BY <1>1, <1>2, <1>3, <1>4, <1>5

(* The keys present are those with a record.                               *)
LEMMA Presents ==
  ASSUME IInv
  PROVE  Store!Present = {k \in Key : entries[k] # <<>>}
<1>1. Store!Present = {k \in Key : Vals[k] # -1}
  BY DEF Store!Present, Store!Absent, Vals
<1>2. QED
  BY <1>1, Values

(* There are as many of them as records.                                   *)
LEMMA PresentCount ==
  ASSUME IInv, Single
  PROVE  /\ Store!Cardinality(Store!Present) = Cardinality(Published)
         /\ Cardinality(Published) \in Nat
<1> DEFINE keys == {k \in Key : entries[k] # <<>>}
           at == [k \in keys |-> entries[k][1]]
<1>1. ASSUME NEW k \in keys PROVE 1 \in DOMAIN entries[k] /\ entries[k][1] \in Published
  BY <1>1, Values, PublishedSlots DEF IInv
<1>2. at \in [keys -> Published]
  BY <1>1
<1>3. \A k, l \in keys : at[k] = at[l] => k = l
  BY <1>1 DEF IInv, Distinct
<1>4. ASSUME NEW i \in Published PROVE \E k \in keys : at[k] = i
  <2>1. PICK k \in Key : \E j \in DOMAIN entries[k] : entries[k][j] = i
    BY PublishedSlots DEF IInv
  <2>2. PICK j \in DOMAIN entries[k] : entries[k][j] = i
    BY <2>1
  <2>3. entries[k] \in Seq(Indices) /\ Len(entries[k]) <= 1
    BY DEF IInv, Typing, Single
  <2>4. j = 1 /\ entries[k] # <<>>
    BY <2>2, <2>3
  <2>5. QED
    BY <2>2, <2>4
<1>5. at \in Injection(keys, Published) /\ at \in Surjection(keys, Published)
  BY <1>2, <1>3, <1>4 DEF Injection, IsInjective, Surjection
<1>6. IsFiniteSet(Published)
  BY PublishedSlots, Numbers, FS_Subset DEF IInv
<1>8. Cardinality(keys) = Cardinality(Published)
  <2> HIDE DEF at, keys
  <2>1. QED
    BY <1>5, <1>6, FS_Injection
<1>9. Store!Cardinality(Store!Present) = Cardinality(keys)
  BY Presents DEF Store!Cardinality, Cardinality
<1>10. QED
  BY <1>6, <1>8, <1>9, FS_CardinalityType

-----------------------------------------------------------------------------
(* What makes a step of the table one of the store.                        *)

(* A step that takes a request up is the store's Begin.                    *)
LEMMA AsBegin ==
  ASSUME scenario \in Scenarios, NEW p \in Proc, NEW c \in scenario.calls[p],
         out[p] # Pending, call' = [call EXCEPT ![p] = c],
         out' = [out EXCEPT ![p] = Pending], Vals' = Vals, Gone' = Gone
  PROVE  Store!Begin(p)
  BY DEF Store!Begin, Pending, Vals, Gone

(* One with the result and the effect of an insertion is its Insert.       *)
LEMMA AsInsert ==
  ASSUME NEW p \in Proc, out[p] = Pending, IsOp(p, "insert"),
         call' = call, Gone' = Gone,
         \/ /\ Vals[KeyOf(p)] # -1 /\ Vals' = Vals
            /\ out' = [out EXCEPT ![p] = Store!RecordDuplicated]
         \/ /\ Vals[KeyOf(p)] = -1 /\ Vals' = Vals
            /\ Store!Cardinality(Store!Present) + Store!Cardinality(Gone) >= Capacity
            /\ out' = [out EXCEPT ![p] = Store!TableFull]
         \/ /\ Vals[KeyOf(p)] = -1 /\ Vals' = Vals
            /\ Store!Cardinality(Store!Present) < Capacity /\ call[p].val > MaxFit
            /\ out' = [out EXCEPT ![p] = Store!RecordSizeTooBig]
         \/ /\ Vals[KeyOf(p)] = -1
            /\ Vals' = [Vals EXCEPT ![KeyOf(p)] = call[p].val]
            /\ Store!Cardinality(Store!Present) < Capacity /\ call[p].val <= MaxFit
            /\ out' = [out EXCEPT ![p] = Store!Ok]
  PROVE  Store!Insert(p)
  BY DEF Store!Insert, Store!Running, Store!Finish, Store!Absent, Pending, IsOp, KeyOf,
     Vals, Gone

(* One that returns the value of the key is its Find.                      *)
LEMMA AsFind ==
  ASSUME NEW p \in Proc, out[p] = Pending, IsOp(p, "find"),
         call' = call, Gone' = Gone, Vals' = Vals,
         out' = [out EXCEPT ![p] = IF Vals[KeyOf(p)] = -1 THEN Store!NotFound
                                   ELSE Store!Found(Vals[KeyOf(p)])]
  PROVE  Store!Find(p)
  BY DEF Store!Find, Store!Running, Store!Finish, Store!Absent, Pending, IsOp, KeyOf,
     Vals, Gone

(* One that returns the number of keys is its Count.                       *)
LEMMA AsCount ==
  ASSUME NEW p \in Proc, out[p] = Pending, IsOp(p, "count"),
         call' = call, Gone' = Gone, Vals' = Vals,
         out' = [out EXCEPT ![p] = Store!Counted(Store!Cardinality(Store!Present))]
  PROVE  Store!Count(p)
  BY DEF Store!Count, Store!Running, Store!Finish, Pending, IsOp, Vals, Gone

(* One that returns every key, each once, is its Iterate.                  *)
LEMMA AsIterate ==
  ASSUME NEW p \in Proc, out[p] = Pending, IsOp(p, "iter"),
         call' = call, Gone' = Gone, Vals' = Vals,
         out' = [out EXCEPT ![p] = Store!Yielded(Store!Present,
                                                 Store!Cardinality(Store!Present))]
  PROVE  Store!Iterate(p)
  BY DEF Store!Iterate, Store!Running, Store!Finish, Pending, IsOp, Vals, Gone

(* One that takes the value of the key away is its Remove.                 *)
LEMMA AsRemove ==
  ASSUME NEW p \in Proc, out[p] = Pending, IsOp(p, "remove"),
         call' = call, Gone' = Gone, Vals' = [Vals EXCEPT ![KeyOf(p)] = -1],
         out' = [out EXCEPT ![p] = Store!Ok]
  PROVE  Store!Remove(p)
  BY DEF Store!Remove, Store!Running, Store!Finish, Store!Absent, Pending, IsOp, KeyOf,
     Vals, Gone

(* One that raises the value of the first key left is its Update.          *)
LEMMA AsUpdate ==
  ASSUME NEW p \in Proc, out[p] = Pending, IsOp(p, "update"), Gone' = Gone,
         LET left == Tail(call[p].keys)
             n == call[p].found + IF Vals[KeyOf(p)] # -1 THEN 1 ELSE 0
         IN  \/ /\ Vals[KeyOf(p)] # -1 /\ Vals[KeyOf(p)] >= MaxFit
                /\ Vals' = Vals /\ call' = call
                /\ out' = [out EXCEPT ![p] = Store!RecordSizeTooBig]
             \/ /\ Vals[KeyOf(p)] # -1 => Vals[KeyOf(p)] < MaxFit
                /\ Vals' = IF Vals[KeyOf(p)] # -1
                           THEN [Vals EXCEPT ![KeyOf(p)] = Vals[KeyOf(p)] + 1]
                           ELSE Vals
                /\ call' = [call EXCEPT ![p].keys = left, ![p].found = n]
                /\ IF left = <<>> THEN out' = [out EXCEPT ![p] = Store!Updated(n)]
                   ELSE out' = out
  PROVE  Store!Update(p)
  BY DEF Store!Update, Store!Running, Store!Finish, Store!Absent, Pending, IsOp, KeyOf,
     Vals, Gone

(* One that ends a waiting call with an error is its Fail.                 *)
LEMMA AsFail ==
  ASSUME NEW p \in Proc, out[p] = Pending, ~IsOp(p, "find"),
         call' = call, Gone' = Gone, Vals' = Vals,
         out' = [out EXCEPT ![p] = Store!Error]
  PROVE  Store!Fail(p)
  BY DEF Store!Fail, Store!Finish, Pending, IsOp, Vals, Gone

(* A death that takes a record's room along is its Die.                    *)
LEMMA AsDie ==
  ASSUME NEW p \in Proc, out[p] = Pending, IsOp(p, "insert"), p \notin Gone,
         call' = call, Gone' = Gone \cup {p}, Vals' = Vals, out' = out
  PROVE  Store!Die(p)
  BY DEF Store!Die, Store!Running, Pending, IsOp, Vals, Gone

(* A step that changes nothing the store shows is none of its steps.       *)
LEMMA AsRests ==
  ASSUME call' = call, Gone' = Gone, Vals' = Vals, out' = out
  PROVE  UNCHANGED Store!vars
  BY DEF Store!vars, Vals, Gone

-----------------------------------------------------------------------------
(* What steps do to the store the table shows.                             *)

(* A call loses nothing; only a death does.                                *)
LEMMA GoneStays ==
  ASSUME IInv, NEW p \in Proc \ dead, Own(p)
  PROVE  Gone' = Gone
<1>1. dead' = dead /\ \A q \in dead : q \in Proc \ {p}
  BY DEF Own, IInv, Typing
<1>2. \A q \in Proc \ {p} : Unpublished(q)' <=> Unpublished(q)
  BY DEF Own, Unpublished, Inserting, IsOp
<1>3. QED
  BY <1>1, <1>2 DEF Gone

(* Values stay as long as the last words of the records do.                *)
LEMMA ValuesStay ==
  ASSUME IInv, entries' = entries,
         \A k \in Key : entries[k] # <<>>
           => slot'[entries[k][1]].hi = slot[entries[k][1]].hi
  PROVE  Vals' = Vals
<1>1. ASSUME NEW k \in Key
      PROVE  (IF PK!Has(entries, k) THEN slot'[Head(entries[k])].hi.val ELSE -1)
             = IF PK!Has(entries, k) THEN slot[Head(entries[k])].hi.val ELSE -1
  BY Values DEF PK!Has
<1>2. QED
  BY <1>1 DEF Vals, PK!Has

(* Most steps leave the values as they are.                                *)
LEMMA ValuesQuiet ==
  ASSUME IInv, Workable(scenario), NEW p \in Proc \ dead, Moves(p),
         ~Rewrote(p), ~Indexing(p)
  PROVE  Vals' = Vals
<1>1. entries' = entries
  BY MovesOwn DEF Moves, Quiet
<1>2. ASSUME NEW k \in Key, entries[k] # <<>>
      PROVE  slot'[entries[k][1]].hi = slot[entries[k][1]].hi
  <2>1. CASE ~Storing(p)
    BY <2>1, MovesOwn DEF Moves, Quiet
  <2>2. CASE Storing(p)
    <3>1. /\ 1 \in DOMAIN entries[k] /\ entries[k][1] \in Indices
          /\ slot[entries[k][1]] \in SlotType
      BY <1>2, Values DEF IInv, Typing
    <3>2. CASE entries[k][1] # Idx(p)
      BY <2>2, <3>1, <3>2, StoringWays
    <3>3. CASE entries[k][1] = Idx(p)
      <4>1. ~Filled(p)
        BY <2>2, <3>1, <3>3, WritesItsKey DEF Filled, From, Taken
      <4>2. QED
        BY <2>2, <3>1, <3>3, <4>1 DEF Storing, WroteState, WroteSize, WroteLo, WroteFree,
           WroteLink, Stored, SlotType
    <3>4. QED
      BY <3>2, <3>3
  <2>3. QED
    BY <2>1, <2>2
<1>3. QED
  BY <1>1, <1>2, ValuesStay

(* The last word of an update adds one to the value of its key.            *)
LEMMA ValuesRewrote ==
  ASSUME IInv, NEW p \in Proc \ dead, Rewrote(p), Valued(p)
  PROVE  /\ KeyOf(p) \in Key /\ Vals[KeyOf(p)] \in 0 .. MaxFit - 1
         /\ Vals' = [Vals EXCEPT ![KeyOf(p)] = Vals[KeyOf(p)] + 1]
<1>1. Aims(p) /\ IsOp(p, "update") /\ pc[p] \in Writing
  BY DEF Rewrote, From, Aims, Writing
<1>2. /\ KeyOf(p) \in Key /\ 1 \in DOMAIN entries[KeyOf(p)]
      /\ entries[KeyOf(p)][1] = Idx(p) /\ Idx(p) \in Indices
  BY <1>1, AimedSlot DEF IInv
<1>3. entries[KeyOf(p)] # <<>> /\ Vals[KeyOf(p)] = slot[Idx(p)].hi.val
      /\ Vals[KeyOf(p)] \in 0 .. MaxFit
  <2>1. entries[KeyOf(p)] # <<>>
    BY <1>2, Values DEF IInv, Typing
  <2>2. QED
    BY <1>2, <2>1, Values
<1>4. local[p].hi.val = Vals[KeyOf(p)] + 1 /\ local[p].hi.val \in 0 .. MaxFit
  <2>1. local[p].hi \in Words
    BY DEF IInv, Typing, Locals
  <2>2. QED
    BY <1>1, <1>3, <2>1 DEF Valued, Words
<1>5. Vals[KeyOf(p)] \in 0 .. MaxFit - 1
  BY <1>3, <1>4, Numbers
<1>6. entries' = entries /\ slot'[Idx(p)].hi = local[p].hi
      /\ \A i \in Indices \ {Idx(p)} : slot'[i] = slot[i]
  <2>1. slot[Idx(p)] \in SlotType
    BY <1>2 DEF IInv, Typing
  <2>2. QED
    BY <2>1 DEF Rewrote, Stored, SlotType
<1>7. ASSUME NEW k \in Key
      PROVE  (IF PK!Has(entries, k) THEN slot'[Head(entries[k])].hi.val ELSE -1)
             = [Vals EXCEPT ![KeyOf(p)] = Vals[KeyOf(p)] + 1][k]
  <2>v. [Vals EXCEPT ![KeyOf(p)] = Vals[KeyOf(p)] + 1][k]
        = IF k = KeyOf(p) THEN Vals[KeyOf(p)] + 1 ELSE Vals[k]
    BY <1>2 DEF Vals
  <2>1. CASE k = KeyOf(p)
    <3>1. Head(entries[k]) = Idx(p)
      BY <1>2, <1>3, <2>1, Values
    <3>2. QED
      BY <1>3, <1>4, <1>6, <2>1, <2>v, <3>1 DEF PK!Has
  <2>2. CASE k # KeyOf(p) /\ entries[k] = <<>>
    BY <2>2, <2>v, Values DEF PK!Has
  <2>3. CASE k # KeyOf(p) /\ entries[k] # <<>>
    <3>1. /\ 1 \in DOMAIN entries[k] /\ entries[k][1] \in Indices
          /\ Head(entries[k]) = entries[k][1] /\ Vals[k] = slot[entries[k][1]].hi.val
      BY <2>3, Values
    <3>2. entries[k][1] # Idx(p)
      BY <1>2, <2>3, <3>1 DEF IInv, Distinct
    <3>3. QED
      BY <1>6, <2>3, <2>v, <3>1, <3>2 DEF PK!Has
  <2>4. QED
    BY <2>1, <2>2, <2>3
<1>8. Vals' = [k \in Key |-> [Vals EXCEPT ![KeyOf(p)] = Vals[KeyOf(p)] + 1][k]]
  BY <1>6, <1>7 DEF Vals, PK!Has
<1>9. Vals' = [Vals EXCEPT ![KeyOf(p)] = Vals[KeyOf(p)] + 1]
  BY <1>8 DEF Vals
<1>10. QED
  BY <1>2, <1>5, <1>9

(* Publishing a record gives its key the value of the insertion.           *)
LEMMA ValuesIndexed ==
  ASSUME IInv, Single, NEW p \in Proc \ dead, Indexed(p), Valued(p)
  PROVE  /\ Vals[KeyOf(p)] = -1 /\ call[p].val <= MaxFit
         /\ Vals' = [Vals EXCEPT ![KeyOf(p)] = call[p].val]
         /\ Cardinality(Published) < Capacity
<1>1. /\ KeyOf(p) \in Key /\ Idx(p) \in Indices /\ Idx(p) \notin Published
  BY PublishNext
<1>2. entries[KeyOf(p)] = <<>>
  BY DEF Indexed, From, Single
<1>3. slot[Idx(p)].hi.val = call[p].val /\ call[p].val \in 0 .. MaxFit
  <2>1. slot[Idx(p)].hi = local[p].hi
    BY DEF Indexed, From, IInv, Knowledge, Insertion
  <2>2. local[p].hi.val = call[p].val
    BY DEF Indexed, From, Valued
  <2>3. local[p].hi \in Words
    BY DEF IInv, Typing, Locals
  <2>4. QED
    BY <2>1, <2>2, <2>3 DEF Words
<1>4. entries' = [entries EXCEPT ![KeyOf(p)] = <<Idx(p)>>] /\ slot' = slot
  <2>1. Append(<<>>, Idx(p)) = <<Idx(p)>>
    OBVIOUS
  <2>2. QED
    BY <1>2, <2>1 DEF Indexed, PK!Added
<1>t. entries \in [Key -> Seq(Indices)]
  BY DEF IInv, Typing
<1>5. ASSUME NEW k \in Key
      PROVE  (IF PK!Has(entries', k) THEN slot[Head(entries'[k])].hi.val ELSE -1)
             = IF k = KeyOf(p) THEN call[p].val ELSE Vals[k]
  <2>1. CASE k = KeyOf(p)
    <3>1. entries'[k] = <<Idx(p)>>
      BY <1>1, <1>4, <1>t, <2>1
    <3>2. <<Idx(p)>> # <<>> /\ Head(<<Idx(p)>>) = Idx(p)
      OBVIOUS
    <3>3. QED
      BY <1>3, <2>1, <3>1, <3>2 DEF PK!Has
  <2>2. CASE k # KeyOf(p)
    <3>1. entries'[k] = entries[k]
      BY <1>1, <1>4, <1>t, <2>2
    <3>2. QED
      BY <2>2, <3>1 DEF Vals, PK!Has
  <2>3. QED
    BY <2>1, <2>2
<1>6. Vals' = [k \in Key |-> IF k = KeyOf(p) THEN call[p].val ELSE Vals[k]]
  BY <1>4, <1>5 DEF Vals, PK!Has
<1>7. Vals' = [Vals EXCEPT ![KeyOf(p)] = call[p].val]
  BY <1>6 DEF Vals
<1>8. Cardinality(Published) < Capacity
  <2>1. Published \subseteq Indices \ {Idx(p)}
    BY <1>1, PublishedSlots DEF IInv
  <2>2. /\ IsFiniteSet(Indices \ {Idx(p)})
        /\ Cardinality(Indices \ {Idx(p)}) = Capacity - 1
    BY <1>1, Numbers, FS_RemoveElement
  <2>3. Cardinality(Published) <= Capacity - 1 /\ Cardinality(Published) \in Nat
    BY <2>1, <2>2, FS_Subset, FS_CardinalityType
  <2>4. QED
    BY <2>3, Numbers
<1>9. QED
  BY <1>1, <1>2, <1>3, <1>7, <1>8, Values

(* The tail of one entry is none.                                          *)
LEMMA LastTail ==
  ASSUME NEW S, NEW s \in Seq(S), s # <<>>, Len(s) <= 1
  PROVE  Tail(s) = <<>>
<1>1. Len(s) = 1
  <2>1. Len(s) \in Nat \ {0}
    BY EmptySeq
  <2>2. \A n \in Nat \ {0} : n <= 1 => n = 1
    OBVIOUS
  <2>3. QED
    BY <2>1, <2>2
<1>2. Tail(s) \in Seq(S) /\ Len(Tail(s)) = 0
  BY <1>1, HeadTailProperties
<1>3. QED
  BY <1>2, EmptySeq

(* Unpublishing a record takes its key's value.                            *)
LEMMA ValuesUnindexed ==
  ASSUME IInv, Single, NEW p \in Proc \ dead, Unindexed(p)
  PROVE  Vals' = [Vals EXCEPT ![KeyOf(p)] = -1]
<1>1. KeyOf(p) \in Key /\ entries[KeyOf(p)] # <<>>
  BY UnpublishNext
<1>t. entries \in [Key -> Seq(Indices)]
  BY DEF IInv, Typing
<1>2. Tail(entries[KeyOf(p)]) = <<>>
  BY <1>1, <1>t, LastTail DEF Single
<1>3. entries' = [entries EXCEPT ![KeyOf(p)] = <<>>] /\ slot' = slot
  BY <1>1, <1>2 DEF Unindexed, PK!Dropped, PK!Has
<1>4. ASSUME NEW k \in Key
      PROVE  (IF PK!Has(entries', k) THEN slot[Head(entries'[k])].hi.val ELSE -1)
             = IF k = KeyOf(p) THEN -1 ELSE Vals[k]
  <2>1. entries'[k] = IF k = KeyOf(p) THEN <<>> ELSE entries[k]
    BY <1>1, <1>3, <1>t
  <2>2. QED
    BY <2>1 DEF Vals, PK!Has
<1>5. Vals' = [k \in Key |-> IF k = KeyOf(p) THEN -1 ELSE Vals[k]]
  BY <1>3, <1>4 DEF Vals, PK!Has
<1>6. QED
  BY <1>5 DEF Vals

-----------------------------------------------------------------------------
(* Every step of the table is one of the store, or none.                   *)

Ready == /\ IInv /\ Finds /\ SInv
         /\ Workable(scenario) /\ ReadersApart(scenario) /\ Orderly(scenario)

(* An action of the store by some process is a step of the store.          *)
LEMMA AsNext ==
  ASSUME NEW p \in Proc,
         \/ Store!Begin(p) \/ Store!Insert(p) \/ Store!Find(p) \/ Store!Count(p)
         \/ Store!Iterate(p) \/ Store!Remove(p) \/ Store!Update(p) \/ Store!Fail(p)
         \/ Store!Die(p)
  PROVE  Store!Next
  BY DEF Store!Next

(* What reads a record reads a whole one: nobody is rewriting it, and      *)
(* nobody died at that.                                                    *)
LEMMA ReadWhole ==
  ASSUME Ready, NEW p \in Proc \ dead, pc[p] \in Reading
  PROVE  /\ Idx(p) \in Indices
         /\ \E k \in Key : Complete(k, Idx(p))
         /\ ~IsOp(p, "iter") => /\ KeyOf(p) \in Key /\ entries[KeyOf(p)] # <<>>
                                /\ entries[KeyOf(p)][1] = Idx(p)
                                /\ Complete(KeyOf(p), Idx(p))
<1>r. IInv /\ SInv /\ Workable(scenario) /\ ReadersApart(scenario) /\ Orderly(scenario)
  BY DEF Ready
<1>t. entries \in [Key -> Seq(Indices)]
  BY <1>r DEF IInv, Typing
<1>1. CASE IsOp(p, "find")
  <2>1. Idx(p) \in Indices /\ KeyOf(p) \in Key /\ Complete(KeyOf(p), Idx(p))
    BY <1>1, <1>r, WholeWhileRead
  <2>2. entries[KeyOf(p)] # <<>> /\ entries[KeyOf(p)][1] = Idx(p)
    BY <1>1, <1>r, AimedSlot DEF IInv, Aims, Aimed
  <2>3. QED
    BY <1>1, <2>1, <2>2
<1>2. CASE IsOp(p, "iter")
  <2>1. Idx(p) \in Indices /\ slot[Idx(p)].state = "Occupied"
    BY <1>2, <1>r DEF IInv, Knowledge, Iteration
  <2>2. \A q \in Proc : ~Taken(q) /\ ~Freed(q) /\ ~Rewriting(q)
    <3>1. ~Taken(p) /\ ~Rewriting(p)
      BY <1>2 DEF Taken, Rewriting, Freed, IsOp
    <3>2. \A q \in Proc \ {p} : pc[q] = "idle"
      BY <1>2, <1>r, Solo DEF IInv, Reading
    <3>3. \A q \in Proc \ {p} : ~Taken(q) /\ ~Rewriting(q)
      BY <3>2 DEF Taken, Rewriting, Freed, Counting, Writing
    <3>4. QED
      BY <3>1, <3>3 DEF Rewriting
  <2>3. Idx(p) \in Published
    BY <1>r, <2>1, <2>2, Settled
  <2>4. PICK k \in Key : \E j \in DOMAIN entries[k] : entries[k][j] = Idx(p)
    BY <1>r, <2>3, PublishedSlots DEF IInv
  <2>5. Recorded(k, Idx(p))
    BY <1>r, <2>4 DEF IInv, Contents
  <2>6. Complete(k, Idx(p))
    BY <2>2, <2>5 DEF Recorded
  <2>7. QED
    BY <1>2, <2>1, <2>6
<1>3. CASE IsOp(p, "update")
  <2>1. Aims(p) /\ Holds(p)
    BY <1>3 DEF Aims, Holds
  <2>2. /\ KeyOf(p) \in Key /\ 1 \in DOMAIN entries[KeyOf(p)]
        /\ entries[KeyOf(p)][1] = Idx(p) /\ Idx(p) \in Indices
        /\ entries[KeyOf(p)] # <<>>
    BY <1>r, <2>1, AimedSlot DEF IInv, Aimed
  <2>3. Recorded(KeyOf(p), Idx(p))
    BY <1>r, <2>2 DEF IInv, Contents
  <2>4. ASSUME NEW q \in Proc, Rewriting(q), Idx(q) = Idx(p) PROVE FALSE
    <3>1. q # p
      BY <1>3, <2>4 DEF Rewriting, Freed, IsOp, Reading
    <3>2. ~Freed(q)
      <4>1. SUFFICES ASSUME IsOp(q, "remove"), pc[q] # "idle" PROVE FALSE
        BY DEF Freed, Counting
      <4>2. pc[p] = "idle"
        BY <1>r, <3>1, <4>1, Solo DEF IInv
      <4>3. QED
        BY <4>2 DEF Reading
    <3>3. IsOp(q, "update") /\ pc[q] \in Writing
      BY <2>4, <3>2 DEF Rewriting, Writing
    <3>4. CASE q \notin dead
      <4>1. Holds(q) /\ Sem(q) = Sem(p)
        BY <1>3, <2>4, <3>3 DEF Holds, Sem, IsOp
      <4>2. QED
        BY <1>r, <2>1, <3>1, <3>4, <4>1, OneHolder
    <3>5. CASE q \in dead
      <4>1. q \in scenario.mortal
        BY <1>r, <3>5 DEF SInv
      <4>2. KeyOf(q) # KeyOf(p)
        BY <1>3, <1>r, <3>1, <3>3, <4>1, UpdatersApart DEF Writing, Reading
      <4>3. /\ KeyOf(q) \in Key /\ 1 \in DOMAIN entries[KeyOf(q)]
            /\ entries[KeyOf(q)][1] = Idx(q)
        BY <1>r, <3>3, AimedSlot DEF IInv, Aims
      <4>4. QED
        BY <1>r, <2>2, <2>4, <4>2, <4>3 DEF IInv, Distinct
    <3>6. QED
      BY <3>4, <3>5
  <2>5. QED
    BY <2>2, <2>3, <2>4 DEF Recorded
<1>4. QED
  BY <1>1, <1>2, <1>3, <1>r DEF IInv, Control, Stands, Reading, Writing, Counting, Freeing

(* A step that neither rewrites nor indexes a record and has no result to  *)
(* give changes nothing the store shows.                                   *)
LEMMA Resting ==
  ASSUME Ready, NEW p \in Proc \ dead, Acts(p), ~Rewrote(p), ~Indexing(p)
  PROVE  /\ Vals' = Vals /\ Gone' = Gone
         /\ call' = call /\ out' = out => UNCHANGED Store!vars
<1>1. IInv /\ Workable(scenario) /\ Moves(p) /\ Own(p)
  BY ActsMove, MovesOwn DEF Ready
<1>2. Vals' = Vals /\ Gone' = Gone
  BY <1>1, ValuesQuiet, GoneStays
<1>3. QED
  BY <1>2, AsRests

(* What a process that is at work may say of its call.                     *)
LEMMA AtWork ==
  ASSUME Ready, NEW p \in Proc \ dead, pc[p] \notin {"idle", "unlock"}
  PROVE  /\ out[p] = Pending
         /\ IsOp(p, "insert") \/ IsOp(p, "find") \/ IsOp(p, "update") \/ IsOp(p, "remove")
              => KeyOf(p) \in Key
  BY KeyAsked DEF Ready, SInv, Waits

(* The steps that begin a call, ask the index or wait for a lock.          *)
LEMMA CallingSteps ==
  ASSUME Ready, NEW p \in Proc \ dead, Acts(p),
         \/ Begin(p) \/ LookupHit(p) \/ LookupMiss(p) \/ Lock(p) \/ LockInterrupted(p)
         \/ Unlock(p)
  PROVE  Store!Next \/ UNCHANGED Store!vars
<1>r. IInv /\ SInv
  BY DEF Ready
<1>t. /\ call \in [Proc -> Requested] /\ out = [q \in Proc |-> out[q]]
      /\ pc \in [Proc -> PCs] /\ scenario \in Scenarios /\ p \in Proc
  BY <1>r DEF IInv, Typing
<1>q. Vals' = Vals /\ Gone' = Gone /\ (call' = call /\ out' = out => UNCHANGED Store!vars)
  <2>1. pc[p] \in {"idle", "lookup", "lock", "unlock"}
    BY DEF Begin, LookupHit, LookupMiss, Lock, LockInterrupted, Unlock, Goto
  <2>2. ~Rewrote(p) /\ ~Indexing(p)
    BY <2>1 DEF Rewrote, Indexing, Indexed, Unindexed, From
  <2>3. QED
    BY <2>2, Resting
<1>1. CASE Begin(p)
  <2>1. PICK c \in scenario.calls[p] :
          /\ pc[p] = "idle" /\ call' = [call EXCEPT ![p] = c]
          /\ out' = [out EXCEPT ![p] = Pending]
    BY <1>1 DEF Begin, Goto, Finish
  <2>2. out[p] # Pending
    BY <1>r, <2>1 DEF SInv, Waits
  <2>3. Store!Begin(p)
    BY <1>q, <1>t, <2>1, <2>2, AsBegin
  <2>4. QED
    BY <2>3, AsNext
<1>2. CASE LookupHit(p)
  <2>1. CASE IsOp(p, "insert")
    <3>1. /\ call' = call /\ out' = [out EXCEPT ![p] = Store!RecordDuplicated]
          /\ pc[p] = "lookup" /\ entries[KeyOf(p)] # <<>>
      BY <1>2, <2>1 DEF LookupHit, RefusesDuplicate, Return, Finish, PK!Has
    <3>2. out[p] = Pending /\ KeyOf(p) \in Key
      BY <2>1, <3>1, AtWork
    <3>3. Vals[KeyOf(p)] # -1
      BY <1>r, <3>1, <3>2, Values
    <3>4. Store!Insert(p)
      BY <1>q, <2>1, <3>1, <3>2, <3>3, AsInsert
    <3>5. QED
      BY <3>4, AsNext
  <2>2. CASE ~IsOp(p, "insert")
    BY <1>2, <1>q, <2>2 DEF LookupHit, RefusesDuplicate
  <2>3. QED
    BY <2>1, <2>2
<1>3. CASE LookupMiss(p)
  <2>1. pc[p] = "lookup" /\ entries[KeyOf(p)] = <<>>
    BY <1>3 DEF LookupMiss, PK!Has
  <2>2. out[p] = Pending
    BY <2>1, AtWork
  <2>3. IsOp(p, "find") \/ IsOp(p, "update") \/ IsOp(p, "remove")
          => KeyOf(p) \in Key /\ Vals[KeyOf(p)] = -1
    BY <1>r, <2>1, AtWork, Values
  <2>4. CASE IsOp(p, "insert")
    BY <1>3, <1>q, <2>4 DEF LookupMiss, IsOp
  <2>5. CASE IsOp(p, "find")
    <3>1. call' = call /\ out' = [out EXCEPT ![p] = Store!NotFound]
      BY <1>3, <2>5 DEF LookupMiss, IsOp, Return, Finish
    <3>2. Store!Find(p)
      BY <1>q, <2>2, <2>3, <2>5, <3>1, AsFind
    <3>3. QED
      BY <3>2, AsNext
  <2>6. CASE IsOp(p, "remove")
    <3>1. call' = call /\ out' = [out EXCEPT ![p] = Store!Ok]
      BY <1>3, <2>6 DEF LookupMiss, IsOp, Return, Finish
    <3>2. Vals' = [Vals EXCEPT ![KeyOf(p)] = -1]
      BY <1>q, <2>3, <2>6 DEF Vals
    <3>3. Store!Remove(p)
      BY <1>q, <2>2, <2>6, <3>1, <3>2, AsRemove
    <3>4. QED
      BY <3>3, AsNext
  <2>7. CASE IsOp(p, "update")
    <3>1. /\ call' = [call EXCEPT ![p].keys = Tail(call[p].keys)]
          /\ IF Tail(call[p].keys) = <<>>
             THEN out' = [out EXCEPT ![p] = Store!Updated(call[p].found)]
             ELSE out' = out
      BY <1>3, <2>7 DEF LookupMiss, IsOp, Return, Finish, KeysLeft
    <3>2. /\ call[p].found + 0 = call[p].found
          /\ call' = [call EXCEPT ![p].keys = Tail(call[p].keys),
                                  ![p].found = call[p].found + 0]
      <4>1. call[p].found + 0 = call[p].found
        BY <1>t DEF Requested
      <4>2. [call[p] EXCEPT !.keys = Tail(call[p].keys)]
            = [[call[p] EXCEPT !.keys = Tail(call[p].keys)] EXCEPT !.found = call[p].found]
        BY <1>t DEF Requested
      <4>3. QED
        BY <1>t, <3>1, <4>1, <4>2
    <3>3. Store!Update(p)
      BY <1>q, <2>2, <2>3, <2>7, <3>1, <3>2, AsUpdate
    <3>4. QED
      BY <3>3, AsNext
  <2>8. QED
    BY <1>3, <2>4, <2>5, <2>6, <2>7 DEF LookupMiss
<1>4. CASE Lock(p) \/ Unlock(p)
  BY <1>4, <1>q DEF Lock, Unlock
<1>5. CASE LockInterrupted(p)
  <2>1. /\ pc[p] = "lock" /\ call' = call /\ out' = [out EXCEPT ![p] = Store!Error]
    BY <1>5 DEF LockInterrupted, Return, Finish
  <2>2. out[p] = Pending /\ ~IsOp(p, "find")
    BY <1>r, <2>1, AtWork DEF IInv, Control, Stands, IsOp, Reading
  <2>3. Store!Fail(p)
    BY <1>q, <2>1, <2>2, AsFail
  <2>4. QED
    BY <2>3, AsNext
<1>6. QED
  BY <1>1, <1>2, <1>3, <1>4, <1>5

(* While one process decides whether there is room, every insertion that   *)
(* is counted and not published is that of a dead process.                 *)
LEMMA RoomLeft ==
  ASSUME Ready, NEW p \in Proc \ dead, IsOp(p, "insert"), pc[p] = "full"
  PROVE  /\ Placed = Gone /\ Cardinality(Gone) \in Nat
         /\ header.count = Cardinality(Published) + Cardinality(Gone)
<1>r. IInv /\ Workable(scenario) /\ Numbered
  BY DEF Ready, SInv
<1>1. Placed = Gone
  <2>1. ASSUME NEW q \in Proc, Unpublished(q) PROVE q \in dead
    <3>1. SUFFICES ASSUME q \notin dead PROVE FALSE
      OBVIOUS
    <3>2. IsOp(q, "insert") /\ Holds(q) /\ pc[q] # "full"
      BY <2>1 DEF Unpublished, Inserting, IsOp, Holds, Writing
    <3>3. Holds(p)
      BY DEF Holds
    <3>4. p = q
      BY <1>r, <3>1, <3>2, <3>3, OneInserter
    <3>5. QED
      BY <3>2, <3>4
  <2>2. dead \subseteq Proc
    BY <1>r DEF IInv, Typing
  <2>3. QED
    BY <2>1, <2>2 DEF Placed, Gone
<1>2. ~Leaving
  <2>1. SUFFICES ASSUME NEW q \in Proc, IsOp(q, "remove"), pc[q] = "index" PROVE FALSE
    BY DEF Leaving
  <2>2. q # p
    BY <2>1
  <2>3. pc[p] = "idle"
    BY <1>r, <2>1, <2>2, Solo DEF IInv
  <2>4. QED
    BY <2>3
<1>3. Cardinality(Gone) \in Nat
  BY <1>1, <1>r, FS_CardinalityType DEF Numbered
<1>4. header.count + 0 = Cardinality(Published) + Cardinality(Placed)
  BY <1>2, <1>r DEF Numbered, Ticks
<1>5. header.count \in Nat
  BY <1>r DEF IInv, Typing
<1>6. QED
  BY <1>1, <1>3, <1>4, <1>5

(* The steps of an insertion on the header.                                *)
LEMMA InsertingSteps ==
  ASSUME Ready, NEW p \in Proc \ dead, Acts(p),
         \/ InsFull(p) \/ InsFirst(p) \/ InsNext(p) \/ InsSetFirst(p)
         \/ LoadCount(p) \/ StoreCount(p)
  PROVE  Store!Next \/ UNCHANGED Store!vars
<1>r. IInv /\ SInv
  BY DEF Ready
<1>t. /\ header.count \in Nat /\ call[p].val \in Nat
  BY <1>r DEF IInv, Typing, Requested
<1>q. Vals' = Vals /\ Gone' = Gone /\ (call' = call /\ out' = out => UNCHANGED Store!vars)
  <2>1. pc[p] \in {"full", "first", "next", "setfirst", "ldcount", "stcount"}
    BY DEF InsFull, InsFirst, InsNext, InsSetFirst, LoadCount, StoreCount, Goto
  <2>2. ~Rewrote(p) /\ ~Indexing(p)
    BY <2>1 DEF Rewrote, Indexing, Indexed, Unindexed, From
  <2>3. QED
    BY <2>2, Resting
<1>1. CASE InsFull(p)
  <2>1. pc[p] = "full" /\ call' = call
    BY <1>1 DEF InsFull
  <2>2. IsOp(p, "insert") /\ out[p] = Pending /\ KeyOf(p) \in Key
    <3>1. IsOp(p, "insert")
      BY <1>r, <2>1 DEF IInv, Control, Stands, Reading, Writing, Counting, Freeing
    <3>2. QED
      BY <2>1, <3>1, AtWork
  <2>3. Vals[KeyOf(p)] = -1
    <3>1. entries[KeyOf(p)] = <<>>
      BY <1>r, <2>1, <2>2 DEF SInv, Single
    <3>2. QED
      BY <1>r, <2>2, <3>1, Values
  <2>4. /\ header.count = Cardinality(Published) + Cardinality(Gone)
        /\ Cardinality(Gone) \in Nat /\ Store!Cardinality(Gone) = Cardinality(Gone)
        /\ Store!Cardinality(Store!Present) = Cardinality(Published)
        /\ Cardinality(Published) \in Nat
    BY <1>r, <2>1, <2>2, RoomLeft, PresentCount DEF SInv, Store!Cardinality, Cardinality
  <2>5. CASE header.count >= Capacity
    <3>1. out' = [out EXCEPT ![p] = Store!TableFull]
      BY <1>1, <2>5 DEF InsFull, IsFull, Abort, Finish
    <3>2. Store!Insert(p)
      BY <1>q, <2>1, <2>2, <2>3, <2>4, <2>5, <3>1, AsInsert
    <3>3. QED
      BY <3>2, AsNext
  <2>6. CASE ~(header.count >= Capacity) /\ ~Fits(call[p].val)
    <3>1. out' = [out EXCEPT ![p] = Store!RecordSizeTooBig]
      BY <1>1, <2>6 DEF InsFull, IsFull, Abort, Finish
    <3>2. Store!Cardinality(Store!Present) < Capacity /\ call[p].val > MaxFit
      BY <1>t, <2>4, <2>6, Numbers DEF Fits
    <3>3. Store!Insert(p)
      BY <1>q, <2>1, <2>2, <2>3, <3>1, <3>2, AsInsert
    <3>4. QED
      BY <3>3, AsNext
  <2>7. CASE ~(header.count >= Capacity) /\ Fits(call[p].val)
    BY <1>1, <1>q, <2>1, <2>7 DEF InsFull, IsFull
  <2>8. QED
    BY <2>5, <2>6, <2>7
<1>2. CASE ~InsFull(p)
  BY <1>2, <1>q DEF InsFirst, InsNext, InsSetFirst, LoadCount, StoreCount
<1>3. QED
  BY <1>1, <1>2

(* The steps that write a record or tell the index of it.                  *)
LEMMA WritingSteps ==
  ASSUME Ready, NEW p \in Proc \ dead, Acts(p),
         WrState(p) \/ WrSize(p) \/ WrLo(p) \/ WrHi(p) \/ Index(p)
  PROVE  Store!Next \/ UNCHANGED Store!vars
<1>r. IInv /\ SInv /\ Workable(scenario) /\ Moves(p) /\ Own(p) /\ Valued(p) /\ Single
  BY ActsMove, MovesOwn DEF Ready, SInv
<1>t. /\ call \in [Proc -> Requested] /\ out = [q \in Proc |-> out[q]] /\ p \in Proc
  BY <1>r DEF IInv, Typing
<1>g. Gone' = Gone
  BY <1>r, GoneStays
<1>w. pc[p] \in {"wr_state", "wr_size", "wr_lo", "wr_hi", "index"}
  BY DEF WrState, WrSize, WrLo, WrHi, Index, Goto
<1>o. out[p] = Pending
  BY <1>w, AtWork
<1>1. CASE WrState(p) \/ WrSize(p) \/ WrLo(p)
  <2>1. pc[p] \in {"wr_state", "wr_size", "wr_lo"} /\ call' = call /\ out' = out
    BY <1>1 DEF WrState, WrSize, WrLo, Goto
  <2>2. ~Rewrote(p) /\ ~Indexing(p)
    BY <2>1 DEF Rewrote, Indexing, Indexed, Unindexed, From
  <2>3. QED
    BY <2>1, <2>2, Resting
<1>2. CASE WrHi(p)
  <2>1. pc[p] = "wr_hi"
    BY <1>2 DEF WrHi, Goto
  <2>2. IsOp(p, "insert") \/ IsOp(p, "update")
    BY <1>r, <2>1 DEF IInv, Control, Stands, Reading, Freeing, Counting
  <2>3. CASE IsOp(p, "insert")
    <3>1. ~Rewrote(p) /\ ~Indexing(p)
      BY <2>1, <2>3 DEF Rewrote, Indexing, Indexed, Unindexed, From, IsOp
    <3>2. call' = call /\ out' = out
      BY <1>2, <2>3 DEF WrHi, IsOp
    <3>3. QED
      BY <3>1, <3>2, Resting
  <2>4. CASE IsOp(p, "update")
    <3>1. Rewrote(p)
      <4>1. ~Filled(p)
        BY <2>4 DEF Filled, IsOp
      <4>2. QED
        BY <1>2, <1>r, <4>1, WriteSteps DEF Acts
    <3>2. /\ KeyOf(p) \in Key /\ Vals[KeyOf(p)] \in 0 .. MaxFit - 1
          /\ Vals' = [Vals EXCEPT ![KeyOf(p)] = Vals[KeyOf(p)] + 1]
      BY <1>r, <3>1, ValuesRewrote
    <3>3. Vals[KeyOf(p)] # -1 /\ Vals[KeyOf(p)] < MaxFit
      BY <3>2, Numbers
    <3>4. /\ call' = [call EXCEPT ![p].keys = Tail(call[p].keys),
                                  ![p].found = call[p].found + 1]
          /\ IF Tail(call[p].keys) = <<>>
             THEN out' = [out EXCEPT ![p] = Store!Updated(call[p].found + 1)]
             ELSE out' = out
      <4>1. /\ call' = [call EXCEPT ![p].keys = Tail(call[p].keys), ![p].found = @ + 1]
            /\ IF Tail(call[p].keys) = <<>>
               THEN out' = [out EXCEPT ![p] = Store!Updated(call[p].found + 1)]
               ELSE out' = out
        BY <1>2, <2>4 DEF WrHi, IsOp, KeysLeft, Finish
      <4>2. [[call[p] EXCEPT !.keys = Tail(call[p].keys)] EXCEPT !.found = @ + 1]
            = [[call[p] EXCEPT !.keys = Tail(call[p].keys)]
                 EXCEPT !.found = call[p].found + 1]
        BY <1>t DEF Requested
      <4>3. QED
        BY <1>t, <4>1, <4>2
    <3>5. Store!Update(p)
      BY <1>g, <1>o, <2>4, <3>2, <3>3, <3>4, AsUpdate
    <3>6. QED
      BY <3>5, AsNext
  <2>5. QED
    BY <2>2, <2>3, <2>4
<1>3. CASE Index(p)
  <2>1. pc[p] = "index" /\ call' = call
    BY <1>3 DEF Index
  <2>2. IsOp(p, "insert") \/ IsOp(p, "remove")
    BY <1>r, <2>1 DEF IInv, Control, Stands, Reading, Freeing, Counting, Writing
  <2>3. CASE IsOp(p, "insert")
    <3>1. PK!Total(entries) < Capacity
      BY <1>r, <2>1, <2>3, IndexRoom DEF Taken
    <3>2. out' = [out EXCEPT ![p] = Store!Ok]
      BY <1>3, <2>3, <3>1 DEF Index, IsOp, Abort, Finish
    <3>3. Indexed(p)
      BY <1>3, <1>r, <2>1, <2>3, <3>1, WriteSteps DEF Acts, Unindexed, Aborted, IsOp, Reading
    <3>4. /\ Vals[KeyOf(p)] = -1 /\ call[p].val <= MaxFit
          /\ Vals' = [Vals EXCEPT ![KeyOf(p)] = call[p].val]
          /\ Cardinality(Published) < Capacity
      BY <1>r, <3>3, ValuesIndexed
    <3>5. Store!Cardinality(Store!Present) < Capacity
      BY <1>r, <3>4, PresentCount
    <3>6. Store!Insert(p)
      BY <1>g, <1>o, <2>1, <2>3, <3>2, <3>4, <3>5, AsInsert
    <3>7. QED
      BY <3>6, AsNext
  <2>4. CASE IsOp(p, "remove")
    <3>1. out' = [out EXCEPT ![p] = Store!Ok]
      BY <1>3, <2>4 DEF Index, Abort, Finish
    <3>2. Unindexed(p)
      BY <1>3, <1>r, <2>1, <2>4, WriteSteps DEF Acts, Indexed, Aborted, IsOp, Reading
    <3>3. Vals' = [Vals EXCEPT ![KeyOf(p)] = -1]
      BY <1>r, <3>2, ValuesUnindexed
    <3>4. Store!Remove(p)
      BY <1>g, <1>o, <2>1, <2>4, <3>1, <3>3, AsRemove
    <3>5. QED
      BY <3>4, AsNext
  <2>5. QED
    BY <2>2, <2>3, <2>4
<1>4. QED
  BY <1>1, <1>2, <1>3

(* The steps that read a record.                                           *)
LEMMA ReadingSteps ==
  ASSUME Ready, NEW p \in Proc \ dead, Acts(p),
         RdState(p) \/ RdSize(p) \/ RdLo(p) \/ RdHi(p)
  PROVE  Store!Next \/ UNCHANGED Store!vars
<1>r. IInv /\ SInv /\ Finds
  BY DEF Ready
<1>w. pc[p] \in Reading
  BY DEF RdState, RdSize, RdLo, RdHi, Goto, Reading
<1>o. out[p] = Pending
  BY <1>w, AtWork DEF Reading
<1>c. IsOp(p, "find") \/ IsOp(p, "update") \/ IsOp(p, "iter")
  BY <1>r, <1>w DEF IInv, Control, Stands, Reading, Writing, Counting, Freeing
<1>q. Vals' = Vals /\ Gone' = Gone /\ (call' = call /\ out' = out => UNCHANGED Store!vars)
  <2>1. ~Rewrote(p) /\ ~Indexing(p)
    BY <1>w DEF Rewrote, Indexing, Indexed, Unindexed, From, Reading
  <2>2. QED
    BY <2>1, Resting
<1>k. PICK k \in Key : Complete(k, Idx(p))
  BY <1>w, ReadWhole
<1>i. /\ Idx(p) \in Indices /\ slot[Idx(p)] \in SlotType
      /\ slot[Idx(p)].lo.val \in Nat /\ LenOf(slot[Idx(p)].lo.val) \in Nat
  <2>1. Idx(p) \in Indices
    BY <1>w, ReadWhole
  <2>2. slot[Idx(p)] \in SlotType
    BY <1>r, <2>1 DEF IInv, Typing
  <2>3. slot[Idx(p)].lo.val \in Nat
    BY <2>2 DEF SlotType, Words
  <2>4. QED
    BY <2>1, <2>2, <2>3, Numbers DEF LenOf
<1>1. CASE RdState(p)
  <2>1. slot[Idx(p)].state # "Free"
    BY <1>k DEF Complete
  <2>2. QED
    BY <1>1, <1>q, <2>1 DEF RdState
<1>2. CASE RdSize(p)
  BY <1>2, <1>q DEF RdSize
<1>3. CASE RdLo(p)
  <2>1. local[p].tmp = slot[Idx(p)].size
    BY <1>3, <1>c, <1>r DEF RdLo, SInv, Valued, Finds, Finding
  <2>2. ~(local[p].tmp < LenOf(slot[Idx(p)].lo.val))
    BY <1>i, <1>k, <2>1 DEF Complete
  <2>3. QED
    BY <1>3, <1>q, <2>2 DEF RdLo
<1>4. CASE RdHi(p)
  <2>1. pc[p] = "rd_hi" /\ call' = call
    BY <1>4 DEF RdHi
  <2>2. local[p].lo = slot[Idx(p)].lo /\ local[p].lo = slot[Idx(p)].hi
    BY <1>c, <1>k, <1>r, <2>1 DEF SInv, Valued, Finds, Finding, Complete
  <2>3. ~IsOp(p, "iter") => /\ KeyOf(p) \in Key /\ local[p].lo.key = KeyOf(p)
                            /\ Vals[KeyOf(p)] = local[p].lo.val
                            /\ Vals[KeyOf(p)] # -1
    <3>1. SUFFICES ASSUME ~IsOp(p, "iter")
                   PROVE  /\ KeyOf(p) \in Key /\ local[p].lo.key = KeyOf(p)
                          /\ Vals[KeyOf(p)] = local[p].lo.val /\ Vals[KeyOf(p)] # -1
      OBVIOUS
    <3>2. /\ KeyOf(p) \in Key /\ entries[KeyOf(p)] # <<>>
          /\ entries[KeyOf(p)][1] = Idx(p) /\ Complete(KeyOf(p), Idx(p))
      BY <1>w, <3>1, ReadWhole
    <3>3. Vals[KeyOf(p)] = slot[Idx(p)].hi.val /\ Vals[KeyOf(p)] # -1
      BY <1>r, <3>2, Values
    <3>4. QED
      BY <2>2, <3>2, <3>3 DEF Complete
  <2>4. CASE IsOp(p, "find")
    <3>1. ~IsOp(p, "iter")
      BY <2>4 DEF IsOp
    <3>2. out' = [out EXCEPT ![p] = Store!Found(local[p].lo.val)]
      BY <1>4, <2>2, <2>3, <2>4, <3>1 DEF RdHi, Return, Finish
    <3>3. out' = [out EXCEPT ![p] = IF Vals[KeyOf(p)] = -1 THEN Store!NotFound
                                    ELSE Store!Found(Vals[KeyOf(p)])]
      BY <2>3, <3>1, <3>2
    <3>4. Store!Find(p)
      BY <1>o, <1>q, <2>1, <2>4, <3>3, AsFind
    <3>5. QED
      BY <3>4, AsNext
  <2>5. CASE IsOp(p, "iter")
    BY <1>4, <1>q, <2>1, <2>5 DEF RdHi, IsOp
  <2>6. CASE IsOp(p, "update") /\ ~Fits(local[p].lo.val + 1)
    <3>1. ~IsOp(p, "iter") /\ ~IsOp(p, "find")
      BY <2>6 DEF IsOp
    <3>2. out' = [out EXCEPT ![p] = Store!RecordSizeTooBig]
      BY <1>4, <2>6, <3>1 DEF RdHi, Abort, Finish
    <3>3. Vals[KeyOf(p)] >= MaxFit
      <4>1. local[p].lo.val \in Nat
        BY <1>i, <2>2
      <4>2. local[p].lo.val >= MaxFit
        BY <2>6, <4>1, Numbers DEF Fits
      <4>3. QED
        BY <2>3, <3>1, <4>2
    <3>4. Store!Update(p)
      BY <1>o, <1>q, <2>1, <2>3, <2>6, <3>1, <3>2, <3>3, AsUpdate
    <3>5. QED
      BY <3>4, AsNext
  <2>7. CASE IsOp(p, "update") /\ Fits(local[p].lo.val + 1)
    BY <1>4, <1>q, <2>1, <2>7 DEF RdHi, IsOp
  <2>8. QED
    BY <1>c, <2>4, <2>5, <2>6, <2>7
<1>5. QED
  BY <1>1, <1>2, <1>3, <1>4

(* Whoever counts or iterates is alone: what the header says is what the   *)
(* store holds.                                                            *)
LEMMA Alone ==
  ASSUME Ready, NEW p \in Proc \ dead, pc[p] # "idle", IsOp(p, "count") \/ IsOp(p, "iter")
  PROVE  /\ \A q \in Proc : ~Taken(q) /\ ~Freed(q)
         /\ header.count = Store!Cardinality(Store!Present)
<1>r. IInv /\ SInv /\ Workable(scenario) /\ Orderly(scenario)
  BY DEF Ready
<1>1. ASSUME NEW q \in Proc \ {p} PROVE pc[q] = "idle"
  <2>1. CASE IsOp(p, "iter")
    BY <1>r, <2>1, Solo DEF IInv
  <2>2. CASE IsOp(p, "count")
    <3>1. PICK c \in scenario.calls[p] : c.op = "count"
      BY <1>r, <2>2 DEF IInv, Control, Asked, IsOp
    <3>2. scenario.calls[q] = {}
      BY <1>r, <3>1 DEF Orderly
    <3>3. QED
      BY <1>r, <3>2 DEF IInv, Control, Asked
  <2>3. QED
    BY <2>1, <2>2
<1>2. \A q \in Proc : ~Taken(q) /\ ~Freed(q)
  <2>1. ~Taken(p) /\ ~Freed(p)
    BY DEF Taken, Freed, IsOp
  <2>2. \A q \in Proc \ {p} : ~Taken(q) /\ ~Freed(q)
    BY <1>1 DEF Taken, Freed, Counting, Writing
  <2>3. QED
    BY <2>1, <2>2
<1>3. Cardinality(Published) = header.count
  BY <1>2, <1>r, Settled
<1>4. QED
  BY <1>2, <1>3, <1>r, PresentCount DEF SInv

(* An iteration that ends has yielded every key, and each once.            *)
LEMMA YieldsAll ==
  ASSUME Ready, NEW p \in Proc \ dead, IsOp(p, "iter"), pc[p] = "it_test",
         Len(local[p].seen) >= header.count
  PROVE  /\ Seqs!ToSet(local[p].seen) = Store!Present
         /\ Len(local[p].seen) = Store!Cardinality(Store!Present)
<1>r. IInv /\ SInv /\ Single
  BY DEF Ready, SInv
<1>1. /\ \A q \in Proc : ~Taken(q) /\ ~Freed(q)
      /\ header.count = Store!Cardinality(Store!Present)
  BY Alone
<1>2. /\ \A i \in Indices : slot[i].state = "Occupied" <=> i \in Published
      /\ Cardinality(Published) = header.count
  BY <1>1, <1>r, Settled
<1>3. IsFiniteSet(Published) /\ Published \subseteq Indices
  BY <1>r, PublishedSlots, Numbers, FS_Subset DEF IInv
<1>4. Passed(Idx(p)) \subseteq Published
  BY <1>2 DEF Passed
<1>5. Len(local[p].seen) = Cardinality(Passed(Idx(p)))
  BY <1>r DEF IInv, Knowledge, Iteration
<1>6. /\ Cardinality(Passed(Idx(p))) <= Cardinality(Published)
      /\ Cardinality(Published) \in Nat /\ Cardinality(Passed(Idx(p))) \in Nat
      /\ Cardinality(Passed(Idx(p))) = Cardinality(Published)
           => Passed(Idx(p)) = Published
  BY <1>3, <1>4, FS_Subset, FS_CardinalityType
<1>7. Cardinality(Passed(Idx(p))) = Cardinality(Published)
  BY <1>2, <1>5, <1>6
<1>8. Passed(Idx(p)) = Published
  BY <1>6, <1>7
<1>9. {local[p].seen[j] : j \in DOMAIN local[p].seen} = {slot[i].lo.key : i \in Published}
  <2>1. Listing(p)
    BY <1>r DEF SInv
  <2>2. {local[p].seen[j] : j \in DOMAIN local[p].seen}
         = {slot[i].lo.key : i \in Passed(Idx(p))}
    BY <2>1 DEF Listing
  <2>3. QED
    BY <1>8, <2>2
<1>10. {slot[i].lo.key : i \in Published} = {k \in Key : entries[k] # <<>>}
  <2>1. ASSUME NEW i \in Published
        PROVE  slot[i].lo.key \in Key /\ entries[slot[i].lo.key] # <<>>
    <3>1. PICK k \in Key : \E j \in DOMAIN entries[k] : entries[k][j] = i
      BY <1>r, PublishedSlots DEF IInv
    <3>2. Recorded(k, i)
      BY <1>r, <3>1 DEF IInv, Contents
    <3>3. entries[k] # <<>>
      BY <1>r, <3>1 DEF IInv, Typing
    <3>4. QED
      BY <3>2, <3>3 DEF Recorded
  <2>2. ASSUME NEW k \in Key, entries[k] # <<>>
        PROVE  \E i \in Published : slot[i].lo.key = k
    <3>1. 1 \in DOMAIN entries[k]
      BY <1>r, <2>2, Values
    <3>2. entries[k][1] \in Published /\ Recorded(k, entries[k][1])
      BY <1>r, <3>1, PublishedSlots DEF IInv, Contents
    <3>3. QED
      BY <3>2 DEF Recorded
  <2>3. QED
    BY <2>1, <2>2
<1>11. Seqs!ToSet(local[p].seen) = {local[p].seen[j] : j \in DOMAIN local[p].seen}
  BY DEF Seqs!ToSet
<1>12. QED
  BY <1>1, <1>2, <1>5, <1>7, <1>9, <1>10, <1>11, <1>r, Presents

(* The steps that count, iterate and free a slot.                          *)
LEMMA RemainingSteps ==
  ASSUME Ready, NEW p \in Proc \ dead, Acts(p),
         \/ ReadCount(p) \/ IterTest(p) \/ IterSkip(p)
         \/ RmFirst(p) \/ RmState(p) \/ RmSize(p) \/ RmSetFirst(p)
  PROVE  Store!Next \/ UNCHANGED Store!vars
<1>r. IInv /\ SInv
  BY DEF Ready
<1>w. pc[p] \in {"count", "it_test", "it_skip"} \cup Freeing
  BY DEF ReadCount, IterTest, IterSkip, RmFirst, RmState, RmSize, RmSetFirst, Goto, Freeing
<1>o. out[p] = Pending
  BY <1>w, AtWork DEF Freeing
<1>q. Vals' = Vals /\ Gone' = Gone /\ (call' = call /\ out' = out => UNCHANGED Store!vars)
  <2>1. ~Rewrote(p) /\ ~Indexing(p)
    BY <1>w DEF Rewrote, Indexing, Indexed, Unindexed, From, Freeing
  <2>2. QED
    BY <2>1, Resting
<1>1. CASE ReadCount(p)
  <2>1. /\ pc[p] = "count" /\ call' = call
        /\ out' = [out EXCEPT ![p] = Store!Counted(header.count)]
    BY <1>1 DEF ReadCount, Return, Finish
  <2>2. IsOp(p, "count")
    BY <1>r, <2>1 DEF IInv, Control, Stands, Reading, Writing, Counting, Freeing
  <2>3. header.count = Store!Cardinality(Store!Present)
    BY <2>1, <2>2, Alone
  <2>4. Store!Count(p)
    BY <1>o, <1>q, <2>1, <2>2, <2>3, AsCount
  <2>5. QED
    BY <2>4, AsNext
<1>2. CASE IterTest(p)
  <2>1. pc[p] = "it_test" /\ call' = call
    BY <1>2 DEF IterTest
  <2>2. IsOp(p, "iter")
    BY <1>r, <2>1 DEF IInv, Control, Stands, Reading, Writing, Counting, Freeing
  <2>3. CASE Len(local[p].seen) >= header.count
    <3>1. out' = [out EXCEPT ![p] = Store!Yielded(Seqs!ToSet(local[p].seen),
                                                  Len(local[p].seen))]
      BY <1>2, <2>3 DEF IterTest, ReturnSeen, Return, Finish
    <3>2. Store!Iterate(p)
      BY <1>o, <1>q, <2>1, <2>2, <2>3, <3>1, YieldsAll, AsIterate
    <3>3. QED
      BY <3>2, AsNext
  <2>4. CASE ~(Len(local[p].seen) >= header.count)
    BY <1>2, <1>q, <2>1, <2>4 DEF IterTest
  <2>5. QED
    BY <2>3, <2>4
<1>3. CASE IterSkip(p) \/ RmFirst(p) \/ RmState(p) \/ RmSize(p) \/ RmSetFirst(p)
  BY <1>3, <1>q DEF IterSkip, RmFirst, RmState, RmSize, RmSetFirst
<1>4. QED
  BY <1>1, <1>2, <1>3

(* A death in the middle of an insertion may cost the room of a record.    *)
LEMMA Dying ==
  ASSUME Ready, NEW p \in Proc \ dead, Crash(p)
  PROVE  Store!Next \/ UNCHANGED Store!vars
<1>1. /\ slot' = slot /\ entries' = entries /\ pc' = pc /\ call' = call /\ out' = out
      /\ dead' = dead \cup {p}
  BY DEF Crash, Shared
<1>2. Vals' = Vals
  BY <1>1 DEF Vals, PK!Has
<1>3. \A q : Unpublished(q)' <=> Unpublished(q)
  BY <1>1 DEF Unpublished, Inserting
<1>4. p \notin Gone
  BY DEF Gone
<1>5. CASE Unpublished(p)
  <2>1. Gone' = Gone \cup {p}
    BY <1>1, <1>3, <1>5 DEF Gone
  <2>2. IsOp(p, "insert") /\ out[p] = Pending
    BY <1>5, AtWork DEF Unpublished, Inserting, IsOp
  <2>3. Store!Die(p)
    BY <1>1, <1>2, <1>4, <2>1, <2>2, AsDie
  <2>4. QED
    BY <2>3, AsNext
<1>6. CASE ~Unpublished(p)
  <2>1. Gone' = Gone
    BY <1>1, <1>3, <1>6 DEF Gone
  <2>2. QED
    BY <1>1, <1>2, <2>1, AsRests
<1>7. QED
  BY <1>5, <1>6

-----------------------------------------------------------------------------
(* The refinement.                                                         *)

(* The table starts as the store does.                                     *)
LEMMA StartsAsStore ==
  ASSUME Init
  PROVE  Store!Init
<1>i. IInv
  BY InitIInv
<1>1. ASSUME NEW k \in Key
      PROVE  Vals[k] = IF \E i \in DOMAIN Preload : Preload[i] = k THEN 0 ELSE -1
  <2>d. DOMAIN Preload = 1 .. Len(Preload) /\ Len(Preload) \in 0 .. Capacity
    BY TableAssumption, InitEntries
  <2>1. CASE entries[k] = <<>>
    <3>1. ASSUME NEW i \in DOMAIN Preload, Preload[i] = k PROVE FALSE
      <4>1. i \in {x \in 1 .. Len(Preload) : Preload[x] = k}
        BY <2>d, <3>1
      <4>2. entries[k] = <<(CHOOSE x \in {y \in 1 .. Len(Preload) : Preload[y] = k} : TRUE) - 1>>
        BY <4>1 DEF Init
      <4>3. QED
        BY <2>1, <4>2
    <3>2. QED
      BY <1>i, <2>1, <3>1, Values
  <2>2. CASE entries[k] # <<>>
    <3>1. /\ 1 \in DOMAIN entries[k] /\ entries[k][1] \in Indices
          /\ Vals[k] = slot[entries[k][1]].hi.val
      BY <1>i, <2>2, Values
    <3>2. PICK i \in 1 .. Len(Preload) : Preload[i] = k /\ entries[k][1] = i - 1
      BY <3>1, InitEntries
    <3>3. slot[entries[k][1]].hi.val = 0
      <4>1. i - 1 < Len(Preload)
        BY <2>d, <3>2
      <4>2. slot[i - 1].hi = Word(Preload[(i - 1) + 1], 0)
        BY <3>1, <3>2, <4>1 DEF Init
      <4>3. QED
        BY <3>2, <4>2 DEF Word
    <3>4. QED
      BY <2>d, <3>1, <3>2, <3>3
  <2>3. QED
    BY <2>1, <2>2
<1>2. Vals = [k \in Key |-> IF \E i \in DOMAIN Preload : Preload[i] = k THEN 0 ELSE -1]
  BY <1>1 DEF Vals
<1>3. Gone = {}
  BY DEF Init, Gone
<1>4. /\ call = [p \in Proc |-> [op |-> "none", keys |-> <<>>, val |-> 0, found |-> 0]]
      /\ out = [p \in Proc |-> Store!Ok]
  BY DEF Init
<1>5. QED
  BY <1>2, <1>3, <1>4 DEF Store!Init, Store!Absent, Vals, Gone

(* A step of the table is one of the store, or none.                       *)
LEMMA StepsAsStore ==
  ASSUME Ready, [Next]_vars
  PROVE  [Store!Next]_(Store!vars)
<1>1. CASE UNCHANGED vars
  <2>1. /\ slot' = slot /\ entries' = entries /\ pc' = pc /\ call' = call
        /\ out' = out /\ dead' = dead
    BY <1>1 DEF vars
  <2>2. Vals' = Vals
    BY <2>1 DEF Vals, PK!Has
  <2>3. Gone' = Gone
    BY <2>1 DEF Gone, Unpublished, Inserting
  <2>4. QED
    BY <2>1, <2>2, <2>3, AsRests
<1>2. CASE Next
  <2>1. PICK p \in Proc \ dead : Acts(p) \/ Crash(p)
    BY <1>2 DEF Next, Acts
  <2>2. CASE Crash(p)
    BY <2>2, Dying
  <2>3. CASE Acts(p)
    BY <2>3, CallingSteps, InsertingSteps, WritingSteps, ReadingSteps, RemainingSteps
    DEF Acts, Step
  <2>4. QED
    BY <2>1, <2>2, <2>3
<1>3. QED
  BY <1>1, <1>2

(* Calls take effect one at a time, each between its start and its return, *)
(* as long as one process at a time removes or iterates, nobody updates    *)
(* what another looks for, and every record has its keeper (table.rs, the  *)
(* calls' documentation).                                                  *)
THEOREM ImplementsStore ==
  ASSUME \A s \in Scenarios : Workable(s) /\ ReadersApart(s) /\ Orderly(s)
  PROVE  Spec => RefinesStore
<1>h. IInv => Workable(scenario) /\ ReadersApart(scenario) /\ Orderly(scenario)
  BY DEF IInv, Typing
<1>1. Init => SInv /\ Finds
  <2>1. Init => Finds
    BY DEF Init, Finds, Finding, IsOp, Answers, Store!Ok
  <2>2. QED
    BY <2>1, InitSInv
<1>2. IInv /\ SInv /\ Finds /\ [Next]_vars => (SInv /\ Finds)'
  BY <1>h, SInvStep, FindsStep
<1>3. Init => Store!Init
  BY StartsAsStore
<1>4. IInv /\ SInv /\ Finds /\ [Next]_vars => [Store!Next]_(Store!vars)
  BY <1>h, StepsAsStore DEF Ready
<1>5. Spec => []IInv
  BY Invariance
<1>6. QED
  BY <1>1, <1>2, <1>3, <1>4, <1>5, PTL DEF Spec, RefinesStore, Store!Spec
=============================================================================
