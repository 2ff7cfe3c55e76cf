--------------------------- MODULE LifecycleProofs ---------------------------
(***************************************************************************)
(* Proofs about module Lifecycle, for any number of processes, creations,  *)
(* faults and deaths.                                                      *)
(***************************************************************************)
EXTENDS Lifecycle, TLAPS

(* Who is where.  A process that owns a handle has one that leads to four  *)
(* objects; what becomes of them is another matter.                        *)
Making == {"truncate", "map", "header", "slots", "semget", "raise"}
Creating(p) == pc[p] \in {"shm_new"} \cup Making
Opening(p) == pc[p] \in {"shm_open", "map_open", "check", "sem_open"}
Owns(p) == InDestroy(p) \/ out[p] \in {"created", "opened", "destroyed"}

Contents == {"none", "empty", "zero", "header", "ready"}
Handles == [Proc -> [shm : Objects, sem : Objects]]

(* The types, and that a process in a call has returned nothing yet.       *)
Typing ==
  /\ shm \in Objects /\ sem \in Objects
  /\ content \in [Half -> [Creation -> Contents]]
  /\ creates \in 0 .. MaxCreates
  /\ pc \in [Proc -> PCs]
  /\ half \in [Proc -> Half]
  /\ mine \in Handles
  /\ out \in [Proc -> Errors \cup {"none", "created", "opened", "destroyed"}]
  /\ faults \in 0 .. MaxFaults /\ tidy \in BOOLEAN
  /\ \A p \in Proc : out[p] # "none" => pc[p] = "idle"

(* Creations are numbered in the order of their beginnings, and nothing    *)
(* bears a number that has not been given yet.                             *)
Numbered ==
  /\ \A h \in Half : \A n \in Creation : n > creates => content[h][n] = "none"
  /\ \A h \in Half : shm[h] <= creates /\ sem[h] <= creates
  /\ \A p \in Proc, h \in Half : mine[p].shm[h] <= creates /\ mine[p].sem[h] <= creates
  /\ \A p, q \in Proc : Creating(p) /\ Creating(q) /\ Number(p) = Number(q) => p = q

(* Has the creator p not come to the set of half h?                        *)
SetPending(p, h) ==
  /\ Creating(p)
  /\ ~(half[p] = "index" /\ h = "table")
  /\ ~(half[p] = h /\ pc[p] = "raise")

(* How far the creator of each table has come, by its pc.                  *)
Reached(p) ==
  CASE pc[p] = "shm_new" -> "none"
    [] pc[p] = "truncate" -> "empty"
    [] pc[p] \in {"map", "header"} -> "zero"
    [] pc[p] = "slots" -> IF half[p] = "table" THEN "header" ELSE "zero"
    [] OTHER -> "ready"

Creators ==
  \A p \in Proc : Creating(p) =>
    /\ Number(p) # None
    /\ content[half[p]][Number(p)] = Reached(p)
    /\ pc[p] = "header" => half[p] = "table"
    /\ pc[p] # "shm_new" => mine[p].shm[half[p]] = Number(p)
    /\ half[p] = "table" => content["index"][Number(p)] = "none"
    /\ half[p] = "index" => /\ content["table"][Number(p)] = "ready"
                            /\ mine[p].sem["table"] = Number(p)
    /\ pc[p] = "raise" => mine[p].sem[half[p]] = Number(p)
    /\ \A h \in Half : SetPending(p, h) =>
         sem[h] # Number(p) /\ \A q \in Proc : mine[q].sem[h] # Number(p)

(* An object somebody has is one that was made.                            *)
Has(p, h) == mine[p].shm[h] # None /\ content[h][mine[p].shm[h]] # "none"

Holders ==
  /\ \A h \in Half : shm[h] # None => content[h][shm[h]] # "none"
  /\ \A h \in Half : sem[h] # None => content[h][sem[h]] = "ready"
  /\ \A p \in Proc, h \in Half : mine[p].sem[h] # None
                                   => content[h][mine[p].sem[h]] = "ready"
  /\ \A p \in Proc : Owns(p) => \A h \in Half : Has(p, h) /\ mine[p].sem[h] # None
  /\ \A p \in Proc : Opening(p) =>
       /\ pc[p] # "shm_open" => Has(p, half[p])
       /\ half[p] = "index" => Has(p, "table") /\ mine[p].sem["table"] # None
       /\ pc[p] = "check" => half[p] = "table"

(* What destroy has removed so far stays removed.                          *)
Gone(p, h) == shm[h] # mine[p].shm[h] /\ sem[h] # mine[p].sem[h]

Removals ==
  \A p \in Proc :
    /\ pc[p] = "rmid" => shm[half[p]] # mine[p].shm[half[p]]
    /\ InDestroy(p) /\ half[p] = "index" => Gone(p, "table")
    /\ out[p] = "destroyed" => \A h \in Half : Gone(p, h)

(* HalfMadeHasMaker with the half the maker is at.                         *)
Makers ==
  \A h \in Half : shm[h] # None /\ content[h][shm[h]] # "ready" =>
    \E p \in Proc : /\ mine[p].shm[h] = shm[h]
                    /\ \/ pc[p] = "dead"
                       \/ pc[p] \in {"truncate", "map", "header", "slots"} /\ half[p] = h

(* The names while a tidy destroy is under way.                            *)
HalfDestroyed(p) ==
  LET t == half[p] = "table" IN
  /\ shm["table"] = IF t /\ pc[p] = "unlink" THEN Number(p) ELSE None
  /\ sem["table"] = IF t THEN Number(p) ELSE None
  /\ shm["index"] = IF t \/ pc[p] = "unlink" THEN Number(p) ELSE None
  /\ sem["index"] = Number(p)

(* And while none is.                                                      *)
Consistent ==
  /\ \A h \in Half : sem[h] # None => shm[h] = sem[h]
  /\ shm["index"] # None => shm["index"] = shm["table"]

CreatorNamed(p) ==
  /\ half[p] = "index" => shm["table"] = Number(p) /\ sem["table"] = Number(p)
  /\ pc[p] # "shm_new" => shm[half[p]] = Number(p)
  /\ pc[p] = "raise" => sem[half[p]] = Number(p)

Headed(p) == content["table"][Number(p)] \in {"header", "ready"}

OpenerNamed(p) ==
  /\ (pc[p] # "shm_open" \/ half[p] = "index") /\ Headed(p) => shm["table"] = Number(p)
  /\ pc[p] = "sem_open" => Headed(p)
  /\ half[p] = "index" => mine[p].sem["table"] = Number(p)
  /\ half[p] = "index" /\ pc[p] # "shm_open" => mine[p].shm["index"] = Number(p)

Entire(p) ==
  \A h \in Half : mine[p].shm[h] = Number(p) /\ mine[p].sem[h] = Number(p)

NoDestroy == \A p \in Proc : ~InDestroy(p)

Tidy == tidy =>
  /\ \A p \in Proc : Holds(p) \/ InDestroy(p) => Entire(p)
  /\ \A p \in Proc : InDestroy(p) =>
       HalfDestroyed(p) /\ \A q \in Proc : q # p => ~InCall(q)
  /\ NoDestroy =>
       /\ Consistent
       /\ \A p \in Proc : Creating(p) => CreatorNamed(p)
       /\ \A p \in Proc : Opening(p) => OpenerNamed(p)

(* A table that is not whole has a creator at work on it.                  *)
Peaceful == tidy /\ faults = 0 /\ NoDestroy /\ \A p \in Proc : pc[p] # "dead"

AtWork == Peaceful /\ shm["table"] # None =>
  \/ \A h \in Half : shm[h] = shm["table"] /\ sem[h] = shm["table"]
  \/ \E p \in Proc : /\ Creating(p) /\ Number(p) = shm["table"]
                     /\ pc[p] # "shm_new" \/ half[p] = "index"

(* Whether the sets that are around have been raised.  The set of an index *)
(* is made when that of its table has been; the creator is done when both  *)
(* have been, and until it is, the set of the index is its concern.        *)
SetAround(n) == sem["index"] = n \/ \E p \in Proc : mine[p].sem["index"] = n

Risen ==
  /\ raised \in [Half -> [Creation -> BOOLEAN]]
  /\ \A p \in Proc : Creating(p) /\ half[p] = "index" => raised["table"][Number(p)]
  /\ \A p \in Proc : out[p] = "created" => \A h \in Half : raised[h][Number(p)]
  /\ \A n \in Creation : SetAround(n) =>
       /\ raised["table"][n]
       /\ tidy => raised["index"][n] \/ IndexUnraised(n)

IInv == /\ Typing /\ Numbered /\ Creators /\ Holders /\ Removals /\ Makers
        /\ Tidy /\ AtWork

-----------------------------------------------------------------------------
(* What the steps come to.  Their effect on handles and contents is stated *)
(* object by object, and all the calls that fail without a trace are one   *)
(* kind of step.                                                           *)

Turn(p, there, h, r) ==
  /\ pc' = [pc EXCEPT ![p] = there]
  /\ half' = [half EXCEPT ![p] = h]
  /\ out' = [out EXCEPT ![p] = r]

Leads(p, s, t) ==
  /\ \A q \in Proc : q # p => mine'[q] = mine[q]
  /\ \A k \in Half : mine'[p].shm[k] = s[k] /\ mine'[p].sem[k] = t[k]

Filled(h, n, c) ==
  \A k \in Half, m \in Creation :
    content'[k][m] = IF k = h /\ m = n THEN c ELSE content[k][m]

Without == [h \in Half |-> None]

(* A call of create, open or destroy begins, or a handle goes.             *)
Created(p) ==
  LET n == creates + 1 IN
  /\ pc[p] = "idle" /\ out[p] \notin {"created", "opened"}
  /\ n \in Creation /\ creates' = n
  /\ Turn(p, "shm_new", "table", "none")
  /\ Leads(p, [Without EXCEPT !["table"] = n], Without)
  /\ tidy' = (tidy /\ NoDestroy)
  /\ UNCHANGED <<shm, sem, content, faults>>

Looked(p) ==
  /\ pc[p] = "idle" /\ out[p] \notin {"created", "opened"}
  /\ Turn(p, "shm_open", "table", "none")
  /\ Leads(p, Without, Without)
  /\ tidy' = (tidy /\ NoDestroy)
  /\ UNCHANGED <<shm, sem, content, creates, faults>>

Doomed(p) ==
  /\ Holds(p)
  /\ Turn(p, "unlink", "table", "none")
  /\ tidy' = (tidy /\ ~Stale(p) /\ \A q \in Proc : ~InCall(q))
  /\ UNCHANGED <<shm, sem, content, mine, creates, faults>>

Dropped(p) ==
  /\ Holds(p)
  /\ Turn(p, "idle", half[p], "none")
  /\ Leads(p, Without, Without)
  /\ UNCHANGED <<shm, sem, content, creates, faults, tidy>>

Died(p) ==
  /\ InCall(p)
  /\ Turn(p, "dead", half[p], out[p])
  /\ tidy' = (tidy /\ ~InDestroy(p))
  /\ UNCHANGED <<shm, sem, content, mine, creates, faults>>

(* A call fails and leaves everything as it was, or takes a name back.     *)
Refused(p) ==
  LET h == half[p] IN
  /\ \/ pc[p] = "shm_new" /\ shm[h] # None
     \/ pc[p] = "semget" /\ (sem[h] # None \/ faults' = faults + 1)
     \/ pc[p] \in {"raise", "rmid"} /\ sem[h] # mine[p].sem[h]
     \/ pc[p] = "unlink" /\ shm[h] = None
     \/ Opening(p)
  /\ \E r \in Errors : Turn(p, "idle", h, r)
  /\ faults' \in {faults, faults + 1}
  /\ UNCHANGED <<shm, sem, content, mine, creates, tidy>>

GaveUp(p) ==
  /\ pc[p] \in {"truncate", "map"}
  /\ \E r \in Errors : Turn(p, "idle", half[p], r)
  /\ shm' = [shm EXCEPT ![half[p]] = None]
  /\ faults' = faults + 1
  /\ UNCHANGED <<sem, content, mine, creates, tidy>>

(* create makes progress.                                                  *)
Named(p) ==
  LET h == half[p] IN
  /\ pc[p] = "shm_new" /\ shm[h] = None
  /\ Turn(p, "truncate", h, out[p])
  /\ shm' = [shm EXCEPT ![h] = Number(p)]
  /\ Leads(p, [mine[p].shm EXCEPT ![h] = Number(p)], mine[p].sem)
  /\ Filled(h, Number(p), "empty")
  /\ UNCHANGED <<sem, creates, faults, tidy>>

Wrote(p) ==
  /\ \E k \in {<<"truncate", "map", "zero">>, <<"header", "slots", "header">>,
               <<"slots", "semget", "ready">>} :
       /\ pc[p] = k[1]
       /\ Turn(p, k[2], half[p], out[p])
       /\ Filled(half[p], Number(p), k[3])
  /\ UNCHANGED <<shm, sem, mine, creates, faults, tidy>>

WentOn(p) ==
  LET h == half[p] IN
  /\ \/ pc[p] = "map" /\ Turn(p, IF h = "table" THEN "header" ELSE "slots", h, out[p])
     \/ /\ pc[p] = "map_open"
        /\ Turn(p, IF h = "table" THEN "check" ELSE "sem_open", h, out[p])
     \/ pc[p] = "check" /\ Headed(p) /\ Turn(p, "sem_open", h, out[p])
  /\ UNCHANGED <<shm, sem, content, mine, creates, faults, tidy>>

SetMade(p) ==
  LET h == half[p] IN
  /\ pc[p] = "semget" /\ sem[h] = None
  /\ Turn(p, "raise", h, out[p])
  /\ sem' = [sem EXCEPT ![h] = Number(p)]
  /\ Leads(p, mine[p].shm, [mine[p].sem EXCEPT ![h] = Number(p)])
  /\ UNCHANGED <<shm, content, creates, faults, tidy>>

Raised(p) ==
  /\ pc[p] = "raise" /\ sem[half[p]] = mine[p].sem[half[p]]
  /\ \/ half[p] = "table" /\ Turn(p, "shm_new", "index", out[p])
     \/ half[p] = "index" /\ Turn(p, "idle", "index", "created")
  /\ UNCHANGED <<shm, sem, content, mine, creates, faults, tidy>>

(* open makes progress.                                                    *)
Found(p) ==
  LET h == half[p] IN
  /\ pc[p] = "shm_open" /\ shm[h] # None
  /\ Turn(p, "map_open", h, out[p])
  /\ Leads(p, [mine[p].shm EXCEPT ![h] = shm[h]], mine[p].sem)
  /\ UNCHANGED <<shm, sem, content, creates, faults, tidy>>

SetFound(p) ==
  LET h == half[p] IN
  /\ pc[p] = "sem_open" /\ sem[h] # None
  /\ Leads(p, mine[p].shm, [mine[p].sem EXCEPT ![h] = sem[h]])
  /\ \/ h = "table" /\ Turn(p, "shm_open", "index", out[p])
     \/ h = "index" /\ Turn(p, "idle", "index", "opened")
  /\ UNCHANGED <<shm, sem, content, creates, faults, tidy>>

(* destroy makes progress.                                                 *)
Unnamed(p) ==
  LET h == half[p] IN
  /\ pc[p] = "unlink" /\ shm[h] # None
  /\ Turn(p, "rmid", h, out[p])
  /\ shm' = [shm EXCEPT ![h] = None]
  /\ UNCHANGED <<sem, content, mine, creates, faults, tidy>>

SetRemoved(p) ==
  LET h == half[p] IN
  /\ pc[p] = "rmid" /\ sem[h] = mine[p].sem[h]
  /\ sem' = [sem EXCEPT ![h] = None]
  /\ \/ h = "table" /\ Turn(p, "unlink", "index", out[p])
     \/ h = "index" /\ Turn(p, "idle", "index", "destroyed")
  /\ UNCHANGED <<shm, content, mine, creates, faults, tidy>>

(* What becomes of the semaphores in a step.                               *)
Rises(p) ==
  raised' = IF Raised(p) THEN [raised EXCEPT ![half[p]][Number(p)] = TRUE] ELSE raised

Step(p) ==
  \/ Created(p) \/ Looked(p) \/ Doomed(p) \/ Dropped(p) \/ Died(p)
  \/ Refused(p) \/ GaveUp(p)
  \/ Named(p) \/ Wrote(p) \/ WentOn(p) \/ SetMade(p) \/ Raised(p)
  \/ Found(p) \/ SetFound(p)
  \/ Unnamed(p) \/ SetRemoved(p)

(* One object of one handle changes (block.rs and semaphore.rs).           *)
LEMMA MineShm ==
  ASSUME Typing, NEW p \in Proc, NEW h \in Half, NEW n \in {None} \cup Creation,
         mine' = [mine EXCEPT ![p].shm[h] = n]
  PROVE  mine' \in Handles /\ Leads(p, [mine[p].shm EXCEPT ![h] = n], mine[p].sem)
BY DEF Typing, Handles, Leads, Objects

(* So does one set.                                                        *)
LEMMA MineSem ==
  ASSUME Typing, NEW p \in Proc, NEW h \in Half, NEW n \in {None} \cup Creation,
         mine' = [mine EXCEPT ![p].sem[h] = n]
  PROVE  mine' \in Handles /\ Leads(p, mine[p].shm, [mine[p].sem EXCEPT ![h] = n])
BY DEF Typing, Handles, Leads, Objects

(* A call begins with a handle that leads nowhere.                         *)
LEMMA MineNothing ==
  ASSUME Typing, NEW p \in Proc, mine' = [mine EXCEPT ![p] = Nothing]
  PROVE  mine' \in Handles /\ Leads(p, Without, Without)
BY DEF Typing, Handles, Leads, Objects, Nothing, Without

(* A creation begins with its number.                                      *)
LEMMA MineNew ==
  ASSUME Typing, NEW p \in Proc, NEW n \in Creation,
         mine' = [mine EXCEPT ![p] = [Nothing EXCEPT !.shm["table"] = n]]
  PROVE  mine' \in Handles /\ Leads(p, [Without EXCEPT !["table"] = n], Without)
BY DEF Typing, Handles, Leads, Objects, Nothing, Without, Half

(* One block is written to.                                                *)
LEMMA ContentSet ==
  ASSUME Typing, NEW h \in Half, NEW n \in Creation, NEW c \in Contents,
         content' = [content EXCEPT ![h][n] = c]
  PROVE  content' \in [Half -> [Creation -> Contents]] /\ Filled(h, n, c)
BY DEF Typing, Filled

(* An errno becomes an error of the library (error.rs).                    *)
LEMMA ErrorsAreErrors ==
  \A e : /\ FromShmError(e) \in Errors /\ FromFtruncateError(e) \in Errors
         /\ FromSemgetError(e) \in Errors /\ FromSemopError(e) \in Errors
BY DEF FromShmError, FromFtruncateError, FromSemgetError, FromSemopError, Errors

(* Whoever creates has a number, and from the first name on an object.     *)
LEMMA CreatorsNumber ==
  ASSUME IInv, NEW p \in Proc, Creating(p)
  PROVE  /\ Number(p) \in Creation
         /\ pc[p] # "shm_new" => mine[p].shm[half[p]] = Number(p)
BY DEF IInv, Typing, Handles, Objects, Half, Creators, Number, None

(* What an action does to the types and which kind of step it is.          *)
Comes(p) == Typing' /\ Step(p)

(* Table::create_with_size (table.rs and block.rs).                        *)
LEMMA CreateSteps ==
  ASSUME IInv, NEW p \in Proc
  PROVE  /\ Create(p) \/ ShmNew(p) \/ Truncate(p) \/ Map(p) => Comes(p)
         /\ Header(p) \/ Slots(p) \/ Semget(p) \/ Raise(p) => Comes(p)
<1>t. Typing /\ half[p] \in Half
  BY DEF IInv, Typing
<1> USE DEF Comes, Step, Turn, Goto, Return
<1>1. ASSUME Create(p) PROVE Comes(p)
  <2>1. creates + 1 \in Creation
    BY <1>1, <1>t, LifecycleAssumption DEF Create, Creation, Typing
  <2>2. mine' \in Handles /\ Leads(p, [Without EXCEPT !["table"] = creates + 1], Without)
    BY <1>1, <1>t, <2>1, MineNew DEF Create
  <2>3. Created(p)
    BY <1>1, <2>1, <2>2, <1>t DEF Create, Created, Begin, Holds, NoDestroy, Names, Typing
  <2>4. Typing'
    BY <1>t, <2>1, <2>2, <2>3, LifecycleAssumption
    DEF Created, Typing, PCs, Half, Creation
  <2>5. QED
    BY <2>3, <2>4
<1>2. ASSUME ShmNew(p) PROVE Comes(p)
  <2>1. CASE Taken(half[p])
    BY <1>2, <2>1, <1>t DEF ShmNew, Taken, Refused, None, Ghosts, Typing, PCs, Errors
  <2>2. CASE ~Taken(half[p])
    <3>1. /\ mine' = [mine EXCEPT ![p].shm[half[p]] = Number(p)]
          /\ content' = [content EXCEPT ![half[p]][Number(p)] = "empty"]
          /\ shm' = [shm EXCEPT ![half[p]] = Number(p)]
          /\ pc[p] = "shm_new" /\ pc' = [pc EXCEPT ![p] = "truncate"]
          /\ UNCHANGED <<out, sem, half, Ghosts>>
      BY <1>2, <2>2 DEF ShmNew
    <3>2. Number(p) \in Creation
      BY <3>1, CreatorsNumber DEF Creating
    <3>3. mine' \in Handles /\ Leads(p, [mine[p].shm EXCEPT ![half[p]] = Number(p)], mine[p].sem)
      BY <3>1, <3>2, <1>t, MineShm
    <3>4. content' \in [Half -> [Creation -> Contents]] /\ Filled(half[p], Number(p), "empty")
      BY <3>1, <3>2, <1>t, ContentSet DEF Contents
    <3>5. Named(p)
      BY <2>2, <3>1, <3>3, <3>4, <1>t DEF Named, Taken, Ghosts, Typing
    <3>6. Typing'
      BY <3>1, <3>2, <3>3, <3>4, <1>t DEF Typing, Ghosts, PCs, Objects
    <3>7. QED
      BY <3>5, <3>6
  <2>3. QED
    BY <2>1, <2>2
<1>3. ASSUME NEW c \in Contents, NEW a \in PCs, NEW b \in PCs,
             <<a, b, c>> \in {<<"truncate", "map", "zero">>, <<"header", "slots", "header">>,
               <<"slots", "semget", "ready">>},
             pc[p] = a, pc' = [pc EXCEPT ![p] = b], b # "idle",
             Fill(p, half[p], c), UNCHANGED <<shm, sem, half, mine, out, creates, faults, tidy>>
      PROVE  Comes(p)
  <2>1. Number(p) \in Creation /\ mine[p].shm[half[p]] = Number(p)
    BY <1>3, CreatorsNumber DEF Creating, Making
  <2>2. content' = [content EXCEPT ![half[p]][Number(p)] = c]
    BY <1>3, <2>1 DEF Fill
  <2>3. content' \in [Half -> [Creation -> Contents]] /\ Filled(half[p], Number(p), c)
    BY <2>1, <2>2, <1>t, ContentSet
  <2>4. Wrote(p)
    BY <1>3, <2>3, <1>t DEF Wrote, Typing
  <2>5. Typing'
    BY <1>3, <2>3, <1>t DEF Typing, Contents
  <2>6. QED
    BY <2>4, <2>5
<1>4. ASSUME NEW r \in Errors, pc[p] \in {"truncate", "map"}, Fault, Abandon(p, r),
             UNCHANGED <<content, sem, half, mine, creates, tidy>>
      PROVE  Comes(p)
  <2>1. GaveUp(p)
    BY <1>4, <1>t DEF GaveUp, Abandon, Fault, Typing
  <2>2. Typing'
    BY <2>1, <1>4, <1>t, LifecycleAssumption DEF GaveUp, Fault, Typing, PCs, Objects
  <2>3. QED
    BY <2>1, <2>2
<1>5. ASSUME Truncate(p) PROVE Comes(p)
  <2>1. ASSUME Goto(p, "truncate", "map"), Fill(p, half[p], "zero"), UNCHANGED <<shm, out, faults>>
        PROVE  Comes(p)
    BY <1>5, <2>1, <1>3 DEF Truncate, Contents, PCs
  <2>2. ASSUME NEW r \in Errors, Fault, Abandon(p, r), UNCHANGED content PROVE Comes(p)
    BY <1>5, <2>2, <1>4 DEF Truncate
  <2>3. QED
    BY <1>5, <2>1, <2>2, ErrorsAreErrors DEF Truncate
<1>6. ASSUME Map(p) PROVE Comes(p)
  <2>1. CASE UNCHANGED <<shm, out, faults>>
    BY <1>6, <2>1, <1>t DEF Map, WentOn, IsHalf, Typing, PCs, Fault
  <2>2. CASE Fault /\ Abandon(p, "ShmMappingFailed")
    BY <1>6, <2>2, <1>4 DEF Map, Errors
  <2>3. QED
    BY <1>6, <2>1, <2>2 DEF Map
<1>7. ASSUME Header(p) PROVE Comes(p)
  <2>1. half[p] = "table"
    BY <1>7 DEF Header, IInv, Creators, Creating, Making
  <2>2. QED
    BY <1>7, <2>1, <1>3 DEF Header, Contents, PCs, Names, Ghosts
<1>8. ASSUME Slots(p) PROVE Comes(p)
  BY <1>8, <1>3 DEF Slots, Contents, PCs, Names, Ghosts
<1>9. ASSUME Semget(p) PROVE Comes(p)
  <2>1. Number(p) \in Creation /\ pc[p] = "semget"
    BY <1>9, CreatorsNumber DEF Semget, Creating, Making
  <2>2. CASE /\ sem[half[p]] = None
             /\ pc' = [pc EXCEPT ![p] = "raise"]
             /\ sem' = [sem EXCEPT ![half[p]] = Number(p)]
             /\ mine' = [mine EXCEPT ![p].sem[half[p]] = Number(p)]
             /\ UNCHANGED <<out, faults>>
    <3>1. /\ mine' \in Handles
          /\ Leads(p, mine[p].shm, [mine[p].sem EXCEPT ![half[p]] = Number(p)])
      BY <2>1, <2>2, <1>t, MineSem
    <3>2. SetMade(p)
      BY <1>9, <2>1, <2>2, <3>1, <1>t DEF Semget, SetMade, Typing
    <3>3. Typing'
      BY <1>9, <2>1, <2>2, <3>1, <1>t DEF Semget, Typing, PCs, Objects
    <3>4. QED
      BY <3>2, <3>3
  <2>3. ASSUME NEW r \in Errors, Return(p, r), UNCHANGED <<sem, mine>>,
               Fault \/ (sem[half[p]] # None /\ UNCHANGED faults)
        PROVE  Comes(p)
    <3>1. faults' \in 0 .. MaxFaults /\ faults' \in {faults, faults + 1}
      BY <2>3, <1>t, LifecycleAssumption DEF Typing, Fault
    <3>2. Refused(p)
      BY <1>9, <2>1, <2>3, <3>1, <1>t DEF Semget, Refused, Fault, Typing
    <3>3. Typing'
      BY <1>9, <2>3, <3>1, <1>t DEF Semget, Typing, PCs
    <3>4. QED
      BY <3>2, <3>3
  <2>4. QED
    BY <1>9, <2>2, <2>3, ErrorsAreErrors DEF Semget
<1>10. ASSUME Raise(p) PROVE Comes(p)
  BY <1>10, <1>t, ErrorsAreErrors DEF Raise, Refused, Raised, Names, Ghosts, Typing, PCs, Half
<1>11. QED
  BY <1>1, <1>2, <1>5, <1>6, <1>7, <1>8, <1>9, <1>10

(* Table::open and its parts.                                              *)
LEMMA OpenSteps ==
  ASSUME IInv, NEW p \in Proc
  PROVE  Open(p) \/ ShmOpen(p) \/ MapOpen(p) \/ Check(p) \/ SemOpen(p) => Comes(p)
<1>t. Typing /\ half[p] \in Half
  BY DEF IInv, Typing
<1> USE DEF Comes, Step, Turn, Goto, Return
<1>1. ASSUME Open(p) PROVE Comes(p)
  <2>1. mine' \in Handles /\ Leads(p, Without, Without)
    BY <1>1, <1>t, MineNothing DEF Open
  <2>2. Looked(p)
    BY <1>1, <2>1, <1>t DEF Open, Looked, Begin, Holds, NoDestroy, Names, Typing
  <2>3. Typing'
    BY <1>t, <2>1, <2>2 DEF Looked, Typing, PCs, Half
  <2>4. QED
    BY <2>2, <2>3
<1>2. ASSUME NEW r \in Errors, Opening(p), Return(p, r), faults' \in {faults, faults + 1},
             faults' \in 0 .. MaxFaults,
             UNCHANGED <<Names, content, half, mine, creates, tidy>>
      PROVE  Comes(p)
  BY <1>2, <1>t DEF Refused, Names, Typing, PCs
<1>3. ASSUME ShmOpen(p) PROVE Comes(p)
  <2>1. CASE /\ shm[half[p]] # None
             /\ pc' = [pc EXCEPT ![p] = "map_open"]
             /\ mine' = [mine EXCEPT ![p].shm[half[p]] = shm[half[p]]]
             /\ UNCHANGED out
    <3>1. shm[half[p]] \in {None} \cup Creation
      BY <1>t DEF Typing, Objects
    <3>2. mine' \in Handles /\ Leads(p, [mine[p].shm EXCEPT ![half[p]] = shm[half[p]]], mine[p].sem)
      BY <2>1, <3>1, <1>t, MineShm
    <3>3. Found(p)
      BY <1>3, <2>1, <3>2, <1>t DEF ShmOpen, Found, Names, Ghosts, Typing
    <3>4. Typing'
      BY <1>3, <2>1, <3>2, <1>t DEF ShmOpen, Names, Ghosts, Typing, PCs
    <3>5. QED
      BY <3>3, <3>4
  <2>2. CASE Return(p, FromShmError("ENOENT")) /\ UNCHANGED mine
    BY <1>2, <1>3, <1>t, <2>2, ErrorsAreErrors DEF ShmOpen, Opening, Ghosts, Typing
  <2>3. QED
    BY <1>3, <2>1, <2>2 DEF ShmOpen
<1>4. ASSUME MapOpen(p) PROVE Comes(p)
  <2>1. CASE UNCHANGED <<out, faults>> /\ pc' = [pc EXCEPT ![p] = IF half[p] = "table" THEN "check" ELSE "sem_open"]
    BY <1>4, <2>1, <1>t DEF MapOpen, WentOn, Names, Typing, PCs
  <2>2. CASE (UNCHANGED faults \/ Fault) /\ Return(p, "ShmMappingFailed")
    <3>1. faults' \in 0 .. MaxFaults /\ faults' \in {faults, faults + 1}
      BY <2>2, <1>t, LifecycleAssumption DEF Typing, Fault
    <3>2. QED
      BY <1>2, <1>4, <2>2, <3>1 DEF MapOpen, Opening, Errors
  <2>3. QED
    BY <1>4, <2>1, <2>2 DEF MapOpen
<1>5. ASSUME Check(p) PROVE Comes(p)
  <2>1. CASE IsValid(p)
    BY <1>5, <2>1, <1>t DEF Check, IsValid, Headed, WentOn, Names, Ghosts, Typing, PCs
  <2>2. CASE ~IsValid(p)
    BY <1>2, <1>5, <2>2, <1>t DEF Check, Opening, Ghosts, Errors, Typing
  <2>3. QED
    BY <2>1, <2>2
<1>6. ASSUME SemOpen(p) PROVE Comes(p)
  <2>1. CASE sem[half[p]] # None
    <3>1. sem[half[p]] \in {None} \cup Creation
      BY <1>t DEF Typing, Objects
    <3>2. mine' \in Handles /\ Leads(p, mine[p].shm, [mine[p].sem EXCEPT ![half[p]] = sem[half[p]]])
      BY <1>6, <2>1, <3>1, <1>t, MineSem DEF SemOpen
    <3>3. SetFound(p)
      BY <1>6, <2>1, <3>2, <1>t DEF SemOpen, SetFound, Names, Ghosts, Typing, Half
    <3>4. Typing'
      BY <3>2, <3>3, <1>t DEF SetFound, Typing, PCs, Half
    <3>5. QED
      BY <3>3, <3>4
  <2>2. CASE sem[half[p]] = None
    BY <1>2, <1>6, <2>2, <1>t, ErrorsAreErrors DEF SemOpen, Opening, Ghosts, Typing
  <2>3. QED
    BY <2>1, <2>2
<1>7. QED
  BY <1>1, <1>3, <1>4, <1>5, <1>6

(* Table::destroy, the end of a handle and the end of a process.           *)
LEMMA DestroySteps ==
  ASSUME IInv, NEW p \in Proc
  PROVE  Destroy(p) \/ Unlink(p) \/ Rmid(p) \/ Drop(p) \/ Die(p) => Comes(p)
<1>t. Typing /\ half[p] \in Half
  BY DEF IInv, Typing
<1> USE DEF Comes, Step, Turn, Goto, Return
<1>1. ASSUME Destroy(p) PROVE Comes(p)
  <2>1. Doomed(p)
    BY <1>1, <1>t DEF Destroy, Doomed, Begin, Holds, Names, Typing
  <2>2. Typing'
    BY <2>1, <1>t DEF Doomed, Holds, Typing, PCs, Half
  <2>3. QED
    BY <2>1, <2>2
<1>2. ASSUME Unlink(p) PROVE Comes(p)
  <2>1. CASE shm[half[p]] # None
    <3>1. Unnamed(p)
      BY <1>2, <2>1, <1>t DEF Unlink, Unnamed, Ghosts, Typing
    <3>2. Typing'
      BY <3>1, <1>t DEF Unnamed, Typing, PCs, Objects
    <3>3. QED
      BY <3>1, <3>2
  <2>2. CASE shm[half[p]] = None
    <3>1. shm' = shm
      BY <1>2, <2>2, <1>t DEF Unlink, Typing, Objects
    <3>2. QED
      BY <1>2, <2>2, <3>1, <1>t, ZenonT(60) DEF Unlink, Refused, Ghosts, Typing, PCs, Errors
  <2>3. QED
    BY <2>1, <2>2
<1>3. ASSUME Rmid(p) PROVE Comes(p)
  <2>1. CASE sem[half[p]] # mine[p].sem[half[p]]
    BY <1>3, <2>1, <1>t, ZenonT(60) DEF Rmid, Refused, Ghosts, Typing, PCs, Errors
  <2>2. CASE sem[half[p]] = mine[p].sem[half[p]]
    <3>1. SetRemoved(p)
      BY <1>3, <2>2, <1>t DEF Rmid, SetRemoved, Removed, Ghosts, Typing, Half
    <3>2. Typing'
      BY <3>1, <1>t DEF SetRemoved, Typing, PCs, Half, Objects
    <3>3. QED
      BY <3>1, <3>2
  <2>3. QED
    BY <2>1, <2>2
<1>4. ASSUME Drop(p) PROVE Comes(p)
  <2>1. mine' \in Handles /\ Leads(p, Without, Without)
    BY <1>4, <1>t, MineNothing DEF Drop
  <2>2. Dropped(p)
    BY <1>4, <2>1, <1>t DEF Drop, Dropped, Holds, Names, Ghosts, Typing
  <2>3. Typing'
    BY <2>1, <2>2, <1>t DEF Dropped, Holds, Typing, PCs
  <2>4. QED
    BY <2>2, <2>3
<1>5. ASSUME Die(p) PROVE Comes(p)
  <2>1. Died(p)
    BY <1>5, <1>t DEF Die, Died, Names, Typing
  <2>2. out[p] = "none"
    BY <1>5, <1>t DEF Die, InCall, Typing
  <2>3. Typing'
    BY <2>1, <2>2, <1>t DEF Died, Typing, PCs
  <2>4. QED
    BY <2>1, <2>3
<1>6. QED
  BY <1>1, <1>2, <1>3, <1>4, <1>5

-----------------------------------------------------------------------------
(* The invariant, part by part.                                            *)

(* Numbers of creations are natural numbers, and objects are known by      *)
(* them.                                                                   *)
LEMMA CreationsAreNatural == \A n \in {None} \cup Creation : n \in Nat
BY LifecycleAssumption DEF Creation, None

(* The same of everything that has a number.                               *)
LEMMA Numeric ==
  ASSUME Typing
  PROVE  /\ creates \in Nat
         /\ \A h \in Half : /\ shm[h] \in Nat /\ sem[h] \in Nat
                            /\ \A q \in Proc : mine[q].shm[h] \in Nat /\ mine[q].sem[h] \in Nat
<1>1. creates \in Nat
  BY LifecycleAssumption DEF Typing
<1>2. \A o \in Objects, h \in Half : o[h] \in Nat
  BY CreationsAreNatural DEF Objects
<1>3. \A q \in Proc : mine[q].shm \in Objects /\ mine[q].sem \in Objects
  BY DEF Typing, Handles
<1>4. QED
  BY <1>1, <1>2, <1>3 DEF Typing

(* A step of one process leaves the others where they are.                 *)
LEMMA Others ==
  ASSUME Typing, NEW p \in Proc, Step(p), NEW q \in Proc, q # p
  PROVE  /\ pc'[q] = pc[q] /\ half'[q] = half[q] /\ out'[q] = out[q]
         /\ mine'[q] = mine[q] /\ Number(q)' = Number(q)
BY DEF Typing, Step, Turn, Leads, Number,
       Created, Looked, Doomed, Dropped, Died, Refused, GaveUp, Named, Wrote, WentOn,
       SetMade, Raised, Found, SetFound, Unnamed, SetRemoved

(* Which way every kind of step goes.                                      *)
LEMMA Ways ==
  ASSUME Typing, NEW p \in Proc
  PROVE  /\ Created(p) => pc[p] = "idle" /\ pc'[p] = "shm_new"
         /\ Looked(p) => pc[p] = "idle" /\ pc'[p] = "shm_open"
         /\ Doomed(p) => pc[p] = "idle" /\ pc'[p] = "unlink"
         /\ Dropped(p) => pc[p] = "idle" /\ pc'[p] = "idle" /\ out'[p] = "none"
         /\ Died(p) => pc[p] \notin {"idle", "dead"} /\ pc'[p] = "dead"
         /\ Refused(p) => /\ \/ pc[p] \in {"shm_new", "semget", "raise", "unlink", "rmid"}
                             \/ Opening(p)
                          /\ pc'[p] = "idle" /\ out'[p] \in Errors
         /\ GaveUp(p) => /\ pc[p] \in {"truncate", "map"}
                         /\ pc'[p] = "idle" /\ out'[p] \in Errors
         /\ Named(p) => pc[p] = "shm_new" /\ pc'[p] = "truncate"
         /\ Wrote(p) => \/ pc[p] = "truncate" /\ pc'[p] = "map"
                        \/ pc[p] = "header" /\ pc'[p] = "slots"
                        \/ pc[p] = "slots" /\ pc'[p] = "semget"
         /\ WentOn(p) => \/ pc[p] = "map" /\ pc'[p] \in {"header", "slots"}
                         \/ pc[p] = "map_open" /\ pc'[p] \in {"check", "sem_open"}
                         \/ pc[p] = "check" /\ pc'[p] = "sem_open"
         /\ SetMade(p) => pc[p] = "semget" /\ pc'[p] = "raise"
         /\ Raised(p) => /\ pc[p] = "raise"
                         /\ \/ pc'[p] = "shm_new"
                            \/ pc'[p] = "idle" /\ out'[p] = "created"
         /\ Found(p) => pc[p] = "shm_open" /\ pc'[p] = "map_open"
         /\ SetFound(p) => /\ pc[p] = "sem_open"
                           /\ \/ pc'[p] = "shm_open"
                              \/ pc'[p] = "idle" /\ out'[p] = "opened"
         /\ Unnamed(p) => pc[p] = "unlink" /\ pc'[p] = "rmid"
         /\ SetRemoved(p) => /\ pc[p] = "rmid"
                             /\ \/ pc'[p] = "unlink"
                                \/ pc'[p] = "idle" /\ out'[p] = "destroyed"
<1> USE DEF Turn, Typing
<1>1. Created(p) => pc[p] = "idle" /\ pc'[p] = "shm_new"
  BY DEF Created
<1>2. Looked(p) => pc[p] = "idle" /\ pc'[p] = "shm_open"
  BY DEF Looked
<1>3. Doomed(p) => pc[p] = "idle" /\ pc'[p] = "unlink"
  BY DEF Doomed, Holds
<1>4. Dropped(p) => pc[p] = "idle" /\ pc'[p] = "idle" /\ out'[p] = "none"
  BY DEF Dropped, Holds
<1>5. Died(p) => pc[p] \notin {"idle", "dead"} /\ pc'[p] = "dead"
  BY DEF Died, InCall
<1>6. Refused(p) => /\ \/ pc[p] \in {"shm_new", "semget", "raise", "unlink", "rmid"}
                       \/ Opening(p)
                    /\ pc'[p] = "idle" /\ out'[p] \in Errors
  BY DEF Refused
<1>7. GaveUp(p) => /\ pc[p] \in {"truncate", "map"}
                   /\ pc'[p] = "idle" /\ out'[p] \in Errors
  BY DEF GaveUp
<1>8. Named(p) => pc[p] = "shm_new" /\ pc'[p] = "truncate"
  BY DEF Named
<1>9. Wrote(p) => \/ pc[p] = "truncate" /\ pc'[p] = "map"
                  \/ pc[p] = "header" /\ pc'[p] = "slots"
                  \/ pc[p] = "slots" /\ pc'[p] = "semget"
  BY DEF Wrote
<1>10. WentOn(p) => \/ pc[p] = "map" /\ pc'[p] \in {"header", "slots"}
                    \/ pc[p] = "map_open" /\ pc'[p] \in {"check", "sem_open"}
                    \/ pc[p] = "check" /\ pc'[p] = "sem_open"
  BY DEF WentOn
<1>11. SetMade(p) => pc[p] = "semget" /\ pc'[p] = "raise"
  BY DEF SetMade
<1>12. Raised(p) => /\ pc[p] = "raise"
                    /\ \/ pc'[p] = "shm_new"
                       \/ pc'[p] = "idle" /\ out'[p] = "created"
  BY DEF Raised
<1>13. Found(p) => pc[p] = "shm_open" /\ pc'[p] = "map_open"
  BY DEF Found
<1>14. SetFound(p) => /\ pc[p] = "sem_open"
                      /\ \/ pc'[p] = "shm_open"
                         \/ pc'[p] = "idle" /\ out'[p] = "opened"
  BY DEF SetFound
<1>15. Unnamed(p) => pc[p] = "unlink" /\ pc'[p] = "rmid"
  BY DEF Unnamed
<1>16. SetRemoved(p) => /\ pc[p] = "rmid"
                        /\ \/ pc'[p] = "unlink"
                           \/ pc'[p] = "idle" /\ out'[p] = "destroyed"
  BY DEF SetRemoved
<1>17. QED
  BY <1>1, <1>2, <1>3, <1>4, <1>5, <1>6, <1>7, <1>8, <1>9, <1>10, <1>11, <1>12, <1>13,
     <1>14, <1>15, <1>16

(* Only their creator writes to a block, and what is ready stays so        *)
(* (block.rs, header.rs and slot.rs, new).                                 *)
LEMMA ContentGrows ==
  ASSUME IInv, NEW p \in Proc, Step(p), NEW h \in Half, NEW n \in Creation
  PROVE  /\ content[h][n] # "none" => content'[h][n] # "none"
         /\ content[h][n] = "ready" => content'[h][n] = "ready"
         /\ content'[h][n] # content[h][n] =>
              /\ pc[p] \in {"shm_new", "truncate", "header", "slots"}
              /\ Creating(p) /\ h = half[p] /\ n = Number(p)
<1> DEFINE Goal == /\ content[h][n] # "none" => content'[h][n] # "none"
                   /\ content[h][n] = "ready" => content'[h][n] = "ready"
                   /\ content'[h][n] # content[h][n] =>
                        /\ pc[p] \in {"shm_new", "truncate", "header", "slots"}
                        /\ Creating(p) /\ h = half[p] /\ n = Number(p)
<1>1. CASE Named(p)
  BY <1>1 DEF IInv, Creators, Creating, Reached, Named, Filled
<1>2. CASE Wrote(p)
  BY <1>2 DEF IInv, Creators, Creating, Making, Reached, Wrote, Filled
<1>3. CASE ~Named(p) /\ ~Wrote(p)
  <2>1. content' = content
    BY <1>3 DEF Step, Created, Looked, Doomed, Dropped, Died, Refused, GaveUp, WentOn,
                SetMade, Raised, Found, SetFound, Unnamed, SetRemoved
  <2>2. QED
    BY <2>1
<1>4. QED
  BY <1>1, <1>2, <1>3

(* Where the objects of a handle come from: nowhere, the handle as it was, *)
(* the names, or the number of the creation.                               *)
LEMMA Sources ==
  ASSUME IInv, NEW p \in Proc, Step(p), NEW h \in Half
  PROVE  /\ \/ mine'[p].shm[h] \in {None, mine[p].shm[h], shm[h], creates'}
            \/ Creating(p) /\ mine'[p].shm[h] = Number(p)
         /\ \/ mine'[p].sem[h] \in {None, mine[p].sem[h], sem[h]}
            \/ Creating(p) /\ h = half[p] /\ mine'[p].sem[h] = Number(p)
         /\ \/ shm'[h] \in {None, shm[h]}
            \/ Creating(p) /\ h = half[p] /\ shm'[h] = Number(p)
         /\ \/ sem'[h] \in {None, sem[h]}
            \/ Creating(p) /\ h = half[p] /\ sem'[h] = Number(p)
         /\ creates' \in {creates, creates + 1}
<1>t. Typing /\ h \in Half /\ \A x \in Proc : mine[x].shm \in Objects /\ mine[x].sem \in Objects
  BY DEF IInv, Typing, Handles
<1> USE <1>t DEF Turn, Leads, Objects, Typing, Creating, Making
<1>1. CASE Created(p) \/ Looked(p) \/ Dropped(p)
  BY <1>1 DEF Created, Looked, Dropped, Without
<1>2. CASE GaveUp(p) \/ Unnamed(p) \/ SetRemoved(p)
  BY <1>2 DEF GaveUp, Unnamed, SetRemoved
<1>3. CASE Named(p)
  BY <1>3 DEF Named
<1>4. CASE SetMade(p)
  BY <1>4 DEF SetMade
<1>5. CASE Found(p)
  BY <1>5 DEF Found
<1>6. CASE SetFound(p)
  BY <1>6 DEF SetFound
<1>7. CASE Doomed(p) \/ Died(p) \/ Refused(p) \/ Wrote(p) \/ WentOn(p) \/ Raised(p)
  BY <1>7 DEF Doomed, Died, Refused, Wrote, WentOn, Raised
<1>8. QED
  BY <1>1, <1>2, <1>3, <1>4, <1>5, <1>6, <1>7 DEF Step

(* Numbers stay below the count of creations and stay apart.               *)
LEMMA NumberedStep ==
  ASSUME IInv, NEW p \in Proc, Comes(p)
  PROVE  Numbered'
<1>t. Typing /\ Typing' /\ Step(p) /\ Numbered
  BY DEF IInv, Comes
<1>i. /\ creates \in Nat /\ creates' \in Nat
      /\ \A h \in Half : /\ shm[h] \in Nat /\ sem[h] \in Nat
                         /\ \A q \in Proc : mine[q].shm[h] \in Nat /\ mine[q].sem[h] \in Nat
      /\ \A n \in Creation : n \in Nat
      /\ "table" \in Half
  <2>1. "table" \in Half
    BY DEF Half
  <2>2. creates' \in {creates, creates + 1}
    BY <2>1, <1>t, Sources
  <2>3. QED
    BY <2>1, <2>2, <1>t, Numeric, CreationsAreNatural
<1>c. creates <= creates'
  <2>1. "table" \in Half
    BY DEF Half
  <2>2. QED
    BY <2>1, <1>t, <1>i, Sources
<1>1. ASSUME NEW h \in Half, NEW n \in Creation, n > creates' PROVE content'[h][n] = "none"
  <2>1. n > creates /\ content[h][n] = "none"
    BY <1>1, <1>t, <1>i, <1>c DEF Numbered
  <2>2. n # Number(p)
    BY <2>1, <1>t, <1>i DEF Numbered, Number
  <2>3. QED
    BY <2>1, <2>2, <1>t, ContentGrows
<1>2. ASSUME NEW h \in Half PROVE shm'[h] <= creates' /\ sem'[h] <= creates'
  <2>1. /\ shm'[h] \in {None, shm[h], Number(p)}
        /\ sem'[h] \in {None, sem[h], Number(p)}
    BY <1>t, Sources
  <2>2. QED
    BY <2>1, <1>t, <1>i, <1>c DEF Numbered, Number, None
<1>3. ASSUME NEW q \in Proc, NEW h \in Half
      PROVE  mine'[q].shm[h] <= creates' /\ mine'[q].sem[h] <= creates'
  <2>1. CASE q = p
    <3>1. /\ mine'[p].shm[h] \in {None, mine[p].shm[h], Number(p), shm[h], creates'}
          /\ mine'[p].sem[h] \in {None, mine[p].sem[h], Number(p), sem[h]}
      BY <1>t, Sources
    <3>2. QED
      BY <2>1, <3>1, <1>t, <1>i, <1>c DEF Numbered, Number, None
  <2>2. CASE q # p
    BY <2>2, <1>t, <1>i, <1>c, Others DEF Numbered
  <2>3. QED
    BY <2>1, <2>2
<1>4. ASSUME NEW q \in Proc, q # p, Creating(p)', Creating(q)' PROVE Number(p)' # Number(q)'
  <2>1. Creating(q) /\ Number(q)' = Number(q) /\ Number(q) <= creates
    BY <1>4, <1>t, Others DEF Creating, Numbered, Number, Half
  <2>2. CASE Created(p)
    <3>1. Number(p)' = creates + 1
      BY <2>2 DEF Created, Leads, Without, Number, Half
    <3>2. QED
      BY <2>1, <3>1, <1>i DEF Number
  <2>3. CASE ~Created(p)
    <3>1. Creating(p) /\ Number(p)' = Number(p)
      <4>1. pc'[p] \in {"shm_new"} \cup Making
        BY <1>4 DEF Creating
      <4>2. pc \in [Proc -> PCs] /\ mine[p].shm \in Objects /\ mine[p].sem \in Objects /\ "table" \in Half
        BY <1>t DEF Typing, Handles, Half
      <4> USE <4>1, <4>2 DEF Creating, Making, Turn, Leads, Number
      <4>3. CASE Named(p)
        BY <4>3 DEF Named, Objects
      <4>4. CASE ~Named(p)
        BY <2>3, <4>4, <1>t
        DEF Step, Looked, Doomed, Dropped, Died, Refused, GaveUp, Wrote, WentOn,
            SetMade, Raised, Found, SetFound, Unnamed, SetRemoved
      <4>5. QED
        BY <4>3, <4>4
    <3>2. QED
      BY <1>4, <2>1, <3>1, <1>t DEF Numbered
  <2>4. QED
    BY <2>2, <2>3
<1>5. ASSUME NEW q \in Proc, NEW r \in Proc, Creating(q)', Creating(r)', Number(q)' = Number(r)'
      PROVE  q = r
  <2>1. CASE q = p \/ r = p
    BY <1>4, <1>5, <2>1
  <2>2. CASE q # p /\ r # p
    <3>1. Creating(q) /\ Creating(r) /\ Number(q) = Number(r)
      BY <1>5, <2>2, <1>t, Others DEF Creating
    <3>2. QED
      BY <3>1, <1>t DEF Numbered
  <2>3. QED
    BY <2>1, <2>2
<1>6. QED
  BY <1>1, <1>2, <1>3, <1>5 DEF Numbered

(* How a creator comes by the next half of its table (table.rs,            *)
(* create_with_size): where it is after a step of its own.                 *)
LEMMA CreatorsStep ==
  ASSUME IInv, NEW p \in Proc, Comes(p)
  PROVE  Creators'
<1>t. Typing /\ Typing' /\ Step(p) /\ Numbered /\ Creators
  BY DEF IInv, Comes
<1>h. /\ "table" \in Half /\ \A h \in Half : h \in {"table", "index"}
      /\ half[p] \in Half
      /\ mine[p].shm \in Objects /\ mine[p].sem \in Objects
  BY <1>t DEF Half, Typing, Handles
<1>c. Creating(p) => Number(p) \in Creation
  BY CreatorsNumber
<1> DEFINE Local(r) ==
      /\ Number(r) # None
      /\ content[half[r]][Number(r)] = Reached(r)
      /\ pc[r] = "header" => half[r] = "table"
      /\ pc[r] # "shm_new" => mine[r].shm[half[r]] = Number(r)
      /\ half[r] = "table" => content["index"][Number(r)] = "none"
      /\ half[r] = "index" => /\ content["table"][Number(r)] = "ready"
                              /\ mine[r].sem["table"] = Number(r)
      /\ pc[r] = "raise" => mine[r].sem[half[r]] = Number(r)
    Unseen(n, h) == sem[h] # n /\ \A q \in Proc : mine[q].sem[h] # n
    Made(r) == /\ Creating(r) /\ Local(r)
               /\ \A h \in Half : SetPending(r, h) => Unseen(Number(r), h)
<1>d. \A r \in Proc : Creating(r) => Made(r)
  BY <1>t DEF Creators
<1>u. ASSUME NEW n \in Creation, NEW h \in Half, Unseen(n, h),
             ~(SetMade(p) /\ h = half[p] /\ n = Number(p))
      PROVE  Unseen(n, h)'
  <2>1. n # None
    BY CreationsAreNatural DEF Creation, None
  <2>2. sem'[h] # n /\ mine'[p].sem[h] # n
    BY <1>t, <1>u, <1>h, <2>1, SMTT(60)
    DEF Step, Turn, Leads, Without, Typing, Objects,
        Created, Looked, Doomed, Dropped, Died, Refused, GaveUp, Named, Wrote, WentOn,
        SetMade, Raised, Found, SetFound, Unnamed, SetRemoved
  <2>3. QED
    BY <1>u, <1>t, <2>2, Others
<1>1. ASSUME NEW r \in Proc, r # p, Creating(r)' PROVE Made(r)'
  <2>1. /\ pc'[r] = pc[r] /\ half'[r] = half[r] /\ mine'[r] = mine[r]
        /\ Number(r)' = Number(r) /\ Reached(r)' = Reached(r)
        /\ Creating(r) /\ half[r] \in Half
        /\ \A h : SetPending(r, h)' = SetPending(r, h)
    BY <1>1, <1>t, Others DEF Creating, Reached, SetPending, Typing
  <2>2. Made(r) /\ Number(r) \in Creation
    BY <2>1, <1>d, CreatorsNumber
  <2>3. Creating(p) => Number(p) # Number(r)
    BY <2>1, <1>1, <1>t DEF Numbered
  <2>4. \A h \in Half : content'[h][Number(r)] = content[h][Number(r)]
    BY <2>2, <2>3, <1>t, ContentGrows
  <2>5. Local(r)'
    BY <2>1, <2>2, <2>4 DEF Half
  <2>6. SetMade(p) => Creating(p)
    BY DEF SetMade, Creating, Making
  <2>7. ASSUME NEW h \in Half, SetPending(r, h)' PROVE Unseen(Number(r), h)'
    <3>1. Unseen(Number(r), h)
      BY <2>1, <2>2, <2>7
    <3>2. PICK n \in Creation : n = Number(r)
      BY <2>2
    <3>3. Unseen(n, h)'
      BY <2>3, <2>6, <3>1, <3>2, <1>u
    <3>4. QED
      BY <2>1, <3>2, <3>3
  <2>8. QED
    BY <1>1, <2>5, <2>7
<1>2. ASSUME Creating(p)' PROVE Made(p)'
  <2>1. CASE Created(p)
    <3>1. PICK n \in Creation : n = creates + 1
      BY <2>1 DEF Created
    <3>2. /\ Number(p)' = n
          /\ pc'[p] = "shm_new" /\ half'[p] = "table" /\ UNCHANGED <<sem, content>>
      BY <2>1, <3>1, <1>t DEF Created, Leads, Without, Number, Half, Turn, Typing
    <3>3. n # None /\ n > creates
      BY <3>1, <1>t, Numeric DEF None
    <3>4. \A h \in Half : content[h][n] = "none"
      BY <3>3, <1>t DEF Numbered
    <3>5. \A h \in Half : Unseen(n, h)
      BY <3>3, <1>t, Numeric DEF Numbered
    <3>6. \A h \in Half : Unseen(n, h)'
      BY <3>5, <1>u, <2>1 DEF Created, SetMade
    <3>7. Local(p)'
      BY <3>2, <3>3, <3>4 DEF Reached, Half
    <3>8. QED
      BY <1>2, <3>2, <3>6, <3>7
  <2>2. CASE Named(p)
    <3>1. Made(p) /\ Number(p) \in Creation
      BY <2>2, <1>d, <1>c DEF Named, Creating
    <3>2. /\ pc[p] = "shm_new" /\ pc'[p] = "truncate" /\ half'[p] = half[p]
          /\ \A h \in Half : mine'[p].sem[h] = mine[p].sem[h]
          /\ mine'[p].shm[half[p]] = Number(p)
          /\ Number(p)' = Number(p)
      BY <2>2, <1>t, <1>h DEF Named, Turn, Leads, Typing, Number, Objects
    <3>3. \A h \in Half : content'[h][Number(p)] = IF h = half[p] THEN "empty" ELSE content[h][Number(p)]
      BY <2>2, <3>1 DEF Named, Filled
    <3>4. Local(p)'
      BY <3>1, <3>2, <3>3, <1>h DEF Reached, Half
    <3>5. \A h \in Half : SetPending(p, h)' => SetPending(p, h)
      BY <3>1, <3>2 DEF SetPending
    <3>6. QED
      BY <1>2, <3>1, <3>2, <3>4, <3>5, <1>u, <2>2 DEF Named, SetMade
  <2>3. CASE Wrote(p)
    <3>1. Made(p) /\ Number(p) \in Creation
      BY <2>3, <1>d, <1>c DEF Wrote, Creating, Making
    <3>2. half'[p] = half[p] /\ mine'[p] = mine[p] /\ Number(p)' = Number(p)
      BY <2>3, <1>t DEF Wrote, Turn, Typing, Number
    <3>3. PICK k \in {<<"truncate", "map", "zero">>, <<"header", "slots", "header">>,
               <<"slots", "semget", "ready">>} :
            /\ pc[p] = k[1] /\ pc'[p] = k[2]
            /\ \A h \in Half : content'[h][Number(p)] = IF h = half[p] THEN k[3] ELSE content[h][Number(p)]
      BY <2>3, <3>1, <1>t DEF Wrote, Turn, Typing, Filled
    <3>4. Local(p)'
      BY <3>1, <3>2, <3>3, <1>h DEF Reached, Half
    <3>5. \A h \in Half : SetPending(p, h)' => SetPending(p, h)
      BY <3>1, <3>2, <3>3 DEF SetPending
    <3>6. QED
      BY <1>2, <3>1, <3>2, <3>3, <3>4, <3>5, <1>u DEF SetMade
  <2>4. CASE WentOn(p) \/ Raised(p)
    <3>1. Made(p) /\ Number(p) \in Creation
      BY <1>2, <2>4, <1>d, <1>c, <1>t DEF WentOn, Raised, Turn, Creating, Making, Typing
    <3>2. /\ mine'[p] = mine[p] /\ Number(p)' = Number(p) /\ content' = content
          /\ \/ /\ pc[p] = "map" /\ half'[p] = half[p]
                /\ pc'[p] = IF half[p] = "table" THEN "header" ELSE "slots"
             \/ pc[p] = "raise" /\ half[p] = "table" /\ pc'[p] = "shm_new" /\ half'[p] = "index"
      BY <1>2, <2>4, <1>t DEF WentOn, Raised, Turn, Typing, Number, Creating, Making
    <3>4. Local(p)'
      BY <3>1, <3>2, <1>h DEF Reached, Half
    <3>5. \A h \in Half : SetPending(p, h)' => SetPending(p, h)
      BY <3>1, <3>2, <1>h DEF SetPending
    <3>6. QED
      BY <1>2, <3>1, <3>2, <3>4, <3>5, <1>u DEF SetMade
  <2>5. CASE SetMade(p)
    <3>1. Made(p) /\ Number(p) \in Creation
      BY <2>5, <1>d, <1>c DEF SetMade, Creating, Making
    <3>2. /\ pc[p] = "semget" /\ pc'[p] = "raise" /\ half'[p] = half[p] /\ content' = content
          /\ \A h \in Half : mine'[p].shm[h] = mine[p].shm[h]
          /\ \A h \in Half : mine'[p].sem[h] = IF h = half[p] THEN Number(p) ELSE mine[p].sem[h]
          /\ Number(p)' = Number(p)
      BY <2>5, <1>t, <1>h DEF SetMade, Turn, Leads, Typing, Number, Objects
    <3>3. Local(p)'
      BY <3>1, <3>2, <1>h DEF Reached, Half
    <3>4. \A h \in Half : SetPending(p, h)' => SetPending(p, h) /\ h # half[p]
      BY <3>1, <3>2 DEF SetPending
    <3>5. QED
      BY <1>2, <3>1, <3>2, <3>3, <3>4, <1>u
  <2>6. QED
    <3>1. pc'[p] \in {"shm_new"} \cup Making
      BY <1>2 DEF Creating
    <3>2. \/ Created(p) \/ Named(p) \/ Wrote(p) \/ WentOn(p) \/ Raised(p) \/ SetMade(p)
      BY <3>1, <1>t DEF Step, Turn, Making, Typing,
           Looked, Doomed, Dropped, Died, Refused, GaveUp, Found, SetFound, Unnamed, SetRemoved
    <3>3. QED
      BY <3>2, <2>1, <2>2, <2>3, <2>4, <2>5
<1>3. QED
  <2>1. \A r \in Proc : Creating(r)' => Made(r)'
    BY <1>1, <1>2
  <2>2. QED
    BY <2>1 DEF Creators

(* Where a name or a key leads to something new, a creator gave it to an   *)
(* object of its own.                                                      *)
LEMMA NamesMove ==
  ASSUME Typing, NEW p \in Proc, Step(p), NEW h \in Half
  PROVE  /\ shm'[h] # None /\ shm'[h] # shm[h] =>
              Named(p) /\ h = half[p] /\ shm'[h] = Number(p)
         /\ sem'[h] # None /\ sem'[h] # sem[h] =>
              SetMade(p) /\ h = half[p] /\ sem'[h] = Number(p)
<1>1. half[p] \in Half /\ shm \in Objects /\ sem \in Objects
  BY DEF Typing
<1>2. CASE Named(p)
  BY <1>1, <1>2 DEF Named, Objects
<1>3. CASE SetMade(p)
  BY <1>1, <1>3 DEF SetMade, Objects
<1>4. CASE GaveUp(p) \/ Unnamed(p) \/ SetRemoved(p)
  BY <1>1, <1>4 DEF GaveUp, Unnamed, SetRemoved, Objects
<1>5. CASE UNCHANGED <<shm, sem>>
  BY <1>5
<1>6. QED
  BY <1>2, <1>3, <1>4, <1>5 DEF Step, Created, Looked, Doomed, Dropped, Died, Refused,
     Wrote, WentOn, Raised, Found, SetFound

(* An error is no handle.                                                  *)
LEMMA ErrorsAreNoHandles == \A r \in Errors : r \notin {"none", "created", "opened", "destroyed"}
BY DEF Errors

(* What somebody has was made, and stays made (block.rs).                  *)
LEMMA HoldersStep ==
  ASSUME IInv, NEW p \in Proc, Comes(p)
  PROVE  Holders'
<1>t. Typing /\ Typing' /\ Step(p) /\ Numbered /\ Creators /\ Holders
  BY DEF IInv, Comes
<1>h. /\ "table" \in Half /\ "index" \in Half /\ \A h \in Half : h \in {"table", "index"}
      /\ half[p] \in Half
      /\ mine[p].shm \in Objects /\ mine[p].sem \in Objects
  BY <1>t DEF Half, Typing, Handles
<1>n. /\ \A h \in Half : shm[h] \in {None} \cup Creation /\ sem[h] \in {None} \cup Creation
      /\ \A q \in Proc, h \in Half : /\ mine[q].shm[h] \in {None} \cup Creation
                                     /\ mine[q].sem[h] \in {None} \cup Creation
  BY <1>t DEF Typing, Handles, Objects
<1>c. Creating(p) => /\ Number(p) \in Creation
                     /\ pc[p] # "shm_new" => mine[p].shm[half[p]] = Number(p)
                     /\ content[half[p]][Number(p)] = Reached(p)
                     /\ half[p] = "index" => /\ content["table"][Number(p)] = "ready"
                                             /\ mine[p].sem["table"] = Number(p)
                     /\ pc[p] = "raise" => mine[p].sem[half[p]] = Number(p)
  BY <1>t, CreatorsNumber DEF Creators
<1>g. \A h \in Half, n \in Creation :
        /\ content[h][n] # "none" => content'[h][n] # "none"
        /\ content[h][n] = "ready" => content'[h][n] = "ready"
  BY <1>t, ContentGrows
<1>1. ASSUME NEW h \in Half, shm'[h] # None PROVE content'[h][shm'[h]] # "none"
  <2>1. CASE Named(p) /\ h = half[p]
    BY <2>1, <1>c, <1>t DEF Named, Filled, Creating, Typing, Objects
  <2>2. CASE ~(Named(p) /\ h = half[p])
    <3>1. shm'[h] = shm[h]
      BY <1>1, <2>2, <1>t, NamesMove
    <3>2. QED
      BY <1>1, <3>1, <1>n, <1>g, <1>t DEF Holders
  <2>3. QED
    BY <2>1, <2>2
<1>2. SetMade(p) => /\ Creating(p) /\ Number(p) \in Creation
                    /\ content[half[p]][Number(p)] = "ready" /\ UNCHANGED content
  BY <1>c DEF SetMade, Creating, Making, Reached
<1>3. ASSUME NEW h \in Half, sem'[h] # None PROVE content'[h][sem'[h]] = "ready"
  <2>1. CASE SetMade(p) /\ h = half[p]
    BY <2>1, <1>2, <1>t DEF SetMade, Typing, Objects
  <2>2. CASE ~(SetMade(p) /\ h = half[p])
    <3>1. sem'[h] = sem[h]
      BY <1>3, <2>2, <1>t, NamesMove
    <3>2. QED
      BY <1>3, <3>1, <1>n, <1>g, <1>t DEF Holders
  <2>3. QED
    BY <2>1, <2>2
<1>4. ASSUME NEW q \in Proc, NEW h \in Half, mine'[q].sem[h] # None
      PROVE  content'[h][mine'[q].sem[h]] = "ready"
  <2>1. CASE mine'[q].sem[h] \in {mine[q].sem[h], sem[h]}
    BY <1>4, <2>1, <1>n, <1>g, <1>t DEF Holders
  <2>2. CASE mine'[q].sem[h] \notin {mine[q].sem[h], sem[h]}
    <3>1. q = p
      BY <2>2, <1>t, Others
    <3>2. SetMade(p) /\ h = half[p] /\ mine'[p].sem[h] = Number(p)
      BY <1>4, <2>2, <3>1, <1>t, <1>h
      DEF Step, Leads, Without, Objects, Created, Looked, Doomed, Dropped, Died, Refused, GaveUp,
          Named, Wrote, WentOn, SetMade, Raised, Found, SetFound, Unnamed, SetRemoved
    <3>3. QED
      BY <3>1, <3>2, <1>2
  <2>3. QED
    BY <2>1, <2>2
<1>5. ASSUME NEW q \in Proc, NEW h \in Half, Has(q, h), mine'[q].shm[h] = mine[q].shm[h]
      PROVE  Has(q, h)'
  BY <1>5, <1>n, <1>g DEF Has
<1> DEFINE Owner(q) == \A h \in Half : Has(q, h) /\ mine[q].sem[h] # None
           Opener(q) == /\ pc[q] # "shm_open" => Has(q, half[q])
                        /\ half[q] = "index" => Has(q, "table") /\ mine[q].sem["table"] # None
                        /\ pc[q] = "check" => half[q] = "table"
<1>6. ASSUME NEW q \in Proc, q # p
      PROVE  (Owns(q)' => Owner(q)') /\ (Opening(q)' => Opener(q)')
  <2>1. /\ Owns(q)' <=> Owns(q)
        /\ Opening(q)' <=> Opening(q)
        /\ pc'[q] = pc[q] /\ half'[q] = half[q] /\ mine'[q] = mine[q]
    BY <1>6, <1>t, Others DEF Owns, Opening, InDestroy
  <2>2. half[q] \in Half
    BY <1>t DEF Typing
  <2>3. \A h \in Half : Has(q, h) => Has(q, h)'
    BY <2>1, <1>5
  <2>4. (Owns(q) => Owner(q)) /\ (Opening(q) => Opener(q))
    BY <1>t DEF Holders
  <2>5. QED
    BY <2>1, <2>2, <2>3, <2>4, <1>h
<1>7. ASSUME Owns(p)' PROVE Owner(p)'
  <2>1. CASE Raised(p)
    <3>1. /\ half[p] = "index" /\ pc[p] = "raise" /\ UNCHANGED <<mine, content>>
      BY <1>7, <2>1, <1>t DEF Raised, Turn, Owns, InDestroy, Typing
    <3>2. \A h \in Half : mine[p].shm[h] = Number(p) /\ mine[p].sem[h] = Number(p)
      BY <3>1, <1>c, <1>h DEF Creating, Making, Number
    <3>3. \A h \in Half : content[h][Number(p)] = "ready"
      BY <3>1, <1>c, <1>h DEF Creating, Making, Reached
    <3>4. Number(p) # None
      BY <3>1, <1>t DEF Creators, Creating, Making
    <3>5. QED
      BY <3>1, <3>2, <3>3, <3>4 DEF Has
  <2>2. CASE SetFound(p)
    <3>1. half[p] = "index" /\ pc[p] = "sem_open" /\ sem["index"] # None
      BY <1>7, <2>2, <1>t DEF SetFound, Turn, Owns, InDestroy, Typing
    <3>2. \A h \in Half : Has(p, h)
      BY <3>1, <1>t, <1>h DEF Holders, Opening
    <3>3. \A h \in Half : mine'[p].shm[h] = mine[p].shm[h] /\ mine'[p].sem[h] # None
      BY <2>2, <3>1, <1>t, <1>h DEF SetFound, Leads, Holders, Opening, Objects
    <3>4. QED
      BY <3>2, <3>3, <1>5
  <2>3. CASE ~Raised(p) /\ ~SetFound(p)
    <3>1. Owns(p) /\ mine'[p] = mine[p]
      BY <1>7, <2>3, <1>t, ErrorsAreNoHandles
      DEF Step, Turn, Owns, Holds, InDestroy, InCall, Typing,
          Created, Looked, Doomed, Dropped, Died, Refused, GaveUp,
          Named, Wrote, WentOn, SetMade, Found, Unnamed, SetRemoved
    <3>2. Owner(p)
      BY <3>1, <1>t DEF Holders
    <3>3. QED
      BY <3>1, <3>2, <1>5
  <2>4. QED
    BY <2>1, <2>2, <2>3
<1>8. ASSUME Opening(p)' PROVE Opener(p)'
  <2>1. CASE Looked(p)
    BY <2>1, <1>t DEF Looked, Turn, Typing
  <2>2. CASE Found(p)
    <3>1. /\ Opener(p) /\ pc'[p] = "map_open" /\ half'[p] = half[p] /\ shm[half[p]] # None
          /\ \A h \in Half : /\ mine'[p].shm[h] = IF h = half[p] THEN shm[half[p]] ELSE mine[p].shm[h]
                             /\ mine'[p].sem[h] = mine[p].sem[h]
          /\ content' = content
      BY <2>2, <1>t, <1>h DEF Found, Turn, Leads, Holders, Opening, Typing, Objects
    <3>2. Has(p, half[p])'
      BY <3>1, <1>t, <1>h DEF Has, Holders
    <3>3. half[p] = "index" => Has(p, "table")'
      BY <3>1, <1>5, <1>h
    <3>4. QED
      BY <3>1, <3>2, <3>3, <1>h
  <2>3. CASE WentOn(p)
    <3>1. /\ Opening(p) /\ pc[p] # "shm_open" /\ mine'[p] = mine[p] /\ half'[p] = half[p]
          /\ pc'[p] = "check" => half[p] = "table"
      BY <1>8, <2>3, <1>t DEF WentOn, Turn, Opening, Typing
    <3>2. Opener(p)
      BY <3>1, <1>t DEF Holders
    <3>3. QED
      BY <3>1, <3>2, <1>5, <1>h
  <2>4. CASE SetFound(p)
    <3>1. /\ half[p] = "table" /\ pc[p] = "sem_open" /\ pc'[p] = "shm_open" /\ half'[p] = "index"
          /\ \A h \in Half : mine'[p].shm[h] = mine[p].shm[h]
          /\ mine'[p].sem["table"] # None
      BY <1>8, <2>4, <1>t, <1>h DEF SetFound, Turn, Leads, Opening, Typing, Objects
    <3>2. Has(p, "table")
      BY <3>1, <1>t DEF Holders, Opening
    <3>3. QED
      BY <3>1, <3>2, <1>5, <1>h
  <2>5. QED
    <3>1. Looked(p) \/ Found(p) \/ WentOn(p) \/ SetFound(p)
      BY <1>8, <1>t
      DEF Step, Turn, Opening, Typing, Created, Doomed, Dropped, Died, Refused, GaveUp,
          Named, Wrote, SetMade, Raised, Unnamed, SetRemoved
    <3>2. QED
      BY <3>1, <2>1, <2>2, <2>3, <2>4
<1>9. QED
  <2>1. \A q \in Proc : (Owns(q)' => Owner(q)') /\ (Opening(q)' => Opener(q)')
    BY <1>6, <1>7, <1>8
  <2>2. QED
    BY <1>1, <1>3, <1>4, <2>1 DEF Holders

(* What destroy took away does not come back under its handle: creators    *)
(* give names and keys to objects of their own only (table.rs, destroy).   *)
LEMMA GoneStays ==
  ASSUME IInv, NEW p \in Proc, Comes(p), NEW q \in Proc, NEW h \in Half,
         Owns(q), mine'[q].shm = mine[q].shm, mine'[q].sem = mine[q].sem
  PROVE  /\ shm[h] # mine[q].shm[h] => shm'[h] # mine'[q].shm[h]
         /\ Gone(q, h) => Gone(q, h)'
<1>t. Typing /\ Typing' /\ Step(p) /\ Creators /\ Holders
  BY DEF IInv, Comes
<1>1. /\ mine[q].shm[h] # None /\ content[h][mine[q].shm[h]] # "none"
      /\ mine[q].sem[h] # None
  BY <1>t DEF Holders, Has
<1>2. \/ shm'[h] \in {shm[h], None}
      \/ Named(p) /\ h = half[p] /\ shm'[h] = Number(p)
  BY <1>t, NamesMove
<1>3. Named(p) /\ h = half[p] => content[h][Number(p)] = "none"
  BY <1>t DEF Named, Creators, Creating, Reached
<1>4. \/ sem'[h] \in {sem[h], None}
      \/ SetMade(p) /\ h = half[p] /\ sem'[h] = Number(p)
  BY <1>t, NamesMove
<1>5. SetMade(p) /\ h = half[p] => mine[q].sem[h] # Number(p)
  BY <1>t DEF SetMade, Creators, Creating, Making, SetPending, Half
<1>6. QED
  BY <1>1, <1>2, <1>3, <1>4, <1>5 DEF Gone

(* destroy removes, half by half, what its handle leads to.                *)
LEMMA RemovalsStep ==
  ASSUME IInv, NEW p \in Proc, Comes(p)
  PROVE  Removals'
<1>t. Typing /\ Typing' /\ Step(p) /\ Holders /\ Removals
  BY DEF IInv, Comes
<1>h. /\ "table" \in Half /\ "index" \in Half /\ \A h \in Half : h \in {"table", "index"}
      /\ \A q \in Proc : half[q] \in Half
      /\ shm \in Objects /\ sem \in Objects
  BY <1>t DEF Half, Typing
<1> DEFINE Gives(q) == /\ pc[q] = "rmid" => shm[half[q]] # mine[q].shm[half[q]]
                       /\ InDestroy(q) /\ half[q] = "index" => Gone(q, "table")
                       /\ out[q] = "destroyed" => \A h \in Half : Gone(q, h)
<1>o. \A q \in Proc : Gives(q)
  BY <1>t DEF Removals
<1>1. ASSUME NEW q \in Proc, Owns(q), mine'[q] = mine[q], pc'[q] = pc[q], half'[q] = half[q],
             out'[q] = out[q]
      PROVE  Gives(q)'
  <2>1. \A h \in Half : /\ shm[h] # mine[q].shm[h] => shm'[h] # mine'[q].shm[h]
                        /\ Gone(q, h) => Gone(q, h)'
    BY <1>1, GoneStays
  <2>2. Gives(q) /\ half[q] \in Half
    BY <1>o, <1>h
  <2>3. QED
    BY <2>1, <2>2, <1>1, <1>h DEF InDestroy
<1>2. ASSUME NEW q \in Proc, ~Owns(q)' PROVE Gives(q)'
  BY <1>2 DEF Owns, InDestroy
<1>3. ASSUME NEW q \in Proc, q # p PROVE Gives(q)'
  BY <1>1, <1>2, <1>3, <1>t, Others DEF Owns, InDestroy
<1>4. ASSUME Owns(p)' PROVE Gives(p)'
  <2>1. CASE Unnamed(p)
    <3>1. /\ pc[p] = "unlink" /\ pc'[p] = "rmid" /\ half'[p] = half[p] /\ out'[p] = out[p]
          /\ mine' = mine /\ Owns(p) /\ shm'[half[p]] = None
      BY <2>1, <1>t, <1>h DEF Unnamed, Turn, Typing, Objects, Owns, InDestroy
    <3>2. mine[p].shm[half[p]] # None
      BY <3>1, <1>t, <1>h DEF Holders, Has
    <3>3. out[p] = "none"
      BY <3>1, <1>t DEF Typing
    <3>4. Gone(p, "table") => Gone(p, "table")'
      BY <3>1, <1>h, GoneStays
    <3>5. QED
      BY <3>1, <3>2, <3>3, <3>4, <1>o DEF InDestroy
  <2>2. CASE SetRemoved(p)
    <3>1. /\ pc[p] = "rmid" /\ mine' = mine /\ Owns(p) /\ shm' = shm /\ out[p] = "none"
          /\ \/ /\ half[p] = "table" /\ pc'[p] = "unlink" /\ half'[p] = "index" /\ out'[p] = "none"
                /\ sem'["table"] = None
             \/ /\ half[p] = "index" /\ pc'[p] = "idle" /\ out'[p] = "destroyed"
                /\ sem'["index"] = None
      BY <2>2, <1>t, <1>h DEF SetRemoved, Turn, Typing, Objects, Owns, InDestroy
    <3>2. ASSUME NEW h \in Half, h = half[p] PROVE Gone(p, h)'
      <4>1. mine[p].sem[h] # None
        BY <3>1, <3>2, <1>t DEF Holders
      <4>2. shm[h] # mine[p].shm[h] /\ sem'[h] = None
        BY <3>1, <3>2, <1>o
      <4>3. QED
        BY <3>1, <4>1, <4>2 DEF Gone
    <3>3. Gone(p, "table") => Gone(p, "table")'
      BY <3>1, <1>h, GoneStays
    <3>4. QED
      BY <3>1, <3>2, <3>3, <1>o, <1>h DEF InDestroy
  <2>3. CASE Doomed(p) \/ Raised(p) \/ SetFound(p)
    BY <2>3, <1>t DEF Doomed, Raised, SetFound, Turn, Typing, InDestroy, Holds
  <2>4. CASE ~Unnamed(p) /\ ~SetRemoved(p) /\ ~Doomed(p) /\ ~Raised(p) /\ ~SetFound(p)
    <3>1. FALSE
      BY <1>4, <2>4, <1>t, ErrorsAreNoHandles
      DEF Step, Turn, Owns, InDestroy, InCall, Typing, Holds,
          Created, Looked, Dropped, Died, Refused, GaveUp, Named, Wrote, WentOn, SetMade, Found
    <3>2. QED
      BY <3>1
  <2>5. QED
    BY <2>1, <2>2, <2>3, <2>4
<1>5. QED
  <2>1. \A q \in Proc : Gives(q)'
    BY <1>2, <1>3, <1>4
  <2>2. QED
    BY <2>1 DEF Removals

(* Whoever leaves its block half made takes the name back, or dies         *)
(* (block.rs, new).                                                        *)
LEMMA MakersStep ==
  ASSUME IInv, NEW p \in Proc, Comes(p)
  PROVE  Makers'
<1>t. Typing /\ Typing' /\ Step(p) /\ Creators /\ Holders /\ Makers
  BY DEF IInv, Comes
<1> DEFINE Maker(r, h) == /\ mine[r].shm[h] = shm[h]
                          /\ \/ pc[r] = "dead"
                             \/ pc[r] \in {"truncate", "map", "header", "slots"} /\ half[r] = h
<1>1. SUFFICES ASSUME NEW h \in Half, shm'[h] # None, content'[h][shm'[h]] # "ready"
               PROVE  \E r \in Proc : Maker(r, h)'
  BY DEF Makers
<1>n. half[p] \in Half /\ shm[h] \in {None} \cup Creation /\ mine[p].shm \in Objects
  BY <1>t DEF Typing, Objects, Handles
<1>2. CASE Named(p) /\ h = half[p]
  <2>1. Maker(p, h)'
    BY <1>2, <1>t, <1>n DEF Named, Turn, Leads, Typing, Objects
  <2>2. QED
    BY <2>1
<1>3. CASE ~(Named(p) /\ h = half[p])
  <2>1. shm'[h] = shm[h]
    BY <1>1, <1>3, <1>t, NamesMove
  <2>2. content[h][shm[h]] # "ready"
    BY <1>1, <2>1, <1>t, <1>n, ContentGrows
  <2>3. PICK r \in Proc : Maker(r, h)
    BY <1>1, <2>1, <2>2, <1>t DEF Makers
  <2>4. CASE r # p
    BY <2>1, <2>3, <2>4, <1>t, Others
  <2>5. CASE r = p
    <3>1. pc[p] # "dead"
      BY <1>t
      DEF Step, Created, Looked, Doomed, Dropped, Died, Refused, GaveUp, InCall, Holds, Opening,
          Named, Wrote, WentOn, SetMade, Raised, Found, SetFound, Unnamed, SetRemoved
    <3>2. pc[p] \in {"truncate", "map", "header", "slots"} /\ half[p] = h /\ mine[p].shm[h] = shm[h]
      BY <2>3, <2>5, <3>1
    <3>3. shm[h] = Number(p) /\ Number(p) \in Creation
      BY <3>2, CreatorsNumber DEF Creating, Making
    <3>4. Wrote(p) \/ WentOn(p) \/ GaveUp(p) \/ Died(p)
      BY <3>2, <1>t
      DEF Step, Created, Looked, Doomed, Dropped, Refused, InCall, Holds, Opening,
          Named, SetMade, Raised, Found, SetFound, Unnamed, SetRemoved
    <3>5. ~GaveUp(p)
      BY <1>1, <2>1, <3>2, <1>t DEF GaveUp, Typing, Objects
    <3>6. CASE Wrote(p)
      <4>1. pc[p] # "slots"
        BY <1>1, <2>1, <3>2, <3>3, <3>6 DEF Wrote, Filled
      <4>2. QED
        BY <2>1, <3>2, <3>6, <4>1, <1>t DEF Wrote, Turn, Typing
    <3>7. CASE WentOn(p) \/ Died(p)
      BY <2>1, <3>2, <3>7, <1>t DEF WentOn, Died, Turn, Typing
    <3>8. QED
      BY <3>4, <3>5, <3>6, <3>7
  <2>6. QED
    BY <2>4, <2>5
<1>4. QED
  BY <1>2, <1>3

(* Once untidy, always untidy.                                             *)
LEMMA TidyOnce == ASSUME Typing, NEW p \in Proc, Step(p), tidy' PROVE tidy
BY DEF Typing, Step, Created, Looked, Doomed, Dropped, Died, Refused, GaveUp, Named, Wrote,
       WentOn, SetMade, Raised, Found, SetFound, Unnamed, SetRemoved

(* The three parts of Tidy.                                                *)
HoldersEntire == \A p \in Proc : Holds(p) \/ InDestroy(p) => Entire(p)

DestroyAlone ==
  \A p \in Proc : InDestroy(p) => HalfDestroyed(p) /\ \A q \in Proc : q # p => ~InCall(q)

InOrder ==
  /\ Consistent
  /\ \A p \in Proc : Creating(p) => CreatorNamed(p)
  /\ \A p \in Proc : Opening(p) => OpenerNamed(p)

(* What Tidy says of a process that creates or opens while nobody          *)
(* destroys, and of one that destroys.                                     *)
LEMMA TidyParts ==
  Tidy <=> (tidy => HoldersEntire /\ DestroyAlone /\ (NoDestroy => InOrder))
BY DEF Tidy, HoldersEntire, DestroyAlone, InOrder

(* A table that somebody opens has its number from the object it found,    *)
(* and once open has found the set of the records their slots are made     *)
(* (table.rs, open).                                                       *)
LEMMA OpenersNumber ==
  ASSUME IInv, NEW p \in Proc, Opening(p), pc[p] # "shm_open" \/ half[p] = "index"
  PROVE  /\ Number(p) # None /\ Number(p) \in Creation
         /\ content["table"][Number(p)] # "none"
         /\ half[p] = "index" /\ mine[p].sem["table"] = Number(p) => Headed(p)
<1>1. Has(p, "table") /\ mine[p].shm \in Objects /\ half[p] \in {"table", "index"}
  BY DEF IInv, Holders, Typing, Handles, Half
<1>2. Number(p) # None /\ Number(p) \in Creation /\ content["table"][Number(p)] # "none"
  BY <1>1 DEF Has, Number, Objects, Half
<1>3. half[p] = "index" /\ mine[p].sem["table"] = Number(p) => Headed(p)
  BY <1>2 DEF IInv, Holders, Headed, Half
<1>4. QED
  BY <1>2, <1>3

(* In tidy states handles lead to one table, whether their owner has       *)
(* created or opened it (table.rs:313).                                    *)
LEMMA EntireStep ==
  ASSUME IInv, NEW p \in Proc, Comes(p), tidy'
  PROVE  HoldersEntire'
<1>t. /\ Typing /\ Typing' /\ Step(p) /\ Creators /\ Holders /\ tidy
      /\ HoldersEntire /\ DestroyAlone /\ (NoDestroy => InOrder)
  BY TidyOnce, TidyParts DEF IInv, Comes
<1>h. /\ "table" \in Half /\ "index" \in Half /\ \A h \in Half : h \in {"table", "index"}
      /\ half[p] \in Half /\ mine[p].shm \in Objects /\ mine[p].sem \in Objects
  BY <1>t DEF Half, Typing, Handles
<1>1. ASSUME NEW q \in Proc, q # p, Holds(q)' \/ InDestroy(q)' PROVE Entire(q)'
  <2>1. (Holds(q) \/ InDestroy(q)) /\ mine'[q] = mine[q] /\ Number(q)' = Number(q)
    BY <1>1, <1>t, Others DEF Holds, InDestroy
  <2>2. Entire(q)
    BY <2>1, <1>t DEF HoldersEntire
  <2>3. QED
    BY <2>1, <2>2 DEF Entire
<1>2. ASSUME Holds(p)' \/ InDestroy(p)' PROVE Entire(p)'
  <2>1. CASE Raised(p)
    <3>1. half[p] = "index" /\ pc[p] = "raise" /\ mine' = mine /\ Number(p)' = Number(p)
      BY <1>2, <2>1, <1>t DEF Raised, Turn, Holds, InDestroy, Typing, Number
    <3>2. \A h \in Half : mine[p].shm[h] = Number(p) /\ mine[p].sem[h] = Number(p)
      BY <3>1, <1>t, <1>h DEF Creators, Creating, Making, Number
    <3>3. QED
      BY <3>1, <3>2 DEF Entire
  <2>2. CASE SetFound(p)
    <3>1. /\ half[p] = "index" /\ pc[p] = "sem_open" /\ sem["index"] # None
          /\ \A h \in Half : /\ mine'[p].shm[h] = mine[p].shm[h]
                             /\ mine'[p].sem[h] = IF h = "index" THEN sem["index"] ELSE mine[p].sem[h]
      BY <1>2, <2>2, <1>t, <1>h DEF SetFound, Turn, Leads, Holds, InDestroy, Typing, Objects
    <3>2. OpenerNamed(p) /\ Consistent
      <4>1. NoDestroy
        BY <3>1, <1>t DEF DestroyAlone, NoDestroy, InDestroy, InCall
      <4>2. QED
        BY <3>1, <4>1, <1>t DEF InOrder, Opening
    <3>3. /\ Headed(p) /\ shm["table"] = Number(p)
          /\ mine[p].sem["table"] = Number(p) /\ mine[p].shm["index"] = Number(p)
      BY <3>1, <3>2 DEF OpenerNamed
    <3>4. sem["index"] = Number(p)
      BY <3>1, <3>2, <3>3, <1>h DEF Consistent
    <3>5. QED
      BY <3>1, <3>3, <3>4, <1>h DEF Entire, Number
  <2>3. CASE ~Raised(p) /\ ~SetFound(p)
    <3>0. Doomed(p) \/ Unnamed(p) \/ SetRemoved(p)
      BY <1>2, <2>3, <1>t, Ways, ErrorsAreNoHandles DEF Step, Holds, InDestroy
    <3>1. (Holds(p) \/ InDestroy(p)) /\ mine'[p] = mine[p] /\ Number(p)' = Number(p)
      BY <3>0 DEF Doomed, Unnamed, SetRemoved, InDestroy, Number
    <3>2. Entire(p)
      BY <3>1, <1>t DEF HoldersEntire
    <3>3. QED
      BY <3>1, <3>2 DEF Entire
  <2>4. QED
    BY <2>1, <2>2, <2>3
<1>3. QED
  BY <1>1, <1>2 DEF HoldersEntire

(* A tidy destroy is alone and finds everything it looks for, and what it  *)
(* leaves behind is nothing (table.rs, destroy).                           *)
LEMMA AloneStep ==
  ASSUME IInv, NEW p \in Proc, Comes(p), tidy', ~NoDestroy
  PROVE  DestroyAlone' /\ (NoDestroy' => InOrder' /\ shm'["table"] = None)
<1>t. /\ Typing /\ Typing' /\ Step(p) /\ Creators /\ Holders /\ tidy
      /\ HoldersEntire /\ DestroyAlone
  BY TidyOnce, TidyParts DEF IInv, Comes
<1>h. /\ "table" \in Half /\ "index" \in Half /\ \A h \in Half : h \in {"table", "index"}
      /\ shm \in Objects /\ sem \in Objects
      /\ \A q \in Proc : half[q] \in Half
  BY <1>t DEF Half, Typing
<1>1. PICK d \in Proc : InDestroy(d)
  BY DEF NoDestroy
<1>2. /\ HalfDestroyed(d) /\ Entire(d)
      /\ \A q \in Proc : q # d => ~InCall(q)
      /\ Number(d) # None /\ out[d] = "none"
  BY <1>1, <1>t, <1>h DEF DestroyAlone, HoldersEntire, Holders, Owns, Has, Number, Typing, InDestroy
<1>3. CASE p # d
  <2>1. ~InCall(p)
    BY <1>2, <1>3
  <2>2. Created(p) \/ Looked(p) \/ Doomed(p) \/ Dropped(p)
    BY <2>1, <1>t, Ways DEF Step, InCall, Opening
  <2>3. ~Created(p) /\ ~Looked(p)
    BY DEF Created, Looked
  <2>4. ~Doomed(p)
    BY <1>1 DEF Doomed, InDestroy, InCall
  <2>5. Dropped(p)
    BY <2>2, <2>3, <2>4
  <2>6. /\ pc' = pc /\ half' = half /\ shm' = shm /\ sem' = sem
        /\ Number(d)' = Number(d)
    BY <2>5, <1>3, <1>t DEF Dropped, Turn, Typing, Holds, Leads, Number
  <2>7. HalfDestroyed(d)'
    BY <1>2, <2>6 DEF HalfDestroyed
  <2>8. \A q \in Proc : InDestroy(q)' => q = d
    BY <1>2, <2>6 DEF InDestroy, InCall
  <2>9. \A q \in Proc : q # d => ~InCall(q)'
    BY <1>2, <2>6 DEF InCall
  <2>10. InDestroy(d)'
    BY <1>1, <2>6 DEF InDestroy
  <2>11. QED
    BY <2>7, <2>8, <2>9, <2>10 DEF DestroyAlone, NoDestroy
<1>4. CASE p = d
  <2>1. \A q \in Proc : q # d => pc'[q] = pc[q]
    BY <1>4, <1>t, Others
  <2>2. \A q \in Proc : q # d => ~InCall(q)'
    BY <1>2, <2>1 DEF InCall
  <2>3. ASSUME HalfDestroyed(d)' PROVE DestroyAlone'
    BY <2>2, <2>3 DEF DestroyAlone, InDestroy, InCall
  <2>4. CASE Unnamed(d)
    <3>1. /\ pc[d] = "unlink" /\ pc'[d] = "rmid" /\ half'[d] = half[d] /\ sem' = sem
          /\ \A h \in Half : shm'[h] = IF h = half[d] THEN None ELSE shm[h]
          /\ Number(d)' = Number(d)
      BY <2>4, <1>t, <1>h DEF Unnamed, Turn, Typing, Objects, Number
    <3>2. HalfDestroyed(d)'
      BY <1>2, <3>1, <1>h DEF HalfDestroyed
    <3>3. InDestroy(d)'
      BY <3>1 DEF InDestroy
    <3>4. QED
      BY <2>3, <3>2, <3>3 DEF NoDestroy
  <2>5. CASE SetRemoved(d) /\ half[d] = "table"
    <3>1. /\ pc[d] = "rmid" /\ pc'[d] = "unlink" /\ half'[d] = "index" /\ shm' = shm
          /\ \A h \in Half : sem'[h] = IF h = half[d] THEN None ELSE sem[h]
          /\ Number(d)' = Number(d)
      BY <2>5, <1>t, <1>h DEF SetRemoved, Turn, Typing, Objects, Number
    <3>2. HalfDestroyed(d)'
      BY <1>2, <2>5, <3>1, <1>h DEF HalfDestroyed
    <3>3. InDestroy(d)'
      BY <3>1 DEF InDestroy
    <3>4. QED
      BY <2>3, <3>2, <3>3 DEF NoDestroy
  <2>6. CASE SetRemoved(d) /\ half[d] = "index"
    <3>1. /\ pc[d] = "rmid" /\ pc'[d] = "idle" /\ shm' = shm
          /\ \A h \in Half : sem'[h] = IF h = "index" THEN None ELSE sem[h]
      BY <2>6, <1>t, <1>h DEF SetRemoved, Turn, Typing, Objects
    <3>2. \A h \in Half : shm'[h] = None /\ sem'[h] = None
      BY <1>2, <2>6, <3>1, <1>h DEF HalfDestroyed
    <3>3. \A q \in Proc : pc'[q] \in {"idle", "dead"}
      BY <2>2, <3>1 DEF InCall
    <3>4. Consistent'
      BY <3>2, <1>h DEF Consistent
    <3>5. QED
      BY <3>2, <3>3, <3>4, <1>h DEF DestroyAlone, InOrder, InDestroy, Creating, Opening, Making
  <2>7. CASE ~Unnamed(d) /\ ~SetRemoved(d)
    <3>1. Refused(d)
      <4>1. ~Died(d)
        BY <1>1, <1>4 DEF Died
      <4>2. QED
        BY <1>1, <1>4, <2>7, <4>1, <1>t, Ways DEF Step, InDestroy
    <3>2. \/ pc[d] = "unlink" /\ shm[half[d]] = None
          \/ pc[d] = "rmid" /\ sem[half[d]] # mine[d].sem[half[d]]
      BY <1>1, <3>1 DEF Refused, InDestroy, Opening
    <3>3. FALSE
      BY <1>2, <3>2, <1>h DEF HalfDestroyed, Entire
    <3>4. QED
      BY <3>3
  <2>8. QED
    BY <2>4, <2>5, <2>6, <2>7, <1>h
<1>5. QED
  BY <1>3, <1>4

(* A destroy begins alone, through a handle whose table has all the names. *)
LEMMA BeginsAlone ==
  ASSUME IInv, NEW p \in Proc, Comes(p), tidy', NoDestroy
  PROVE  DestroyAlone'
<1>t. Typing /\ Typing' /\ Step(p) /\ tidy /\ HoldersEntire
  BY TidyOnce, TidyParts DEF IInv, Comes
<1>1. CASE Doomed(p)
  <2>1. /\ Entire(p) /\ shm' = mine[p].shm /\ sem' = mine[p].sem /\ Number(p)' = Number(p)
        /\ pc'[p] = "unlink" /\ half'[p] = "table"
        /\ \A q \in Proc : ~InCall(q)
    BY <1>1, <1>t DEF Doomed, Turn, Stale, Typing, HoldersEntire, Number
  <2>2. HalfDestroyed(p)'
    BY <2>1 DEF HalfDestroyed, Entire, Half, Number
  <2>3. \A q \in Proc : q # p => ~InCall(q)'
    BY <2>1, <1>t, Others DEF InCall
  <2>4. QED
    BY <2>2, <2>3 DEF DestroyAlone, InDestroy, InCall
<1>2. CASE ~Doomed(p)
  <2>1. ~InDestroy(p)'
    BY <1>2, <1>t, Ways DEF Step, NoDestroy, InDestroy
  <2>2. \A q \in Proc : q # p => ~InDestroy(q)'
    BY <1>t, Others DEF NoDestroy, InDestroy
  <2>3. QED
    BY <2>1, <2>2 DEF DestroyAlone
<1>3. QED
  BY <1>1, <1>2

(* The same of other creators and openers: what p takes away is its own,   *)
(* what it makes was missing (block.rs and semaphore.rs).                  *)
LEMMA OrderOfOthers ==
  ASSUME IInv, NEW p \in Proc, Comes(p), tidy', NoDestroy, NEW q \in Proc, q # p
  PROVE  /\ Creating(q)' => CreatorNamed(q)'
         /\ Opening(q)' => OpenerNamed(q)'
<1>t. /\ Typing /\ Typing' /\ Step(p) /\ Numbered /\ Creators /\ Holders /\ tidy /\ InOrder
  BY TidyOnce, TidyParts DEF IInv, Comes
<1>h. /\ "table" \in Half /\ "index" \in Half /\ \A h \in Half : h \in {"table", "index"}
      /\ half[p] \in Half /\ half[q] \in Half
      /\ mine[p].shm \in Objects /\ mine[q].shm \in Objects
      /\ shm \in Objects /\ sem \in Objects
  BY <1>t DEF Half, Typing, Handles
<1>q. /\ pc'[q] = pc[q] /\ half'[q] = half[q] /\ mine'[q] = mine[q] /\ Number(q)' = Number(q)
      /\ Creating(q)' <=> Creating(q)
      /\ Opening(q)' <=> Opening(q)
  BY <1>t, Others DEF Creating, Opening
<1>1. \A h \in Half : shm'[h] # shm[h] =>
        \/ shm[h] = None
        \/ GaveUp(p) /\ h = half[p] /\ shm[h] = Number(p) /\ Creating(p)
  <2>1. CASE GaveUp(p)
    <3>1. Creating(p) /\ pc[p] # "shm_new"
      BY <2>1 DEF GaveUp, Creating, Making
    <3>2. shm[half[p]] = Number(p)
      BY <3>1, <1>t DEF InOrder, CreatorNamed
    <3>3. QED
      BY <2>1, <3>1, <3>2, <1>h DEF GaveUp, Objects
  <2>2. CASE ~GaveUp(p)
    <3>1. ~Unnamed(p)
      BY DEF Unnamed, NoDestroy, InDestroy
    <3>2. CASE Named(p)
      BY <3>2, <1>h DEF Named, Objects
    <3>3. CASE ~Named(p)
      BY <2>2, <3>1, <3>3, <1>t DEF Step, Created, Looked, Doomed, Dropped, Died, Refused,
         Wrote, WentOn, SetMade, Raised, Found, SetFound, SetRemoved
    <3>4. QED
      BY <3>2, <3>3
  <2>3. QED
    BY <2>1, <2>2
<1>2. \A h \in Half : sem'[h] # sem[h] => sem[h] = None
  <2>1. ~SetRemoved(p)
    BY DEF SetRemoved, NoDestroy, InDestroy
  <2>2. CASE SetMade(p)
    BY <2>2, <1>h DEF SetMade, Objects
  <2>3. CASE ~SetMade(p)
    BY <2>1, <2>3, <1>t DEF Step, Created, Looked, Doomed, Dropped, Died, Refused,
         GaveUp, Named, Wrote, WentOn, Raised, Found, SetFound, Unnamed
  <2>4. QED
    BY <2>2, <2>3
<1>3. ASSUME Creating(q) PROVE CreatorNamed(q)'
  <2>1. CreatorNamed(q) /\ Number(q) # None /\ (Creating(p) => Number(p) # Number(q))
    BY <1>3, <1>t DEF InOrder, Creators, Numbered
  <2>2. \A h \in Half : /\ shm[h] = Number(q) => shm'[h] = Number(q)
                        /\ sem[h] = Number(q) => sem'[h] = Number(q)
    BY <2>1, <1>1, <1>2
  <2>3. QED
    BY <2>1, <2>2, <1>q, <1>h DEF CreatorNamed
<1>4. ASSUME Opening(q) PROVE OpenerNamed(q)'
  <2>1. OpenerNamed(q)
    BY <1>4, <1>t DEF InOrder
  <2>2. CASE pc[q] # "shm_open" \/ half[q] = "index"
    <3>1. Number(q) # None /\ Number(q) \in Creation /\ content["table"][Number(q)] # "none"
      BY <1>4, <2>2, OpenersNumber
    <3>2. Headed(q) => Headed(q)'
      <4>1. CASE Named(p) \/ Wrote(p)
        <5>1. /\ Creating(p) /\ content[half[p]][Number(p)] = Reached(p)
              /\ pc[p] = "header" => half[p] = "table"
          BY <4>1, <1>t, Ways DEF Creators, Creating, Making
        <5>2. CASE Named(p)
          BY <5>1, <5>2, <3>1, <1>q, <1>h DEF Named, Filled, Reached, Headed
        <5>3. CASE Wrote(p)
          BY <5>1, <5>3, <3>1, <1>q, <1>h DEF Wrote, Filled, Reached, Headed
        <5>4. QED
          BY <4>1, <5>2, <5>3
      <4>2. CASE content' = content
        BY <4>2, <1>q DEF Headed
      <4>3. QED
        BY <4>1, <4>2, <1>t DEF Step, Created, Looked, Doomed, Dropped, Died, Refused,
           GaveUp, WentOn, SetMade, Raised, Found, SetFound, Unnamed, SetRemoved
    <3>3. ASSUME Headed(q)' PROVE Headed(q) \/ shm'["table"] = Number(q)
      <4>1. CASE content'["table"][Number(q)] = content["table"][Number(q)]
        BY <3>3, <4>1, <1>q DEF Headed
      <4>2. CASE content'["table"][Number(q)] # content["table"][Number(q)]
        <5>1. /\ Creating(p) /\ half[p] = "table" /\ Number(p) = Number(q)
              /\ pc[p] \in {"shm_new", "truncate", "header", "slots"}
          BY <4>2, <3>1, <1>t, <1>h, ContentGrows
        <5>2. pc[p] # "shm_new"
          BY <5>1, <3>1, <1>t DEF Creators, Reached
        <5>3. shm["table"] = Number(q)
          BY <5>1, <5>2, <1>t DEF InOrder, CreatorNamed
        <5>4. CASE GaveUp(p)
          BY <4>2, <5>4 DEF GaveUp
        <5>5. CASE ~GaveUp(p)
          BY <5>3, <5>5, <3>1, <1>1, <1>h
        <5>6. QED
          BY <5>4, <5>5
      <4>3. QED
        BY <4>1, <4>2
    <3>4. ASSUME Headed(q)' PROVE shm'["table"] = Number(q)
      <4>1. CASE Headed(q) /\ shm'["table"] # Number(q)
        <5>1. shm["table"] = Number(q)
          BY <2>1, <2>2, <4>1 DEF OpenerNamed
        <5>2. GaveUp(p) /\ half[p] = "table" /\ Number(p) = Number(q) /\ Creating(p)
          BY <4>1, <5>1, <3>1, <1>1, <1>h
        <5>3. content["table"][Number(q)] \in {"empty", "zero"}
          BY <5>2, <1>t DEF GaveUp, Creators, Reached
        <5>4. QED
          BY <4>1, <5>3 DEF Headed
      <4>2. QED
        BY <3>3, <3>4, <4>1
    <3>5. QED
      BY <2>1, <3>2, <3>4, <1>q DEF OpenerNamed
  <2>3. CASE ~(pc[q] # "shm_open" \/ half[q] = "index")
    BY <2>3, <1>q DEF OpenerNamed
  <2>4. QED
    BY <2>2, <2>3
<1>5. QED
  BY <1>3, <1>4, <1>q

(* While nobody destroys, keys follow names and the name of the index      *)
(* follows the one of the records (table.rs, create_with_size).            *)
LEMMA ConsistentStep ==
  ASSUME IInv, NEW p \in Proc, Comes(p), tidy', NoDestroy
  PROVE  Consistent'
<1>t. /\ Typing /\ Typing' /\ Step(p) /\ Creators /\ Holders /\ tidy /\ InOrder /\ Consistent
  BY TidyOnce, TidyParts DEF IInv, Comes, InOrder
<1>h. /\ "table" \in Half /\ "index" \in Half /\ \A h \in Half : h \in {"table", "index"}
      /\ half[p] \in Half /\ shm \in Objects /\ sem \in Objects
  BY <1>t DEF Half, Typing
<1>c. Creating(p) => CreatorNamed(p) /\ content[half[p]][Number(p)] = Reached(p)
  BY <1>t DEF InOrder, Creators
<1>1. CASE GaveUp(p)
  <2>1. /\ Creating(p) /\ shm[half[p]] = Number(p)
        /\ content[half[p]][Number(p)] \in {"empty", "zero"}
        /\ half[p] = "table" => content["index"][Number(p)] = "none"
    BY <1>1, <1>c, <1>t DEF GaveUp, CreatorNamed, Creating, Making, Reached, Creators
  <2>2. sem[half[p]] = None
    BY <2>1, <1>t, <1>h DEF Consistent, Holders
  <2>3. half[p] = "table" => shm["index"] = None
    BY <2>1, <1>t, <1>h DEF Consistent, Holders
  <2>4. sem' = sem /\ \A h \in Half : shm'[h] = IF h = half[p] THEN None ELSE shm[h]
    BY <1>1, <1>h DEF GaveUp, Objects
  <2>5. QED
    BY <2>2, <2>3, <2>4, <1>t, <1>h DEF Consistent
<1>2. CASE Named(p)
  <2>1. /\ Creating(p) /\ shm[half[p]] = None
        /\ half[p] = "index" => shm["table"] = Number(p)
        /\ sem' = sem /\ \A h \in Half : shm'[h] = IF h = half[p] THEN Number(p) ELSE shm[h]
    BY <1>2, <1>c, <1>h DEF Named, Creating, CreatorNamed, Objects
  <2>2. QED
    BY <2>1, <1>t, <1>h DEF Consistent
<1>3. CASE SetMade(p)
  <2>1. /\ shm[half[p]] = Number(p)
        /\ shm' = shm /\ \A h \in Half : sem'[h] = IF h = half[p] THEN Number(p) ELSE sem[h]
    BY <1>3, <1>c, <1>h DEF SetMade, Creating, Making, CreatorNamed, Objects
  <2>2. QED
    BY <2>1, <1>t, <1>h DEF Consistent
<1>4. CASE UNCHANGED <<shm, sem>>
  BY <1>4, <1>t DEF Consistent
<1>5. QED
  <2>1. ~Unnamed(p) /\ ~SetRemoved(p)
    BY DEF Unnamed, SetRemoved, NoDestroy, InDestroy
  <2>2. QED
    BY <2>1, <1>1, <1>2, <1>3, <1>4, <1>t DEF Step, Created, Looked, Doomed, Dropped, Died,
       Refused, Wrote, WentOn, Raised, Found, SetFound

(* And so do the handles of who creates or opens (table.rs).               *)
LEMMA OrderOfOwn ==
  ASSUME IInv, NEW p \in Proc, Comes(p), tidy', NoDestroy
  PROVE  /\ Creating(p)' => CreatorNamed(p)'
         /\ Opening(p)' => OpenerNamed(p)'
<1>t. /\ Typing /\ Typing' /\ Step(p) /\ Creators /\ Holders /\ tidy /\ InOrder /\ Consistent
  BY TidyOnce, TidyParts DEF IInv, Comes, InOrder
<1>h. /\ "table" \in Half /\ "index" \in Half /\ \A h \in Half : h \in {"table", "index"}
      /\ half[p] \in Half /\ shm \in Objects /\ sem \in Objects
      /\ mine[p].shm \in Objects /\ mine[p].sem \in Objects
  BY <1>t DEF Half, Typing, Handles
<1> USE <1>h
<1>c. Creating(p) => CreatorNamed(p)
  BY <1>t DEF InOrder
<1>o. Opening(p) => OpenerNamed(p)
  BY <1>t DEF InOrder
<1>1. CASE Created(p) \/ Looked(p)
  BY <1>1, <1>t DEF Created, Looked, Turn, Typing, Creating, Making, Opening, CreatorNamed, OpenerNamed
<1>2. CASE Named(p)
  <2>1. /\ Creating(p) /\ pc'[p] = "truncate" /\ half'[p] = half[p] /\ Number(p)' = Number(p)
        /\ sem' = sem /\ \A h \in Half : shm'[h] = IF h = half[p] THEN Number(p) ELSE shm[h]
    BY <1>2, <1>t DEF Named, Turn, Leads, Typing, Objects, Creating, Number
  <2>2. QED
    BY <2>1, <1>c DEF CreatorNamed, Opening
<1>3. CASE Wrote(p)
  <2>1. /\ Creating(p) /\ pc[p] \in Making \ {"raise"} /\ pc'[p] \in Making \ {"raise"}
        /\ half'[p] = half[p] /\ Number(p)' = Number(p) /\ shm' = shm /\ sem' = sem
    BY <1>3, <1>t, Ways DEF Wrote, Turn, Typing, Creating, Making, Number
  <2>2. QED
    BY <2>1, <1>c DEF CreatorNamed, Opening, Making
<1>4. CASE WentOn(p)
  <2>1. UNCHANGED <<shm, sem, content, mine>> /\ half'[p] = half[p] /\ Number(p)' = Number(p)
    BY <1>4, <1>t DEF WentOn, Turn, Typing, Number
  <2>2. CASE pc[p] = "map"
    <3>1. Creating(p) /\ pc'[p] \in {"header", "slots"}
      BY <1>4, <2>2, <1>t, Ways DEF Creating, Making
    <3>2. QED
      BY <2>1, <2>2, <3>1, <1>c DEF CreatorNamed, Opening
  <2>3. CASE pc[p] \in {"map_open", "check"}
    <3>1. Opening(p) /\ pc'[p] \in {"check", "sem_open"} /\ Headed(p)' = Headed(p)
      BY <1>4, <2>1, <2>3, <1>t, Ways DEF Opening, Headed
    <3>2. pc'[p] = "sem_open" => Headed(p)
      <4>1. pc'[p] = "sem_open" => (pc[p] = "check" /\ Headed(p)) \/ half[p] = "index"
        BY <1>4, <2>3, <1>t DEF WentOn, Turn, Typing
      <4>2. half[p] = "index" => Headed(p)
        BY <3>1, <1>o, OpenersNumber DEF OpenerNamed
      <4>3. QED
        BY <4>1, <4>2
    <3>3. QED
      BY <2>1, <2>3, <3>1, <3>2, <1>o DEF OpenerNamed, Creating, Making
  <2>4. QED
    BY <1>4, <2>2, <2>3 DEF WentOn
<1>5. CASE SetMade(p)
  <2>1. /\ Creating(p) /\ pc[p] = "semget" /\ pc'[p] = "raise" /\ half'[p] = half[p]
        /\ Number(p)' = Number(p)
        /\ shm' = shm /\ \A h \in Half : sem'[h] = IF h = half[p] THEN Number(p) ELSE sem[h]
    BY <1>5, <1>t DEF SetMade, Turn, Leads, Typing, Objects, Creating, Making, Number
  <2>2. QED
    BY <2>1, <1>c DEF CreatorNamed, Opening
<1>6. CASE Raised(p)
  <2>1. /\ Creating(p) /\ pc[p] = "raise" /\ UNCHANGED <<shm, sem, mine>> /\ Number(p)' = Number(p)
        /\ \/ half[p] = "table" /\ pc'[p] = "shm_new" /\ half'[p] = "index"
           \/ pc'[p] = "idle"
    BY <1>6, <1>t DEF Raised, Turn, Typing, Creating, Making, Number
  <2>2. QED
    BY <2>1, <1>c DEF CreatorNamed, Creating, Making, Opening
<1>7. CASE Found(p)
  <2>1. /\ Opening(p) /\ pc[p] = "shm_open" /\ pc'[p] = "map_open" /\ half'[p] = half[p]
        /\ shm[half[p]] # None /\ UNCHANGED <<shm, content>>
        /\ \A h \in Half : /\ mine'[p].shm[h] = IF h = half[p] THEN shm[h] ELSE mine[p].shm[h]
                           /\ mine'[p].sem[h] = mine[p].sem[h]
    BY <1>7, <1>t DEF Found, Turn, Leads, Typing, Objects, Opening
  <2>2. CASE half[p] = "table"
    BY <2>1, <2>2 DEF OpenerNamed, Creating, Making, Number
  <2>3. CASE half[p] = "index"
    <3>1. OpenerNamed(p) /\ Number(p)' = Number(p) /\ Headed(p)' = Headed(p)
      BY <2>1, <2>3, <1>o DEF Number, Headed
    <3>2. Headed(p) /\ shm["table"] = Number(p)
      BY <2>1, <2>3, <3>1, OpenersNumber DEF OpenerNamed
    <3>3. shm["index"] = Number(p)
      BY <2>1, <2>3, <3>2, <1>t DEF Consistent
    <3>4. QED
      BY <2>1, <2>3, <3>1, <3>2, <3>3 DEF OpenerNamed, Creating, Making
  <2>4. QED
    BY <2>2, <2>3
<1>8. CASE SetFound(p)
  <2>1. /\ Opening(p) /\ pc[p] = "sem_open" /\ sem[half[p]] # None /\ UNCHANGED <<shm, content>>
        /\ \A h \in Half : /\ mine'[p].sem[h] = IF h = half[p] THEN sem[h] ELSE mine[p].sem[h]
                           /\ mine'[p].shm[h] = mine[p].shm[h]
        /\ \/ half[p] = "table" /\ pc'[p] = "shm_open" /\ half'[p] = "index"
           \/ pc'[p] = "idle"
    BY <1>8, <1>t DEF SetFound, Turn, Leads, Typing, Objects, Opening
  <2>2. OpenerNamed(p) /\ Number(p)' = Number(p) /\ Headed(p)' = Headed(p)
    BY <2>1, <1>o DEF Number, Headed
  <2>3. Headed(p) /\ shm["table"] = Number(p)
    BY <2>1, <2>2 DEF OpenerNamed
  <2>4. half[p] = "table" => sem["table"] = Number(p)
    BY <2>1, <2>3, <1>t DEF Consistent
  <2>5. QED
    BY <2>1, <2>2, <2>3, <2>4 DEF OpenerNamed, Creating, Making, Opening
<1>9. CASE pc'[p] \in {"idle", "dead", "unlink", "rmid"}
  BY <1>9 DEF Creating, Making, Opening
<1>10. QED
  BY <1>1, <1>2, <1>3, <1>4, <1>5, <1>6, <1>7, <1>8, <1>9, <1>t, Ways DEF Step

(* Together.                                                               *)
LEMMA TidyStep ==
  ASSUME IInv, NEW p \in Proc, Comes(p)
  PROVE  Tidy'
<1>1. SUFFICES ASSUME tidy' PROVE HoldersEntire' /\ DestroyAlone' /\ (NoDestroy' => InOrder')
  BY DEF Tidy, HoldersEntire, DestroyAlone, InOrder
<1>2. HoldersEntire'
  BY <1>1, EntireStep
<1>3. CASE ~NoDestroy
  BY <1>1, <1>2, <1>3, AloneStep
<1>4. CASE NoDestroy
  <2>1. Consistent' /\ DestroyAlone'
    BY <1>1, <1>4, ConsistentStep, BeginsAlone
  <2>2. \A q \in Proc : (Creating(q)' => CreatorNamed(q)') /\ (Opening(q)' => OpenerNamed(q)')
    BY <1>1, <1>4, OrderOfOwn, OrderOfOthers
  <2>3. QED
    BY <1>2, <2>1, <2>2 DEF InOrder
<1>5. QED
  BY <1>3, <1>4

(* A creator whom nothing fails and nobody disturbs is refused nothing     *)
(* once it has the name of the records (table.rs, create_with_size).       *)
LEMMA NotRefused ==
  ASSUME IInv, NEW p \in Proc, Step(p), tidy, NoDestroy, Creating(p),
         pc[p] # "shm_new" \/ half[p] = "index", faults = 0, faults' = 0
  PROVE  ~Refused(p) /\ ~GaveUp(p)
<1>t. Typing /\ Creators /\ Holders /\ InOrder /\ Consistent
  BY TidyParts DEF IInv, InOrder
<1>h. /\ "table" \in Half /\ "index" \in Half /\ \A h \in Half : h \in {"table", "index"}
      /\ half[p] \in Half
  BY <1>t DEF Half, Typing
<1>1. CreatorNamed(p) /\ content[half[p]][Number(p)] = Reached(p) /\ Number(p) # None
  BY <1>t DEF InOrder, Creators
<1>2. pc[p] = "shm_new" => shm[half[p]] = None
  <2>1. pc[p] = "shm_new" => half[p] = "index" /\ shm["table"] = Number(p)
    BY <1>1 DEF CreatorNamed
  <2>2. pc[p] = "shm_new" => content["index"][Number(p)] = "none"
    BY <1>1, <2>1 DEF Reached
  <2>3. QED
    BY <2>1, <2>2, <1>t, <1>h DEF Consistent, Holders
<1>3. pc[p] = "semget" => sem[half[p]] = None
  <2>1. pc[p] = "semget" => sem[half[p]] # Number(p)
    BY <1>t, <1>h DEF Creators, SetPending
  <2>2. pc[p] = "semget" => shm[half[p]] = Number(p)
    BY <1>1 DEF CreatorNamed
  <2>3. QED
    BY <2>1, <2>2, <1>t, <1>h DEF Consistent
<1>4. pc[p] = "raise" => sem[half[p]] = mine[p].sem[half[p]]
  BY <1>1, <1>t DEF CreatorNamed, Creators
<1>f. faults' # faults + 1
  OBVIOUS
<1>5. ~Refused(p)
  BY <1>2, <1>3, <1>4, <1>f DEF Refused, Creating, Making, Opening
<1>6. ~GaveUp(p)
  BY <1>f DEF GaveUp
<1>7. QED
  BY <1>5, <1>6

(* In peace a table is whole or its creator is at work on it.              *)
LEMMA AtWorkStep ==
  ASSUME IInv, NEW p \in Proc, Comes(p)
  PROVE  AtWork'
<1>t. Typing /\ Typing' /\ Step(p) /\ Creators /\ AtWork
  BY DEF IInv, Comes
<1>h. /\ "table" \in Half /\ "index" \in Half /\ \A h \in Half : h \in {"table", "index"}
      /\ half[p] \in Half /\ shm \in Objects /\ sem \in Objects
      /\ faults \in Nat /\ faults' \in Nat
  BY <1>t, LifecycleAssumption DEF Half, Typing
<1> USE <1>h
<1> DEFINE Whole == \A h \in Half : shm[h] = shm["table"] /\ sem[h] = shm["table"]
           Works(r) == /\ Creating(r) /\ Number(r) = shm["table"]
                       /\ pc[r] # "shm_new" \/ half[r] = "index"
<1>1. SUFFICES ASSUME Peaceful', shm'["table"] # None
               PROVE  Whole' \/ \E r \in Proc : Works(r)'
  BY DEF AtWork
<1>2. tidy /\ tidy' /\ faults = 0 /\ faults' = 0 /\ \A q \in Proc : pc[q] # "dead"
  <2>1. tidy'
    BY <1>1 DEF Peaceful
  <2>2. tidy
    BY <2>1, <1>t, TidyOnce
  <2>3. faults' \in {faults, faults + 1}
    BY <1>t DEF Step, Created, Looked, Doomed, Dropped, Died, Refused, GaveUp, Named, Wrote,
       WentOn, SetMade, Raised, Found, SetFound, Unnamed, SetRemoved
  <2>4. \A q \in Proc : pc[q] # "dead"
    <3>1. pc'[p] # "dead" /\ pc[p] # "dead"
      BY <1>1, <1>t, Ways DEF Peaceful, Step, Opening
    <3>2. QED
      BY <1>1, <3>1, <1>t, Others DEF Peaceful
  <2>5. QED
    BY <1>1, <2>1, <2>2, <2>3, <2>4 DEF Peaceful
<1>3. NoDestroy
  BY <1>1, <1>2, AloneStep DEF Peaceful
<1>4. InOrder
  BY <1>2, <1>3, TidyParts DEF IInv
<1>5. CASE Named(p) /\ half[p] = "table"
  <2>1. Works(p)'
    BY <1>5, <1>t DEF Named, Turn, Leads, Typing, Objects, Creating, Making, Number
  <2>2. QED
    BY <2>1
<1>6. CASE ~(Named(p) /\ half[p] = "table")
  <2>1. shm'["table"] = shm["table"] /\ shm["table"] # None
    BY <1>1, <1>6, <1>t, NamesMove
  <2>2. Whole \/ \E r \in Proc : Works(r)
    BY <1>2, <1>3, <1>t, <2>1 DEF AtWork, Peaceful
  <2>3. CASE Whole
    <3>1. ~Named(p) /\ ~SetMade(p)
      BY <2>1, <2>3 DEF Named, SetMade
    <3>2. ~GaveUp(p) /\ ~Unnamed(p) /\ ~SetRemoved(p)
      BY <1>2, <1>3 DEF GaveUp, Unnamed, SetRemoved, NoDestroy, InDestroy
    <3>3. shm' = shm /\ sem' = sem
      BY <3>1, <3>2, <1>t DEF Step, Created, Looked, Doomed, Dropped, Died, Refused, Wrote,
         WentOn, Raised, Found, SetFound
    <3>4. QED
      BY <2>3, <3>3
  <2>4. ASSUME NEW r \in Proc, Works(r), r # p PROVE Works(r)'
    BY <2>1, <2>4, <1>t, Others DEF Creating
  <2>5. CASE Works(p)
    <3>1. CreatorNamed(p)
      BY <1>4, <2>5 DEF InOrder
    <3>2. ~Refused(p) /\ ~GaveUp(p)
      BY <1>2, <1>3, <1>t, <2>5, NotRefused
    <3>3. Named(p) \/ Wrote(p) \/ WentOn(p) \/ SetMade(p) \/ Raised(p)
      <4>1. ~Died(p)
        BY <1>1, <1>t, Ways DEF Peaceful
      <4>2. QED
        BY <2>5, <3>2, <4>1, <1>t, Ways DEF Step, Creating, Making
    <3>4. CASE Named(p) \/ Wrote(p) \/ WentOn(p) \/ SetMade(p)
      <4>1. pc'[p] \in Making
        BY <2>5, <3>4, <1>t, Ways DEF Creating, Making
      <4>2. Number(p)' = Number(p)
        <5>1. CASE Named(p)
          BY <1>6, <5>1 DEF Named, Leads, Number, Objects
        <5>2. CASE SetMade(p)
          BY <5>2 DEF SetMade, Leads, Number
        <5>3. CASE Wrote(p) \/ WentOn(p)
          BY <5>3 DEF Wrote, WentOn, Number
        <5>4. QED
          BY <3>4, <5>1, <5>2, <5>3
      <4>3. Works(p)'
        BY <2>1, <2>5, <4>1, <4>2 DEF Creating, Making
      <4>4. QED
        BY <4>3
    <3>5. CASE Raised(p)
      <4>1. /\ pc[p] = "raise" /\ UNCHANGED <<shm, sem, mine>> /\ Number(p)' = Number(p)
            /\ half[p] = "table" => pc'[p] = "shm_new" /\ half'[p] = "index"
        BY <3>5, <1>t DEF Raised, Turn, Typing, Number
      <4>2. CASE half[p] = "table"
        <5>1. Works(p)'
          BY <2>1, <2>5, <4>1, <4>2 DEF Creating
        <5>2. QED
          BY <5>1
      <4>3. CASE half[p] = "index"
        <5>1. Whole
          BY <2>5, <3>1, <4>1, <4>3 DEF CreatorNamed
        <5>2. QED
          BY <4>1, <5>1
      <4>4. QED
        BY <4>2, <4>3
    <3>6. QED
      BY <3>3, <3>4, <3>5
  <2>6. QED
    BY <2>2, <2>3, <2>4, <2>5
<1>7. QED
  BY <1>5, <1>6

-----------------------------------------------------------------------------
(* The semaphores.                                                         *)

(* A raised set stays raised, and the creator has raised one when it goes  *)
(* on (semaphore.rs:3).                                                    *)
LEMMA Rising ==
  ASSUME IInv, Risen, NEW p \in Proc, Step(p), Rises(p)
  PROVE  /\ raised' \in [Half -> [Creation -> BOOLEAN]]
         /\ \A h \in Half, n \in Creation : raised[h][n] => raised'[h][n]
         /\ Raised(p) => /\ Number(p) \in Creation /\ half[p] \in Half
                         /\ mine[p].sem[half[p]] = Number(p)
                         /\ raised'[half[p]][Number(p)]
<1>1. CASE Raised(p)
  <2>1. Creating(p) /\ pc[p] = "raise" /\ half[p] \in Half
    BY <1>1 DEF Raised, Creating, Making, IInv, Typing
  <2>2. Number(p) \in Creation /\ mine[p].sem[half[p]] = Number(p)
    BY <2>1, CreatorsNumber DEF IInv, Creators
  <2>3. raised' = [raised EXCEPT ![half[p]][Number(p)] = TRUE]
    BY <1>1 DEF Rises
  <2>4. raised \in [Half -> [Creation -> BOOLEAN]]
    BY DEF Risen
  <2>5. QED
    BY <2>1, <2>2, <2>3, <2>4
<1>2. CASE ~Raised(p)
  BY <1>2 DEF Rises, Risen
<1>3. QED
  BY <1>1, <1>2

(* The set of an index is around because it was, or its creator made it.   *)
LEMMA Around ==
  ASSUME IInv, NEW p \in Proc, Step(p), NEW n \in Creation, SetAround(n)'
  PROVE  \/ SetAround(n)
         \/ SetMade(p) /\ half[p] = "index" /\ n = Number(p)
<1>t. /\ Typing /\ "index" \in Half /\ n # None /\ half[p] \in Half
      /\ mine[p].sem \in Objects /\ sem \in Objects
  BY LifecycleAssumption DEF IInv, Typing, Handles, Half, Creation, None
<1>1. \A q \in Proc : q # p => mine'[q] = mine[q]
  BY <1>t, Others
<1>2. CASE SetMade(p)
  BY <1>t, <1>1, <1>2 DEF SetMade, Leads, Objects, SetAround
<1>3. CASE ~SetMade(p)
  <2>1. sem'["index"] \in {None, sem["index"]}
    <3>1. CASE SetRemoved(p)
      BY <1>t, <3>1 DEF SetRemoved, Objects
    <3>2. CASE ~SetRemoved(p)
      BY <1>3, <3>2 DEF Step, Created, Looked, Doomed, Dropped, Died, Refused, GaveUp, Named,
         Wrote, WentOn, Raised, Found, SetFound, Unnamed
    <3>3. QED
      BY <3>1, <3>2
  <2>2. mine'[p].sem["index"] \in {None, mine[p].sem["index"], sem["index"]}
    <3>1. CASE Created(p) \/ Looked(p) \/ Dropped(p)
      BY <1>t, <3>1 DEF Created, Looked, Dropped, Leads, Without
    <3>2. CASE Named(p) \/ Found(p)
      BY <1>t, <3>2 DEF Named, Found, Leads
    <3>3. CASE SetFound(p)
      BY <1>t, <3>3 DEF SetFound, Leads, Objects
    <3>4. CASE ~(Created(p) \/ Looked(p) \/ Dropped(p) \/ Named(p) \/ Found(p) \/ SetFound(p))
      BY <1>3, <3>4 DEF Step, Doomed, Died, Refused, GaveUp, Wrote, WentOn, Raised,
         Unnamed, SetRemoved
    <3>5. QED
      BY <3>1, <3>2, <3>3, <3>4
  <2>3. CASE sem'["index"] = n
    BY <1>t, <2>1, <2>3 DEF SetAround
  <2>4. ASSUME NEW q \in Proc, mine'[q].sem["index"] = n PROVE SetAround(n)
    BY <1>t, <1>1, <2>2, <2>4 DEF SetAround
  <2>5. QED
    BY <2>3, <2>4 DEF SetAround
<1>4. QED
  BY <1>2, <1>3

(* Whoever stands before raising the set of an index, or died, stays there *)
(* until it has raised it: while destroys are tidy raising does not fail   *)
(* (semaphore.rs:116).                                                     *)
LEMMA UnraisedStep ==
  ASSUME IInv, Risen, NEW p \in Proc, Comes(p), Rises(p), tidy',
         NEW n \in Creation, IndexUnraised(n)
  PROVE  raised'["index"][n] \/ IndexUnraised(n)'
<1>t. /\ Typing /\ Typing' /\ Step(p) /\ Creators /\ tidy
      /\ DestroyAlone /\ (NoDestroy => InOrder) /\ "index" \in Half
  BY TidyOnce, TidyParts DEF IInv, Comes, Half
<1>1. PICK q \in Proc : /\ mine[q].sem["index"] = n
                        /\ half[q] = "index" /\ pc[q] \in {"raise", "dead"}
  BY DEF IndexUnraised
<1>2. CASE q # p
  BY <1>1, <1>2, <1>t, Others DEF IndexUnraised
<1>3. CASE q = p
  <2>1. pc[p] = "raise"
    BY <1>1, <1>3, <1>t, Ways DEF Step, Opening
  <2>2. Raised(p) \/ Died(p) \/ Refused(p)
    BY <2>1, <1>t, Ways DEF Step, Opening
  <2>3. CASE Raised(p)
    BY <1>1, <1>3, <1>t, <2>3, Rising
  <2>4. CASE Died(p)
    BY <1>1, <1>3, <1>t, <2>4, Zenon DEF Died, Turn, Typing, IndexUnraised
  <2>5. ~Refused(p)
    <3>1. Creating(p) /\ InCall(p) /\ ~InDestroy(p)
      BY <2>1 DEF Creating, Making, InCall, InDestroy
    <3>2. NoDestroy
      BY <3>1, <1>t DEF DestroyAlone, NoDestroy
    <3>3. sem[half[p]] = mine[p].sem[half[p]]
      BY <2>1, <3>1, <3>2, <1>t DEF InOrder, CreatorNamed, Creators
    <3>4. QED
      BY <2>1, <3>3 DEF Refused, Opening
  <2>6. QED
    BY <2>2, <2>3, <2>4, <2>5
<1>4. QED
  BY <1>2, <1>3

(* Steps keep what is known of the semaphores (semaphore.rs, create and    *)
(* open).                                                                  *)
LEMMA RisenStep ==
  ASSUME IInv, Risen, NEW p \in Proc, Comes(p), Rises(p)
  PROVE  Risen'
<1>t. /\ Typing /\ Typing' /\ Step(p) /\ Creators
      /\ "index" \in Half /\ "table" \in Half /\ \A h \in Half : h \in {"table", "index"}
  BY DEF IInv, Comes, Half
<1>r. /\ raised' \in [Half -> [Creation -> BOOLEAN]]
      /\ \A h \in Half, n \in Creation : raised[h][n] => raised'[h][n]
      /\ Raised(p) => /\ Number(p) \in Creation /\ half[p] \in Half
                      /\ mine[p].sem[half[p]] = Number(p)
                      /\ raised'[half[p]][Number(p)]
  BY <1>t, Rising
<1>1. ASSUME NEW q \in Proc, Creating(q)', half'[q] = "index" PROVE raised'["table"][Number(q)']
  <2>1. CASE q # p
    <3>1. Creating(q) /\ half[q] = "index" /\ Number(q)' = Number(q)
      BY <1>1, <2>1, <1>t, Others DEF Creating
    <3>2. Number(q) \in Creation
      BY <3>1, CreatorsNumber
    <3>3. QED
      BY <3>1, <3>2, <1>r, <1>t DEF Risen
  <2>2. CASE q = p /\ Raised(p)
    <3>1. Number(p)' = Number(p) /\ half[p] = "table"
      BY <1>1, <2>2, <1>t DEF Raised, Turn, Typing, Creating, Making, Number
    <3>2. QED
      BY <2>2, <3>1, <1>r
  <2>3. CASE q = p /\ ~Raised(p)
    <3>1. Named(p) \/ Wrote(p) \/ WentOn(p) \/ SetMade(p)
      BY <1>1, <2>3, <1>t, Ways DEF Step, Creating, Making, Created, Turn, Typing
    <3>2. Creating(p) /\ half[p] = "index"
      BY <1>1, <2>3, <3>1, <1>t, Ways
         DEF Named, Wrote, WentOn, SetMade, Turn, Typing, Creating, Making
    <3>3. Number(p)' = Number(p)
      BY <3>1, <3>2, <1>t DEF Named, Wrote, WentOn, SetMade, Leads, Number, Typing, Handles, Objects
    <3>4. Number(p) \in Creation
      BY <3>2, CreatorsNumber
    <3>5. QED
      BY <2>3, <3>2, <3>3, <3>4, <1>r, <1>t DEF Risen
  <2>4. QED
    BY <2>1, <2>2, <2>3
<1>2. ASSUME NEW q \in Proc, out'[q] = "created", NEW h \in Half PROVE raised'[h][Number(q)']
  <2>1. CASE q # p
    <3>1. out[q] = "created" /\ Number(q)' = Number(q)
      BY <1>2, <2>1, <1>t, Others
    <3>2. Number(q) \in Creation
      BY <3>1, <1>t DEF IInv, Holders, Owns, Has, Number, Typing, Handles, Objects
    <3>3. QED
      BY <3>1, <3>2, <1>r DEF Risen
  <2>2. CASE q = p
    <3>1. Raised(p) /\ half[p] = "index" /\ Number(p)' = Number(p)
      <4>1. pc[p] # "idle" => out[p] = "none"
        BY <1>t DEF Typing
      <4>2. Raised(p)
        BY <1>2, <2>2, <4>1, <1>t, ErrorsAreNoHandles, Ways
        DEF Step, Created, Looked, Doomed, Dropped, Died, Refused, GaveUp, Named, Wrote,
            WentOn, SetMade, Found, SetFound, Unnamed, SetRemoved, Turn, Typing, InCall,
            Opening, Holds
      <4>3. QED
        BY <1>2, <2>2, <4>1, <4>2, <1>t DEF Raised, Turn, Typing, Number
    <3>2. Creating(p)
      BY <3>1 DEF Raised, Creating, Making
    <3>3. raised["table"][Number(p)]
      BY <3>1, <3>2 DEF Risen
    <3>4. QED
      BY <2>2, <3>1, <3>3, <1>r, <1>t
  <2>3. QED
    BY <2>1, <2>2
<1>3. ASSUME NEW n \in Creation, SetAround(n)'
      PROVE  /\ raised'["table"][n]
             /\ tidy' => raised'["index"][n] \/ IndexUnraised(n)'
  <2>1. CASE SetAround(n)
    <3>1. raised["table"][n] /\ (tidy => raised["index"][n] \/ IndexUnraised(n))
      BY <2>1 DEF Risen
    <3>2. tidy' => tidy
      BY <1>t, TidyOnce
    <3>3. tidy' /\ IndexUnraised(n) => raised'["index"][n] \/ IndexUnraised(n)'
      BY UnraisedStep
    <3>4. QED
      BY <3>1, <3>2, <3>3, <1>r, <1>t
  <2>2. CASE SetMade(p) /\ half[p] = "index" /\ n = Number(p)
    <3>1. raised["table"][n]
      BY <2>2 DEF Risen, SetMade, Creating, Making
    <3>2. mine'[p].sem["index"] = n /\ half'[p] = "index" /\ pc'[p] = "raise"
      BY <2>2, <1>t DEF SetMade, Leads, Turn, Typing, Handles, Objects
    <3>3. IndexUnraised(n)'
      BY <3>2 DEF IndexUnraised
    <3>4. QED
      BY <3>1, <3>3, <1>r, <1>t
  <2>3. QED
    BY <2>1, <2>2, <1>3, <1>t, Around
<1>4. QED
  BY <1>1, <1>2, <1>3, <1>r DEF Risen

-----------------------------------------------------------------------------
(* The theorems.                                                           *)

(* Initial states satisfy the invariant.                                   *)
LEMMA InitIInv == Init => IInv
<1> SUFFICES ASSUME Init PROVE IInv
  OBVIOUS
<1>1. \A p \in Proc : pc[p] = "idle" /\ out[p] = "none" /\ mine[p] = Nothing
  BY DEF Init
<1>2. \A p \in Proc : ~Creating(p) /\ ~Opening(p) /\ ~Owns(p) /\ ~InDestroy(p) /\ ~Holds(p)
  BY <1>1 DEF Creating, Making, Opening, Owns, InDestroy, Holds
<1>3. \A p \in Proc, h \in Half : mine[p].shm[h] = None /\ mine[p].sem[h] = None
  BY <1>1 DEF Nothing
<1>4. Typing
  <2>1. Nothing \in [shm : Objects, sem : Objects]
    BY DEF Nothing, Objects
  <2>2. 0 \in 0 .. MaxCreates /\ 0 \in 0 .. MaxFaults
    BY LifecycleAssumption
  <2>3. content \in [Half -> [Creation -> Contents]]
    BY DEF Init, Contents
  <2>4. shm \in Objects /\ sem \in Objects
    BY DEF Init, Objects
  <2>5. QED
    BY <1>1, <2>1, <2>2, <2>3, <2>4 DEF Init, Typing, Handles, PCs, Half
<1>5. Numbered
  BY <1>2, <1>3 DEF Init, Numbered, None
<1>6. \A h \in Half : shm[h] = None /\ sem[h] = None
  BY DEF Init
<1>7. Creators
  BY <1>2 DEF Creators
<1>8. Holders
  BY <1>2, <1>3, <1>6 DEF Holders
<1>9. Removals
  BY <1>1, <1>2 DEF Removals
<1>10. Makers
  BY <1>6 DEF Makers
<1>11. Tidy
  <2>1. Consistent
    BY <1>6 DEF Consistent, Half
  <2>2. QED
    BY <1>2, <2>1 DEF Tidy
<1>12. AtWork
  BY <1>6 DEF AtWork, Half
<1>13. QED
  BY <1>4, <1>5, <1>7, <1>8, <1>9, <1>10, <1>11, <1>12 DEF IInv

(* So they do the one about the semaphores (semaphore.rs, create).         *)
LEMMA InitRisen == Init => Risen
BY DEF Init, Risen, Nothing, SetAround, Creating, Making, Half, Creation, None

(* Every action is a step, and only sem_reset changes semaphores           *)
(* (semaphore.rs:3).                                                       *)
LEMMA EveryStep ==
  ASSUME IInv, NEW p \in Proc, Raise(p) \/ (Rest(p) /\ UNCHANGED raised)
  PROVE  Comes(p) /\ Rises(p)
<1>1. Comes(p)
  BY CreateSteps, OpenSteps, DestroySteps DEF Rest
<1>t. Typing /\ half[p] \in Half
  BY DEF IInv, Typing
<1>2. CASE Raise(p)
  <2>1. pc[p] = "raise" /\ mine[p].sem[half[p]] = Number(p)
    BY <1>2 DEF Raise, IInv, Creators, Creating, Making
  <2>2. CASE sem[half[p]] = mine[p].sem[half[p]]
    <3>1. raised' = [raised EXCEPT ![half[p]][Number(p)] = TRUE]
      BY <1>2, <2>1, <2>2 DEF Raise, RaiseAll
    <3>2. Raised(p)
      BY <1>2, <2>1, <2>2, <1>t DEF Raise, Raised, Turn, Goto, Return, Names, Ghosts, Typing, Half
    <3>3. QED
      BY <1>1, <3>1, <3>2 DEF Rises
  <2>3. CASE sem[half[p]] # mine[p].sem[half[p]]
    BY <1>1, <1>2, <2>3 DEF Raise, Raised, Rises
  <2>4. QED
    BY <2>2, <2>3
<1>3. CASE Rest(p) /\ UNCHANGED raised
  <2>1. ~Raised(p)
    <3>1. CASE Die(p)
      BY <3>1, <1>t DEF Die, Raised, Turn, Typing
    <3>2. CASE ~Die(p)
      BY <1>3, <3>2 DEF Rest, Raised, Create, ShmNew, Truncate, Map, Header, Slots, Semget,
         Open, ShmOpen, MapOpen, Check, SemOpen, Destroy, Unlink, Rmid, Drop, Begin, Goto, Holds
    <3>3. QED
      BY <3>1, <3>2
  <2>2. QED
    BY <1>1, <1>3, <2>1 DEF Rises
<1>4. QED
  BY <1>2, <1>3

(* Every action of the code preserves both.                                *)
LEMMA StepIInv == IInv /\ Risen /\ [Next]_vars => IInv' /\ Risen'
<1> SUFFICES ASSUME IInv, Risen, [Next]_vars PROVE IInv' /\ Risen'
  OBVIOUS
<1>1. ASSUME NEW p \in Proc, Comes(p), Rises(p) PROVE IInv' /\ Risen'
  <2>1. Numbered' /\ Creators' /\ Holders' /\ Removals'
    BY <1>1, NumberedStep, CreatorsStep, HoldersStep, RemovalsStep
  <2>2. Makers' /\ Tidy' /\ AtWork' /\ Risen'
    BY <1>1, MakersStep, TidyStep, AtWorkStep, RisenStep
  <2>3. QED
    BY <1>1, <2>1, <2>2 DEF IInv, Comes
<1>2. CASE Next
  <2>1. PICK p \in Proc : Raise(p) \/ (Rest(p) /\ UNCHANGED raised)
    BY <1>2 DEF Next
  <2>2. Comes(p) /\ Rises(p)
    BY <2>1, EveryStep
  <2>3. QED
    BY <2>2, <1>1
<1>3. CASE UNCHANGED vars
  <2>1. IInv'
    BY <1>3, SMTT(60)
    DEF vars, IInv, Typing, Numbered, Creators, Holders, Removals, Makers, Tidy, AtWork,
        Creating, Opening, Making, Owns, InDestroy, InCall, Holds, Number, Reached, SetPending, Has, Gone,
        HalfDestroyed, Consistent, CreatorNamed, OpenerNamed, Headed, Entire, NoDestroy, Peaceful
  <2>2. Risen'
    BY <1>3 DEF vars, Risen, SetAround, IndexUnraised, Creating, Making, Number
  <2>3. QED
    BY <2>1, <2>2
<1>4. QED
  BY <1>2, <1>3

(* The inductive invariant: how far every creation has come, where every   *)
(* object of a handle comes from, what the names lead to while destroys    *)
(* keep to themselves, and which semaphores have been raised (table.rs,    *)
(* create_with_size to destroy).                                           *)
THEOREM Invariance == Spec => [](IInv /\ Risen)
BY InitIInv, InitRisen, StepIInv, PTL DEF Spec

(* Variables keep their types, and whoever works on an object has one, so  *)
(* that no step of create, open or destroy reads through a handle that     *)
(* leads nowhere (block.rs).                                               *)
THEOREM TypeCorrect == Spec => []TypeOK
<1>1. ASSUME IInv, Risen PROVE TypeOK
  <2>1. ASSUME NEW p \in Proc, InCall(p), pc[p] \notin {"shm_new", "shm_open"}
        PROVE  mine[p].shm[half[p]] # None
    <3>1. half[p] \in Half /\ pc[p] \in PCs
      BY <1>1 DEF IInv, Typing
    <3>2. CASE Creating(p)
      BY <1>1, <2>1, <3>2 DEF IInv, Creators
    <3>3. CASE Opening(p)
      BY <1>1, <2>1, <3>1, <3>3 DEF IInv, Holders, Has
    <3>4. CASE InDestroy(p)
      BY <1>1, <3>1, <3>4 DEF IInv, Holders, Owns, Has
    <3>5. QED
      BY <2>1, <3>1, <3>2, <3>3, <3>4 DEF PCs, InCall, Creating, Making, Opening, InDestroy
  <2>2. QED
    BY <1>1, <2>1 DEF IInv, Typing, TypeOK, Contents, Handles, Risen
<1>2. QED
  BY <1>1, Invariance, PTL

(* A handle leads to one table whose blocks are initialized and whose      *)
(* semaphores are raised; only those of the index may be at 0, in a handle *)
(* from open, while the creator stands before raising them or if it died   *)
(* there.  It does not matter which creations and openings overlap, fail   *)
(* and die, as long as destroys keep to themselves (table.rs:313, open).   *)
THEOREM OpenedTablesAreWhole == Spec => []OpenedWhole
<1>1. ASSUME IInv, Risen PROVE OpenedWhole
  <2>1. SUFFICES ASSUME tidy, NEW p \in Proc, Holds(p)
                 PROVE  LET n == Number(p) IN
                        /\ \A h \in Half : /\ mine[p].shm[h] = n /\ mine[p].sem[h] = n
                                           /\ content[h][n] = "ready"
                        /\ raised["table"][n]
                        /\ raised["index"][n] \/ (out[p] = "opened" /\ IndexUnraised(n))
    BY DEF OpenedWhole
  <2>2. Entire(p)
    BY <1>1, <2>1 DEF IInv, Tidy
  <2>3. \A h \in Half : mine[p].sem[h] # None
    BY <1>1, <2>1 DEF IInv, Holders, Owns, Holds
  <2>4. \A h \in Half : /\ mine[p].shm[h] = Number(p) /\ mine[p].sem[h] = Number(p)
                        /\ content[h][Number(p)] = "ready"
    BY <1>1, <2>2, <2>3 DEF IInv, Holders, Entire
  <2>5. Number(p) \in Creation /\ SetAround(Number(p))
    <3>1. "index" \in Half /\ mine[p].sem \in Objects
      BY <1>1 DEF IInv, Typing, Handles, Half
    <3>2. QED
      BY <2>3, <2>4, <3>1 DEF Objects, SetAround
  <2>6. raised["table"][Number(p)] /\ (raised["index"][Number(p)] \/ IndexUnraised(Number(p)))
    BY <1>1, <2>1, <2>5 DEF Risen
  <2>7. out[p] = "created" => raised["index"][Number(p)]
    BY <1>1 DEF Risen, Half
  <2>8. out[p] \in {"created", "opened"}
    BY <2>1 DEF Holds
  <2>9. QED
    BY <2>4, <2>6, <2>7, <2>8
<1>2. QED
  BY <1>1, Invariance, PTL

(* A destroy that succeeds has removed all four objects of its table, and  *)
(* nobody puts them back (table.rs:414).                                   *)
THEOREM DestroyLeavesNothing == Spec => []LeavesNothing
<1>1. IInv => LeavesNothing
  BY DEF IInv, Removals, Gone, LeavesNothing
<1>2. QED
  BY <1>1, Invariance, PTL

(* A name of a block that is not initialized has a creator at work on it,  *)
(* or one that died at that (block.rs:73 and 81).                          *)
THEOREM HalfMadeBlocksHaveMakers == Spec => []HalfMadeHasMaker
<1>1. IInv => HalfMadeHasMaker
  BY DEF IInv, Makers, HalfMadeHasMaker
<1>2. QED
  BY <1>1, Invariance, PTL

(* Between calls the names lead to one whole table, its semaphores raised, *)
(* or to nothing, if no system call failed, nobody died and destroys kept  *)
(* to themselves (table.rs, create_with_size and destroy).                 *)
THEOREM TablesAreWholeOrGone == Spec => []WholeOrNothing
<1>1. ASSUME IInv, Risen PROVE WholeOrNothing
  <2>1. SUFFICES ASSUME tidy, faults = 0, \A p \in Proc : pc[p] = "idle"
                 PROVE  \E n \in {None} \cup Creation : \A h \in Half :
                          shm[h] = n /\ sem[h] = n /\ (n # None => raised[h][n])
    BY DEF WholeOrNothing
  <2>2. NoDestroy /\ Peaceful /\ \A p \in Proc : ~Creating(p)
    BY <2>1 DEF NoDestroy, Peaceful, InDestroy, Creating, Making
  <2>3. Consistent
    BY <1>1, <2>1, <2>2 DEF IInv, Tidy
  <2>4. \A h \in Half : shm[h] = shm["table"] /\ sem[h] = shm["table"]
    <3>1. CASE shm["table"] # None
      BY <1>1, <2>2, <3>1 DEF IInv, AtWork
    <3>2. CASE shm["table"] = None
      BY <2>3, <3>2 DEF Consistent, Half
    <3>3. QED
      BY <3>1, <3>2
  <2>5. shm["table"] \in {None} \cup Creation
    BY <1>1 DEF IInv, Typing, Objects, Half
  <2>6. ASSUME shm["table"] # None, NEW h \in Half PROVE raised[h][shm["table"]]
    <3>1. shm["table"] \in Creation /\ SetAround(shm["table"]) /\ h \in {"table", "index"}
      BY <2>4, <2>5, <2>6 DEF SetAround, Half
    <3>2. ~IndexUnraised(shm["table"])
      BY <2>1 DEF IndexUnraised
    <3>3. QED
      BY <1>1, <2>1, <3>1, <3>2 DEF Risen
  <2>7. QED
    BY <2>4, <2>5, <2>6
<1>2. QED
  BY <1>1, Invariance, PTL
====
